----------------------------- MODULE MCCreneaux -----------------------------
(* Instance of Creneaux for TLC. *)
EXTENDS Creneaux, TLC

CONSTANTS b1, b2, b3, s1, s2, p1, p2

\* The first slot alone, or two consecutive ones.
MCPlages == {{1}, {1, 2}}
MCUnePlage == {{1}}
Symetrie == Permutations(Demandes) \cup Permutations(Sessions) \cup Permutations(Processus)
=============================================================================
