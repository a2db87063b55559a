--------------------------- MODULE MCPortefeuille ---------------------------
(* Instance of Portefeuille for TLC. *)
EXTENDS Portefeuille

CONSTANTS c1, c2, p1, p2, m1, m2, q1, q2, q3

MCCascade == <<m1, m2>>
\* Each card holds one unit of each asset in its first wallet; the rest is empty.
MCSoldeInitial == [ligne \in Jetons |-> IF ligne[1] \in Cartes \X {1} THEN 1 ELSE 0]
Symetrie == Permutations(Requetes)
=============================================================================
