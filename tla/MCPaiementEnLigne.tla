------------------------- MODULE MCPaiementEnLigne -------------------------
(* Instance of PaiementEnLigne for TLC. *)
EXTENDS PaiementEnLigne, TLC

CONSTANTS w1, w2, f1, l1, l2

\* Web processes, and the items of an order, are interchangeable (safety only).
Symetrie == Permutations(Travailleurs) \cup Permutations(Lignes)
=============================================================================
