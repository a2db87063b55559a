--------------------------- MODULE MCRemboursement ---------------------------
(* Instance of Remboursement for TLC. *)
EXTENDS Remboursement, TLC

CONSTANTS w1, w2, r1, r2

\* The first two lines sell the same PriceSold for one reservation, the third another
\* one, for another reservation of the cart.
MCResa == <<r1, r1, r2>>
MCTarif == <<1, 1, 2>>
MCVendu == <<2, 1, 1>>
MCPrix == <<1, 1, 2>>
\* Received less than the items, or exactly their price.
MCEncaissements == {4, 5}
Symetrie == Permutations(Travailleurs)
=============================================================================
