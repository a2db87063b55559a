------------------------------ MODULE MCVente ------------------------------
(* Instance of Vente for TLC. *)
EXTENDS Vente

CONSTANTS v1, v2, w1, w2, k1, t1

MCUnMontant == {0, 1}
MCNatures == {"VENTE", "CORRECTION"}
=============================================================================
