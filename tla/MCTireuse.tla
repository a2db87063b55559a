------------------------------ MODULE MCTireuse ------------------------------
(* Tireuse for TLC: a customer's card and a rinsing card; the requests are       *)
(* interchangeable.                                                              *)
EXTENDS Tireuse, TLC

CONSTANTS c1, c2, q1, q2, q3

Permutables == Permutations(Requetes)
=============================================================================
