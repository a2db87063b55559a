------------------------------ MODULE MCCloture ------------------------------
(* Instance of Cloture for TLC. *)
EXTENDS Cloture, TLC

CONSTANTS v1, v2, x1

\* Two weeks and the month that holds them, and the thresholds that follow their ends.
MCPeriodes == {[niveau |-> "H", debut |-> 1, fin |-> 2],
               [niveau |-> "H", debut |-> 2, fin |-> 3],
               [niveau |-> "M", debut |-> 1, fin |-> 3]}
MCSeuils == {0, 2, 3}
MCDateVirement == [v \in Virements |-> 1]
Symetrie == Permutations(Ventes \ Virements)
=============================================================================
