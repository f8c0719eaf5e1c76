--------------------------- MODULE MCCostLRUEviction ---------------------------
(***************************************************************************)
(* CostLRUEviction on a small instance: every formula, one object of a     *)
(* customer of no_bf_cust, and three sizes, so that a size score can put   *)
(* one of them at the mean and the others below and above; the largest     *)
(* never fits.                                                             *)
(***************************************************************************)
EXTENDS CostLRUEviction

MCCapacity == 4
MCSizes == {1, 2, MCCapacity + 1}
MCMaxTime == 2
MCFormulas == 1..8
MCAgePower == [a \in 0..MCMaxTime |-> a ^ 2]
==============================================================================
