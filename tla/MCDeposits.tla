----------------------------- MODULE MCDeposits -----------------------------
(***************************************************************************)
(* A deposit of three units in either currency to a wallet in either: what *)
(* two deposits share is the task's UPDATE, the switch and the rate.       *)
(***************************************************************************)
EXTENDS Deposits

CONSTANT d1

MCAmount == [d \in Ids |-> 3]
=============================================================================
