------------------------------- MODULE PayOnce -------------------------------
(***************************************************************************)
(* What every source of money promises: something that happened outside    *)
(* (a conversion, a survey, a payment) is credited at most once, however   *)
(* often it is reported, and what was credited stays credited.  Offers,    *)
(* Deposits and Surveys implement it, each with its own credited.          *)
(***************************************************************************)
EXTENDS Naturals

CONSTANT Events

VARIABLE credited   \* how often each event was credited

Init == credited = [e \in Events |-> 0]

Credit(e) ==
  /\ credited[e] = 0
  /\ credited' = [credited EXCEPT ![e] = 1]

Next == \E e \in Events : Credit(e)

Spec == Init /\ [][Next]_credited
=============================================================================
