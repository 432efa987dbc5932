------------------------------ MODULE MCOffers ------------------------------
(***************************************************************************)
(* One user and one offer, known or not known at first; three conversions, *)
(* one of them tracked by a click; two requests at a time; two days of     *)
(* one hour, so that caps are reached, reset and reached again.            *)
(***************************************************************************)
EXTENDS Offers, TLC

CONSTANTS u1, o1, e1, e2, e3, w1, w2

MCUserOf == [e \in Ext |-> u1]
MCOfferOf == [e \in Ext |-> o1]
MCServed == Users \X OfferIds
MCDailyCap == [o \in OfferIds |-> 1]
MCHourlyCap == [o \in OfferIds |-> 2]
MCCountryCap == [u \in Users |-> 2]

Symmetry == Permutations(Workers)
=============================================================================
