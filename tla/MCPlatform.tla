------------------------------ MODULE MCPlatform ------------------------------
(***************************************************************************)
(* A small platform: three processes that hold one setting in two caches,  *)
(* two items of a catalog, five pricing rules with rates from half a rupee *)
(* for a dollar, one campaign, two users with two surveys.  What a part    *)
(* that is not followed might start as is fixed.                           *)
(***************************************************************************)
EXTENDS Platform, TLC

CONSTANTS p1, p2, p3, i1, i2, u1, u2, s1, s2, k1, k2

MCCacheOf == p1 :> "web" @@ p2 :> "web" @@ p3 :> "worker"

Scope(country) == [source |-> "offer", country |-> country]
Rule(country, min, max, percentage, fixed, multiplier, cap, currency) ==
  [scope |-> Scope(country), min |-> min, max |-> max, percentage |-> percentage,
   fixed |-> fixed, pointsPercentage |-> 50, fixedPoints |-> 1,
   multiplier |-> multiplier, cap |-> cap, currency |-> currency]

MCRules ==
  <<Rule("PK", 5, None, 40, 0, 3, None, "PKR"),
    Rule(None, None, 5, 33, 0, 2, None, "PKR"),
    Rule(None, 3, 9, 25, 0, 0, None, "USD"),
    Rule(None, None, None, 60, 2, 3, 7, "PKR"),
    Rule(None, None, None, 0, 3, 1, None, "PKR")>>
MCEvents == [context : {Scope("PK"), Scope("US")}, gross : {0, 1, 3, 5, 7, None},
             currency : {"USD"}]

MCWindow == i1 :> [starts |-> 0, ends |-> 4]

MCKeys == <<"conversions", "user_cost">>

MCInit ==
  /\ Init
  /\ part # "catalog" => enabled
  /\ part # "pricing" => rate = 1

MCSpec == MCInit /\ [][Next]_vars
=============================================================================
