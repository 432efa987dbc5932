------------------------------ MODULE MCMembers ------------------------------
(***************************************************************************)
(* Small members: one user under two kinds of signal, two pages and two    *)
(* reviewers, three automation rules, two addresses, two players, boards   *)
(* of a few cells and cards.  What a part that is not followed might start *)
(* as is fixed.                                                            *)
(***************************************************************************)
EXTENDS Members, TLC

CONSTANTS u1, w1, w2, a1, t1, t2, v1, v2, p1, p2, e1, e2, c1, c2, c3, r1, r2, g1, g2, y1, y2

MCKinds == <<"device_reuse", "rapid_conversion">>
MCWeight == [k \in {MCKinds[1], MCKinds[2]} |-> 15]
MCRiskRules ==
  <<[min |-> 15, max |-> None, ageLt |-> 1, ageGte |-> None, action |-> "offers_disabled"],
    [min |-> 15, max |-> 60, ageLt |-> None, ageGte |-> None, action |-> "withdrawal_disabled"],
    [min |-> 30, max |-> None, ageLt |-> None, ageGte |-> 1, action |-> "offers_disabled"],
    [min |-> 30, max |-> None, ageLt |-> None, ageGte |-> None, action |-> "freeze_account"],
    [min |-> None, max |-> 20, ageLt |-> None, ageGte |-> None, action |-> "alert_admin"]>>

Act(do, reference) == [do |-> do, reference |-> reference]

MCAutoRules ==
  <<[max |-> 1, riskLt |-> TRUE, actions |-> <<Act("credit", None), Act("raises", None)>>],
    [max |-> 1, riskLt |-> FALSE,
     actions |-> <<Act("credit", "welcome"), Act("freeze", None), Act("other", None)>>],
    [max |-> None, riskLt |-> FALSE, actions |-> <<Act("credit", "welcome")>>]>>

MCItems == <<"wallet", "cash">>

\* A rule for high scores and one for long rounds; days of one tick.
MCGameRules ==
  <<[minScore |-> 1, minDuration |-> None, cooldown |-> 1, dailyMax |-> 1, monthlyMax |-> 3],
    [minScore |-> None, minDuration |-> 2, cooldown |-> 0, dailyMax |-> 2, monthlyMax |-> 2]>>
MCGameRounds == g1 :> 2 @@ g2 :> 1

MCStart == <<<<1, 1>>, <<0, 1>>, <<0, 0>>>>

MCInit ==
  /\ Init
  /\ part # "risk" => age = [u \in RiskUsers |-> 0]
  /\ part # "snake" => food = <<2, 2>> /\ snakeConnected
  /\ part # "memory" => memoryConnected
  /\ part # "tap" => tapConnected

MCSpec == MCInit /\ [][Next]_vars
=============================================================================
