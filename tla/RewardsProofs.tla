---------------------------- MODULE RewardsProofs ----------------------------
(***************************************************************************)
(* Theorems about Rewards, for any users, references, awards, workers and  *)
(* task runs.                                                              *)
(***************************************************************************)
EXTENDS Rewards, SumTheorems, TLAPS

-----------------------------------------------------------------------------
(* Facts about legs                                                        *)

\* What an award inserts is a reward row.
LEMMA AwardIsRow ==
  ASSUME NEW a \in Awards, NEW s \in Statuses
  PROVE  [user |-> a.user, ref |-> a.ref, cash |-> a.cash, points |-> a.points,
          manual |-> a.manual, held |-> FALSE, old |-> FALSE,
          approvedBy |-> NoAdmin, status |-> s] \in RewardRow
  BY AwardsType DEF RewardRow, Award

\* The amount of a leg is a number, so every change of a balance is.
LEMMA NetChangeType ==
  ASSUME NEW row \in RewardRow, NEW L, NEW a
  PROVE  NetChange(row, L, a) \in Int
<1>1. \A l \in Legs : LegChange(row, l, a) \in Int
  BY DEF LegChange, Amount, RewardRow
<1> QED
  BY <1>1 DEF NetChange, Legs

\* Posting keeps the shape of legs and balances.
LEMMA PostLegsType ==
  ASSUME TypeOK, NEW r \in RewardIds, NEW row \in RewardRow, NEW L,
         PostLegs(r, row, L)
  PROVE  /\ legs' \in [RewardIds -> [Legs -> {"none", "posted", "reversed"}]]
         /\ balance' \in [Accounts -> Int]
  BY NetChangeType DEF TypeOK, PostLegs

\* Reversing keeps the shape of legs and balances.
LEMMA ReverseLegsType ==
  ASSUME TypeOK, NEW r \in RewardIds, Exists(r), NEW L, ReverseLegs(r, L)
  PROVE  /\ legs' \in [RewardIds -> [Legs -> {"none", "posted", "reversed"}]]
         /\ balance' \in [Accounts -> Int]
<1>1. reward[r] \in RewardRow
  BY DEF TypeOK, Exists
<1> QED
  BY <1>1, NetChangeType DEF TypeOK, ReverseLegs

-----------------------------------------------------------------------------
(* Type correctness                                                        *)

\* Changing a field of an existing reward leaves a reward.
LEMMA ApproveType ==
  ASSUME TypeOK, NEW r \in RewardIds, NEW by \in Admins \cup {NoAdmin},
         Approve(r, by)
  PROVE  /\ reward' \in [RewardIds -> RewardRow \cup {None}]
         /\ legs' \in [RewardIds -> [Legs -> {"none", "posted", "reversed"}]]
         /\ balance' \in [Accounts -> Int]
<1>1. reward[r] \in RewardRow
  BY DEF TypeOK, Exists, Approve
<1>2. [[reward[r] EXCEPT !.status = "APPROVED"] EXCEPT !.approvedBy = by] \in RewardRow
  BY <1>1 DEF RewardRow, Statuses
<1>3. reward' \in [RewardIds -> RewardRow \cup {None}]
  BY <1>1, <1>2 DEF TypeOK, Approve
<1> QED
  BY <1>1, <1>3, PostLegsType DEF Approve

\* A row with one of its fields changed is a row, wherever it is put.
LEMMA ChangedRowType ==
  ASSUME TypeOK, NEW r \in RewardIds, NEW row \in RewardRow,
         reward' = [reward EXCEPT ![r] = row]
  PROVE  reward' \in [RewardIds -> RewardRow \cup {None}]
  BY DEF TypeOK

\* The fields that the service, the rules and the clock change.
LEMMA FieldsType ==
  ASSUME NEW row \in RewardRow
  PROVE  /\ [row EXCEPT !.held = TRUE] \in RewardRow
         /\ [row EXCEPT !.manual = FALSE] \in RewardRow
         /\ [row EXCEPT !.old = TRUE] \in RewardRow
         /\ \A s \in Statuses : [row EXCEPT !.status = s] \in RewardRow
         /\ \A by \in Admins \cup {NoAdmin} : [row EXCEPT !.approvedBy = by] \in RewardRow
  BY DEF RewardRow

\* Every step keeps every variable in its type.
LEMMA NextType == TypeOK /\ [Next]_vars => TypeOK'
<1> SUFFICES ASSUME TypeOK, [Next]_vars PROVE TypeOK'
  OBVIOUS
<1>0. \A r \in RewardIds : Exists(r) => reward[r] \in RewardRow
  BY DEF TypeOK, Exists
<1>1. CASE UNCHANGED vars
  BY <1>1 DEF TypeOK, vars
<1>2. ASSUME NEW w \in Workers, NEW a \in Awards, AwardLookup(w, a)
      PROVE  TypeOK'
  BY <1>2 DEF TypeOK, AwardLookup
<1>3. ASSUME NEW w \in Workers, AwardClashes(w) PROVE TypeOK'
  BY <1>3 DEF TypeOK, AwardClashes
<1>4. ASSUME NEW w \in Workers, AwardInserts(w) PROVE TypeOK'
  <2> DEFINE a == attempt[w]
             row == [user |-> a.user, ref |-> a.ref, cash |-> a.cash,
                     points |-> a.points, manual |-> a.manual, held |-> FALSE,
                     old |-> FALSE, approvedBy |-> NoAdmin,
                     status |-> IF a.manual THEN "PENDING" ELSE "APPROVED"]
             L == PendingLegs(row) \cup (IF a.manual THEN {} ELSE ApproveLegs(row))
  <2>1. a \in Awards
    BY <1>4 DEF TypeOK, AwardInserts
  <2>2. row \in RewardRow
    BY <2>1, AwardIsRow DEF Statuses
  <2>3. PICK r \in RewardIds : reward' = [reward EXCEPT ![r] = row] /\ PostLegs(r, row, L)
    BY <1>4 DEF AwardInserts
  <2> HIDE DEF row, L
  <2>4. reward' \in [RewardIds -> RewardRow \cup {None}]
    BY <2>2, <2>3 DEF TypeOK
  <2>5. /\ legs' \in [RewardIds -> [Legs -> {"none", "posted", "reversed"}]]
        /\ balance' \in [Accounts -> Int]
    BY <2>2, <2>3, PostLegsType
  <2> QED
    BY <1>4, <2>4, <2>5 DEF TypeOK, AwardInserts
<1>5. ASSUME NEW r \in RewardIds, NEW by \in Admins, AdminApprove(r, by)
      PROVE  TypeOK'
  BY <1>5, ApproveType DEF TypeOK, AdminApprove
<1>6. ASSUME NEW r \in RewardIds, Hold(r) PROVE TypeOK'
  BY <1>0, <1>6, FieldsType, ChangedRowType DEF TypeOK, Hold
<1>7. ASSUME NEW r \in RewardIds, Reject(r) PROVE TypeOK'
  BY <1>0, <1>7, FieldsType, ChangedRowType, ReverseLegsType DEF TypeOK, Reject, Statuses
<1>8. ASSUME NEW r \in RewardIds, Reverse(r) PROVE TypeOK'
  BY <1>0, <1>8, FieldsType, ChangedRowType, ReverseLegsType DEF TypeOK, Reverse, Statuses
<1>9. ASSUME NEW r \in RewardIds, RuleRelaxed(r) PROVE TypeOK'
  BY <1>0, <1>9, FieldsType, ChangedRowType DEF TypeOK, RuleRelaxed
<1>10. ASSUME NEW r \in RewardIds, Ages(r) PROVE TypeOK'
  BY <1>0, <1>10, FieldsType, ChangedRowType DEF TypeOK, Ages
<1>11. ASSUME NEW t \in Tasks, TaskReads(t) PROVE TypeOK'
  BY <1>11 DEF TypeOK, TaskReads
<1>12. ASSUME NEW t \in Tasks, TaskApproves(t) PROVE TypeOK'
  <2>1. PICK r \in todo[t] :
          \/ /\ Approve(r, NoAdmin)
             /\ todo' = [todo EXCEPT ![t] = @ \ {r}]
          \/ /\ todo' = [todo EXCEPT ![t] = @ \ {r}]
             /\ UNCHANGED <<reward, legs, balance>>
          \/ /\ todo' = [todo EXCEPT ![t] = {}]
             /\ UNCHANGED <<reward, legs, balance>>
    BY <1>12 DEF TaskApproves
  <2>2. r \in RewardIds
    BY <2>1 DEF TypeOK
  <2> QED
    BY <1>12, <2>1, <2>2, ApproveType DEF TypeOK, TaskApproves
<1>13. ASSUME NEW t \in Tasks, TaskDies(t) PROVE TypeOK'
  BY <1>13, BoundsType DEF TypeOK, TaskDies
<1> QED
  BY <1>1, <1>2, <1>3, <1>4, <1>5, <1>6, <1>7, <1>8, <1>9, <1>10, <1>11, <1>12,
     <1>13 DEF Next

\* Every reachable state is well typed.
THEOREM TypeCorrect == Spec => []TypeOK
<1>1. Init => TypeOK
  BY BoundsType DEF Init, TypeOK
<1> QED
  BY <1>1, NextType, PTL DEF Spec

\* Rows for the same award: only status and flags differ.
SameAward(p, q) ==
  p.user = q.user /\ p.ref = q.ref /\ p.cash = q.cash /\ p.points = q.points

\* Holding a reward, relaxing its rule and ageing put another row for the same
\* award, with the same status, in its place.
LEMMA FlagStep ==
  ASSUME TypeOK, NEW r \in RewardIds, Hold(r) \/ RuleRelaxed(r) \/ Ages(r)
  PROVE  \E row \in RewardRow :
           /\ reward' = [reward EXCEPT ![r] = row]
           /\ SameAward(row, reward[r]) /\ row.status = reward[r].status
<1> DEFINE old == reward[r]
<1>1. old \in RewardRow
  BY DEF TypeOK, Hold, RuleRelaxed, Ages, Exists
<1>2. ASSUME NEW row \in RewardRow,
             \/ row = [old EXCEPT !.held = TRUE]
             \/ row = [old EXCEPT !.manual = FALSE]
             \/ row = [old EXCEPT !.old = TRUE]
      PROVE  SameAward(row, old) /\ row.status = old.status
  BY <1>1, <1>2 DEF SameAward, RewardRow
<1>3. \/ reward' = [reward EXCEPT ![r] = [old EXCEPT !.held = TRUE]]
      \/ reward' = [reward EXCEPT ![r] = [old EXCEPT !.manual = FALSE]]
      \/ reward' = [reward EXCEPT ![r] = [old EXCEPT !.old = TRUE]]
  BY DEF Hold, RuleRelaxed, Ages
<1> QED
  BY <1>1, <1>2, <1>3, FieldsType

\* Rejecting and reversing put the same award with another status.
LEMMA StatusStep ==
  ASSUME TypeOK, NEW r \in RewardIds, Reject(r) \/ Reverse(r)
  PROVE  \E row \in RewardRow :
           reward' = [reward EXCEPT ![r] = row] /\ SameAward(row, reward[r])
<1> DEFINE old == reward[r]
<1>1. old \in RewardRow
  BY DEF TypeOK, Reject, Reverse, Exists
<1>2. PICK s \in Statuses : reward' = [reward EXCEPT ![r] = [old EXCEPT !.status = s]]
  BY DEF Reject, Reverse, Statuses
<1>3. SameAward([old EXCEPT !.status = s], old)
  BY <1>1 DEF SameAward, RewardRow
<1> QED
  BY <1>1, <1>2, <1>3, FieldsType

-----------------------------------------------------------------------------
(* The ledger transactions of a reward match its status                    *)

\* LegsMatchStatus, for one reward.
LegsOk(row, ls) ==
  IF row # None THEN ls \in LegsExpected(row) ELSE \A l \in Legs : ls[l] = "none"

\* A step that changes the row and the legs of one reward, and leaves these
\* matching, keeps LegsMatchStatus.
LEMMA OneRewardChanges ==
  ASSUME LegsMatchStatus, NEW r \in RewardIds,
         \A q \in RewardIds \ {r} : reward'[q] = reward[q] /\ legs'[q] = legs[q],
         LegsOk(reward'[r], legs'[r])
  PROVE  LegsMatchStatus'
  BY DEF LegsMatchStatus, LegsOk, Exists

\* Which legs a reward has depends on its amounts only.
LEMMA LegsOfAmounts ==
  ASSUME NEW p, NEW q, p.cash = q.cash, p.points = q.points
  PROVE  PendingLegs(p) = PendingLegs(q) /\ ApproveLegs(p) = ApproveLegs(q)
  BY DEF PendingLegs, ApproveLegs, Amount

\* Approving posts the approve legs on top of the posted pending legs.
LEMMA ApproveKeepsLegs ==
  ASSUME TypeOK, LegsMatchStatus, NEW r \in RewardIds,
         NEW by \in Admins \cup {NoAdmin}, Approve(r, by)
  PROVE  LegsMatchStatus'
<1> DEFINE row == reward[r]
<1>1. row \in RewardRow /\ row.status = "PENDING" /\ row # None
  BY DEF TypeOK, Approve, Exists
<1>2. legs[r] = [l \in Legs |-> IF l \in PendingLegs(row) THEN "posted" ELSE "none"]
  BY <1>1 DEF LegsMatchStatus, LegsExpected, Exists
<1>3. legs'[r] = [l \in Legs |->
         IF l \in PendingLegs(row) \cup ApproveLegs(row) THEN "posted" ELSE "none"]
  BY <1>2 DEF TypeOK, Approve, PostLegs, ApproveLegs
<1>4. /\ reward'[r] = [[row EXCEPT !.status = "APPROVED"] EXCEPT !.approvedBy = by]
      /\ reward'[r].status = "APPROVED"
      /\ reward'[r].cash = row.cash /\ reward'[r].points = row.points
  BY <1>1 DEF TypeOK, Approve, RewardRow
<1>5. reward'[r] # None
  <2>1. [row EXCEPT !.status = "APPROVED"] \in RewardRow
    BY <1>1, FieldsType DEF Statuses
  <2>2. reward'[r] \in RewardRow
    BY <1>4, <2>1, FieldsType
  <2> QED
    BY <2>2, NullsAreNoValues
<1>6. /\ PendingLegs(reward'[r]) = PendingLegs(row)
      /\ ApproveLegs(reward'[r]) = ApproveLegs(row)
  BY <1>4, LegsOfAmounts
<1>7. LegsOk(reward'[r], legs'[r])
  BY <1>3, <1>4, <1>5, <1>6 DEF LegsOk, LegsExpected
<1>8. \A q \in RewardIds \ {r} : reward'[q] = reward[q] /\ legs'[q] = legs[q]
  BY DEF TypeOK, Approve, PostLegs
<1> QED
  BY <1>7, <1>8, OneRewardChanges

\* Rejecting or reversing turns the posted legs of a reward into reversed ones.
LEMMA UndoKeepsLegs ==
  ASSUME TypeOK, LegsMatchStatus, NEW r \in RewardIds, Reject(r) \/ Reverse(r)
  PROVE  LegsMatchStatus'
<1> DEFINE row == reward[r]
           PL == PendingLegs(row)
           AL == ApproveLegs(row)
<1>1. row \in RewardRow /\ row # None
  BY DEF TypeOK, Reject, Reverse, Exists
<1>2. PL \subseteq {"pending", "pending:points"} /\ PL \cup AL \subseteq Legs
  BY DEF PendingLegs, ApproveLegs, Legs
<1>3. CASE row.status = "PENDING"
  <2>1. legs[r] = [l \in Legs |-> IF l \in PL THEN "posted" ELSE "none"]
    BY <1>1, <1>3 DEF LegsMatchStatus, LegsExpected, Exists
  <2>2. ReverseLegs(r, {"pending", "pending:points"})
    BY <1>3 DEF Reject, Reverse
  <2>3. legs'[r] = [l \in Legs |-> IF l \in PL THEN "reversed" ELSE "none"]
    BY <1>2, <2>1, <2>2 DEF TypeOK, ReverseLegs
  <2>4. PICK s \in {"REJECTED", "REVERSED"} : reward' = [reward EXCEPT ![r].status = s]
    BY DEF Reject, Reverse
  <2>5. reward'[r].status = s /\ reward'[r].cash = row.cash /\ reward'[r].points = row.points
    BY <1>1, <2>4 DEF TypeOK, RewardRow
  <2>6. PendingLegs(reward'[r]) = PL
    BY <2>5, LegsOfAmounts
  <2>7. LegsOk(reward'[r], legs'[r])
    <3>1. reward'[r] \in RewardRow
      BY <1>1, <2>4, FieldsType DEF TypeOK, Statuses
    <3> QED
      BY <2>3, <2>4, <2>5, <2>6, <3>1, NullsAreNoValues DEF LegsOk, LegsExpected
  <2>8. \A q \in RewardIds \ {r} : reward'[q] = reward[q] /\ legs'[q] = legs[q]
    BY <2>2, <2>4 DEF TypeOK, ReverseLegs
  <2> QED
    BY <2>7, <2>8, OneRewardChanges
<1>4. CASE row.status = "APPROVED"
  <2>1. legs[r] = [l \in Legs |-> IF l \in PL \cup AL THEN "posted" ELSE "none"]
    BY <1>1, <1>4 DEF LegsMatchStatus, LegsExpected, Exists
  <2>2. ReverseLegs(r, Legs) /\ reward' = [reward EXCEPT ![r].status = "REVERSED"]
    BY <1>4 DEF Reject, Reverse
  <2>3. legs'[r] = [l \in Legs |-> IF l \in PL \cup AL THEN "reversed" ELSE "none"]
    BY <1>2, <2>1, <2>2 DEF TypeOK, ReverseLegs
  <2>4. /\ reward'[r].status = "REVERSED"
        /\ reward'[r].cash = row.cash /\ reward'[r].points = row.points
    BY <1>1, <2>2 DEF TypeOK, RewardRow
  <2>5. PendingLegs(reward'[r]) = PL /\ ApproveLegs(reward'[r]) = AL
    BY <2>4, LegsOfAmounts
  <2>6. LegsOk(reward'[r], legs'[r])
    <3>1. reward'[r] \in RewardRow
      BY <1>1, <2>2, FieldsType DEF TypeOK, Statuses
    <3> QED
      BY <2>3, <2>4, <2>5, <3>1, NullsAreNoValues DEF LegsOk, LegsExpected
  <2>7. \A q \in RewardIds \ {r} : reward'[q] = reward[q] /\ legs'[q] = legs[q]
    BY <2>2 DEF TypeOK, ReverseLegs
  <2> QED
    BY <2>6, <2>7, OneRewardChanges
<1> QED
  BY <1>3, <1>4 DEF Reject, Reverse

\* An award creates the reward and all the legs its status calls for.
LEMMA AwardKeepsLegs ==
  ASSUME TypeOK, LegsMatchStatus, NEW w \in Workers, AwardInserts(w)
  PROVE  LegsMatchStatus'
<1> DEFINE a == attempt[w]
           row == [user |-> a.user, ref |-> a.ref, cash |-> a.cash,
                   points |-> a.points, manual |-> a.manual, held |-> FALSE,
                   old |-> FALSE, approvedBy |-> NoAdmin,
                   status |-> IF a.manual THEN "PENDING" ELSE "APPROVED"]
           L == PendingLegs(row) \cup (IF a.manual THEN {} ELSE ApproveLegs(row))
<1>1. a \in Awards /\ a.manual \in BOOLEAN
  BY AwardsType DEF TypeOK, AwardInserts, Award
<1>2. row \in RewardRow /\ row # None
  BY <1>1, AwardIsRow, NullsAreNoValues DEF Statuses
<1>3. PICK r \in RewardIds :
        /\ ~Exists(r) /\ reward' = [reward EXCEPT ![r] = row] /\ PostLegs(r, row, L)
  BY DEF AwardInserts
<1>4. L \subseteq Legs
  BY DEF PendingLegs, ApproveLegs, Legs
<1>5. \A l \in Legs : legs[r][l] = "none"
  BY <1>3 DEF LegsMatchStatus
<1>6. legs'[r] = [l \in Legs |-> IF l \in L THEN "posted" ELSE "none"]
  BY <1>3, <1>5 DEF TypeOK, PostLegs
<1>7. reward'[r] = row
  BY <1>3 DEF TypeOK
<1>8. row.status = IF a.manual THEN "PENDING" ELSE "APPROVED"
  OBVIOUS
<1>9. \A q \in RewardIds \ {r} : reward'[q] = reward[q] /\ legs'[q] = legs[q]
  BY <1>3 DEF TypeOK, PostLegs
<1>10. LegsOk(row, legs'[r])
  <2> HIDE DEF row
  <2>1. CASE a.manual
    BY <1>2, <1>6, <1>8, <2>1 DEF LegsOk, LegsExpected
  <2>2. CASE ~a.manual
    BY <1>2, <1>6, <1>8, <2>2 DEF LegsOk, LegsExpected
  <2> QED
    BY <2>1, <2>2
<1> QED
  BY <1>7, <1>9, <1>10, OneRewardChanges

\* Changing neither status nor amounts of a reward leaves its legs matching.
LEMMA FlagKeepsLegs ==
  ASSUME TypeOK, LegsMatchStatus, NEW r \in RewardIds,
         Hold(r) \/ RuleRelaxed(r) \/ Ages(r)
  PROVE  LegsMatchStatus'
<1>1. reward[r] \in RewardRow /\ reward[r] # None
  BY DEF TypeOK, Hold, RuleRelaxed, Ages, Exists
<1>2. /\ reward'[r] \in RewardRow
      /\ reward'[r].status = reward[r].status
      /\ reward'[r].cash = reward[r].cash /\ reward'[r].points = reward[r].points
  BY FlagStep DEF TypeOK, SameAward
<1>3. /\ PendingLegs(reward'[r]) = PendingLegs(reward[r])
      /\ ApproveLegs(reward'[r]) = ApproveLegs(reward[r])
  BY <1>2, LegsOfAmounts
<1>4. legs' = legs /\ \A q \in RewardIds \ {r} : reward'[q] = reward[q]
  BY DEF TypeOK, Hold, RuleRelaxed, Ages
<1>5. LegsExpected(reward'[r]) = LegsExpected(reward[r])
  BY <1>2, <1>3 DEF LegsExpected
<1>6. LegsOk(reward'[r], legs'[r])
  BY <1>1, <1>2, <1>4, <1>5, NullsAreNoValues DEF LegsMatchStatus, LegsOk, Exists
<1> QED
  BY <1>4, <1>6, OneRewardChanges

\* Every step keeps legs and status together.
LEMMA NextKeepsLegs == TypeOK /\ LegsMatchStatus /\ [Next]_vars => LegsMatchStatus'
<1> SUFFICES ASSUME TypeOK, LegsMatchStatus, [Next]_vars PROVE LegsMatchStatus'
  OBVIOUS
<1>0. UNCHANGED <<reward, legs>> => LegsMatchStatus'
  BY DEF LegsMatchStatus, Exists
<1>1. CASE UNCHANGED vars
  BY <1>0, <1>1 DEF vars
<1>2. ASSUME NEW w \in Workers,
             (\E a \in Awards : AwardLookup(w, a)) \/ AwardClashes(w)
      PROVE  LegsMatchStatus'
  BY <1>0, <1>2 DEF AwardLookup, AwardClashes
<1>3. ASSUME NEW w \in Workers, AwardInserts(w) PROVE LegsMatchStatus'
  BY <1>3, AwardKeepsLegs
<1>4. ASSUME NEW r \in RewardIds, NEW by \in Admins, AdminApprove(r, by)
      PROVE  LegsMatchStatus'
  BY <1>4, ApproveKeepsLegs DEF AdminApprove
<1>5. ASSUME NEW r \in RewardIds, Reject(r) \/ Reverse(r) PROVE LegsMatchStatus'
  BY <1>5, UndoKeepsLegs
<1>6. ASSUME NEW r \in RewardIds, Hold(r) \/ RuleRelaxed(r) \/ Ages(r)
      PROVE  LegsMatchStatus'
  BY <1>6, FlagKeepsLegs
<1>7. ASSUME NEW t \in Tasks, TaskApproves(t) PROVE LegsMatchStatus'
  <2>1. PICK r \in todo[t] : Approve(r, NoAdmin) \/ UNCHANGED <<reward, legs>>
    BY <1>7 DEF TaskApproves
  <2>2. r \in RewardIds
    BY <2>1 DEF TypeOK
  <2> QED
    BY <1>0, <2>1, <2>2, ApproveKeepsLegs
<1>8. ASSUME NEW t \in Tasks, TaskReads(t) \/ TaskDies(t) PROVE LegsMatchStatus'
  BY <1>0, <1>8 DEF TaskReads, TaskDies
<1> QED
  BY <1>1, <1>2, <1>3, <1>4, <1>5, <1>6, <1>7, <1>8 DEF Next

\* The ledger transactions posted and reversed for a reward are always exactly
\* those of its status, for any number of racing awards, admins and tasks.
THEOREM LegsFollowStatus == Spec => []LegsMatchStatus
<1>1. Init => LegsMatchStatus
  BY DEF Init, LegsMatchStatus, Exists
<1> QED
  BY <1>1, TypeCorrect, NextKeepsLegs, PTL DEF Spec

-----------------------------------------------------------------------------
(* The buckets hold the rewards of their status                            *)

\* What a share depends on.
LEMMA ShareOfAward ==
  ASSUME NEW p, NEW q, SameAward(p, q), NEW s, NEW a
  PROVE  Share(p, s, a) = Share(q, s, a)
  BY DEF Share, SameAward

\* No account is both sides of a movement, nor that of another kind.
LEMMA AccountsApart ==
  ASSUME NEW u, NEW v
  PROVE  /\ <<"PENDING", u>> # <<"CASH", v>> /\ <<"PENDING", u>> # <<"POINTS", v>>
         /\ <<"PENDING", u>> # <<"system", v>> /\ <<"CASH", u>> # <<"POINTS", v>>
         /\ <<"CASH", u>> # <<"system", v>> /\ <<"POINTS", u>> # <<"system", v>>
         /\ <<"system", "CASH">> # <<"system", "POINTS">>
         /\ <<"system", "CASH">> # <<"system", "PENDING POINTS">>
         /\ <<"system", "POINTS">> # <<"system", "PENDING POINTS">>
  OBVIOUS

\* The share of a pending reward, of an approved one, and of any other.
LEMMA ShareCases ==
  ASSUME NEW row \in RewardRow, NEW a
  PROVE  /\ Share(row, "PENDING", a) =
              IF a = <<"PENDING", row.user>> THEN row.cash
              ELSE IF a = <<"system", "PENDING POINTS">> THEN row.points
              ELSE IF a = <<"system", "CASH">> THEN 0 - row.cash
              ELSE IF a = <<"system", "POINTS">> THEN 0 - row.points ELSE 0
         /\ Share(row, "APPROVED", a) =
              IF a = <<"CASH", row.user>> THEN row.cash
              ELSE IF a = <<"POINTS", row.user>> THEN row.points
              ELSE IF a = <<"system", "CASH">> THEN 0 - row.cash
              ELSE IF a = <<"system", "POINTS">> THEN 0 - row.points ELSE 0
<1>1. row.cash \in Int /\ row.points \in Int
  BY DEF RewardRow
<1>2. -row.cash = 0 - row.cash /\ -row.points = 0 - row.points
  BY <1>1
<1>3. /\ Share(row, "PENDING", a) =
           IF a = <<"PENDING", row.user>> THEN row.cash
           ELSE IF a = <<"system", "PENDING POINTS">> THEN row.points
           ELSE IF a = <<"system", "CASH">> THEN -row.cash
           ELSE IF a = <<"system", "POINTS">> THEN -row.points ELSE 0
      /\ Share(row, "APPROVED", a) =
           IF a = <<"CASH", row.user>> THEN row.cash
           ELSE IF a = <<"POINTS", row.user>> THEN row.points
           ELSE IF a = <<"system", "CASH">> THEN -row.cash
           ELSE IF a = <<"system", "POINTS">> THEN -row.points ELSE 0
  BY AccountsApart DEF Share
<1> QED
  BY <1>2, <1>3

LEMMA NoShare ==
  ASSUME NEW row, NEW s, NEW a, s \notin {"PENDING", "APPROVED"}
  PROVE  Share(row, s, a) = 0
  BY DEF Share

\* A share is an amount.
LEMMA ShareType ==
  ASSUME NEW row \in RewardRow, NEW s, NEW a
  PROVE  Share(row, s, a) \in Int
<1>1. row.cash \in Int /\ row.points \in Int /\ -row.cash \in Int /\ -row.points \in Int
  BY DEF RewardRow
<1>2. Share(row, "PENDING", a) \in Int
  <2>1. \/ Share(row, "PENDING", a) \in {row.cash, -row.cash, 0}
        \/ Share(row, "PENDING", a) \in {row.points, -row.points}
    BY DEF Share
  <2> QED
    BY <1>1, <2>1
<1>3. Share(row, "APPROVED", a) \in Int
  BY <1>1 DEF Share
<1>4. CASE s \notin {"PENDING", "APPROVED"}
  BY <1>4, NoShare
<1> QED
  BY <1>2, <1>3, <1>4

\* What each leg does to an account.
LEMMA LegChanges ==
  ASSUME NEW row \in RewardRow, NEW a
  PROVE  /\ LegChange(row, "pending", a) =
              IF a = <<"PENDING", row.user>> THEN row.cash
              ELSE IF a = <<"system", "CASH">> THEN 0 - row.cash ELSE 0
         /\ LegChange(row, "pending:points", a) =
              IF a = <<"system", "PENDING POINTS">> THEN row.points
              ELSE IF a = <<"system", "POINTS">> THEN 0 - row.points ELSE 0
         /\ LegChange(row, "approve", a) =
              IF a = <<"CASH", row.user>> THEN row.cash
              ELSE IF a = <<"PENDING", row.user>> THEN 0 - row.cash ELSE 0
         /\ LegChange(row, "approve:points", a) =
              IF a = <<"POINTS", row.user>> THEN row.points
              ELSE IF a = <<"system", "PENDING POINTS">> THEN 0 - row.points ELSE 0
<1>1. /\ Payee(row, "pending") = <<"PENDING", row.user>>
      /\ Payer(row, "pending") = <<"system", "CASH">>
      /\ Payee(row, "pending:points") = <<"system", "PENDING POINTS">>
      /\ Payer(row, "pending:points") = <<"system", "POINTS">>
      /\ Payee(row, "approve") = <<"CASH", row.user>>
      /\ Payer(row, "approve") = <<"PENDING", row.user>>
      /\ Payee(row, "approve:points") = <<"POINTS", row.user>>
      /\ Payer(row, "approve:points") = <<"system", "PENDING POINTS">>
  BY DEF Payee, Payer
<1>2. /\ Amount(row, "pending") = row.cash /\ Amount(row, "approve") = row.cash
      /\ Amount(row, "pending:points") = row.points
      /\ Amount(row, "approve:points") = row.points
  BY DEF Amount
<1>3. ASSUME NEW l \in Legs, Payee(row, l) # Payer(row, l)
      PROVE  LegChange(row, l, a) = IF a = Payee(row, l) THEN Amount(row, l)
                                    ELSE IF a = Payer(row, l) THEN 0 - Amount(row, l) ELSE 0
  <2>1. Amount(row, l) \in Int
    BY DEF Amount, RewardRow
  <2>2. -Amount(row, l) = 0 - Amount(row, l)
    BY <2>1
  <2> QED
    BY <1>3, <2>2 DEF LegChange
<1>4. \A l \in Legs : Payee(row, l) # Payer(row, l)
  BY <1>1, AccountsApart DEF Legs
<1> QED
  BY <1>1, <1>2, <1>3, <1>4 DEF Legs

\* A leg of amount zero moves nothing, posted or not.
LEMMA EmptyLeg ==
  ASSUME NEW row \in RewardRow, NEW l \in Legs, NEW a
  PROVE  Amount(row, l) = 0 => LegChange(row, l, a) = 0
<1>1. Amount(row, l) \in Int
  BY DEF Amount, RewardRow
<1>2. -Amount(row, l) = 0 - Amount(row, l)
  BY <1>1
<1>3. Amount(row, l) = 0 => -Amount(row, l) = 0
  BY <1>2
<1> QED
  BY <1>3 DEF LegChange

\* The change the legs of an award make, leg by leg.
LEMMA NetOfLegs ==
  ASSUME NEW row \in RewardRow, NEW a
  PROVE  /\ NetChange(row, PendingLegs(row), a) =
              LegChange(row, "pending", a) + LegChange(row, "pending:points", a)
         /\ NetChange(row, ApproveLegs(row), a) =
              LegChange(row, "approve", a) + LegChange(row, "approve:points", a)
         /\ NetChange(row, PendingLegs(row) \cup ApproveLegs(row), a) =
              LegChange(row, "pending", a) + LegChange(row, "pending:points", a)
                + LegChange(row, "approve", a) + LegChange(row, "approve:points", a)
<1>1. \A l \in Legs : LegChange(row, l, a) \in Int
  BY DEF LegChange, Amount, RewardRow
<1>2. \A l \in Legs : Amount(row, l) \in Nat
  BY DEF Amount, RewardRow
<1>3. \A l \in {"pending", "pending:points"} :
        /\ l \in Legs /\ l \notin ApproveLegs(row)
        /\ l \notin PendingLegs(row) => LegChange(row, l, a) = 0
  BY <1>2, EmptyLeg DEF PendingLegs, ApproveLegs, Legs
<1>4. \A l \in {"approve", "approve:points"} :
        /\ l \in Legs /\ l \notin PendingLegs(row)
        /\ l \notin ApproveLegs(row) => LegChange(row, l, a) = 0
  BY <1>2, EmptyLeg DEF PendingLegs, ApproveLegs, Legs
<1> QED
  BY <1>1, <1>3, <1>4 DEF NetChange

\* The legs move the reward into the pending buckets, from there to the wallet,
\* or both at once.
LEMMA NetIsShare ==
  ASSUME NEW row \in RewardRow, NEW a
  PROVE  /\ NetChange(row, PendingLegs(row), a) = Share(row, "PENDING", a)
         /\ NetChange(row, ApproveLegs(row), a) =
              Share(row, "APPROVED", a) - Share(row, "PENDING", a)
         /\ NetChange(row, PendingLegs(row) \cup ApproveLegs(row), a) =
              Share(row, "APPROVED", a)
<1>1. row.cash \in Int /\ row.points \in Int
  BY DEF RewardRow
<1>2. /\ Share(row, "PENDING", a) = LegChange(row, "pending", a)
                                        + LegChange(row, "pending:points", a)
      /\ Share(row, "APPROVED", a) =
           LegChange(row, "pending", a) + LegChange(row, "pending:points", a)
             + LegChange(row, "approve", a) + LegChange(row, "approve:points", a)
  <2> DEFINE pend == <<"PENDING", row.user>>
             cash == <<"CASH", row.user>>
             points == <<"POINTS", row.user>>
             sysCash == <<"system", "CASH">>
             sysPoints == <<"system", "POINTS">>
             sysPend == <<"system", "PENDING POINTS">>
  <2>1. /\ pend # cash /\ pend # points /\ pend # sysCash /\ pend # sysPoints
        /\ pend # sysPend /\ cash # points /\ cash # sysCash /\ cash # sysPoints
        /\ cash # sysPend /\ points # sysCash /\ points # sysPoints /\ points # sysPend
        /\ sysCash # sysPoints /\ sysCash # sysPend /\ sysPoints # sysPend
    BY AccountsApart
  <2>2. /\ LegChange(row, "pending", a) =
             IF a = pend THEN row.cash ELSE IF a = sysCash THEN 0 - row.cash ELSE 0
        /\ LegChange(row, "pending:points", a) =
             IF a = sysPend THEN row.points ELSE IF a = sysPoints THEN 0 - row.points ELSE 0
        /\ LegChange(row, "approve", a) =
             IF a = cash THEN row.cash ELSE IF a = pend THEN 0 - row.cash ELSE 0
        /\ LegChange(row, "approve:points", a) =
             IF a = points THEN row.points ELSE IF a = sysPend THEN 0 - row.points ELSE 0
    BY LegChanges
  <2>3. /\ Share(row, "PENDING", a) =
             IF a = pend THEN row.cash ELSE IF a = sysPend THEN row.points
             ELSE IF a = sysCash THEN 0 - row.cash ELSE IF a = sysPoints THEN 0 - row.points ELSE 0
        /\ Share(row, "APPROVED", a) =
             IF a = cash THEN row.cash ELSE IF a = points THEN row.points
             ELSE IF a = sysCash THEN 0 - row.cash ELSE IF a = sysPoints THEN 0 - row.points ELSE 0
    BY ShareCases
  <2> HIDE DEF pend, cash, points, sysCash, sysPoints, sysPend
  <2> QED
    BY <1>1, <2>1, <2>2, <2>3
<1>3. \A l \in Legs : LegChange(row, l, a) \in Int
  BY DEF LegChange, Amount, RewardRow
<1> QED
  BY <1>2, <1>3, NetOfLegs DEF Legs

\* One reward changes: the accounts move by the difference of its shares.
LEMMA OneShareChanges ==
  ASSUME TypeOK, TypeOK', BucketsMatchStatus, NEW r \in RewardIds,
         \A q \in RewardIds \ {r} : reward'[q] = reward[q],
         \A a \in Accounts : balance'[a] = balance[a] + Shares(a)'[r] - Shares(a)[r]
  PROVE  BucketsMatchStatus'
<1> SUFFICES ASSUME NEW a \in Accounts
             PROVE  balance'[a] = SumFunctionOnSet(Shares(a)', RewardIds)
  BY DEF BucketsMatchStatus
<1>1. IsFiniteSet(RewardIds)
  BY BoundsType, FS_Interval DEF RewardIds
<1>2. \A q \in RewardIds : Shares(a)[q] \in Int /\ Shares(a)'[q] \in Int
  BY ShareType DEF TypeOK, Shares, Exists
<1>3. \A q \in RewardIds \ {r} : Shares(a)'[q] = Shares(a)[q]
  BY DEF Shares, Exists
<1>4. balance[a] = SumFunctionOnSet(Shares(a), RewardIds) /\ balance[a] \in Int
  BY DEF BucketsMatchStatus, TypeOK
<1> DEFINE f == Shares(a)
           g == Shares(a)'
<1> HIDE DEF f, g
<1>5. SumFunctionOnSet(g, RewardIds) = SumFunctionOnSet(f, RewardIds) + g[r] - f[r]
  BY <1>1, <1>2, <1>3, SumChange DEF f, g
<1>6. /\ SumFunctionOnSet(Shares(a)', RewardIds) = SumFunctionOnSet(g, RewardIds)
      /\ SumFunctionOnSet(Shares(a), RewardIds) = SumFunctionOnSet(f, RewardIds)
      /\ balance'[a] = balance[a] + g[r] - f[r]
  BY DEF f, g
<1> QED
  BY <1>4, <1>5, <1>6

\* An award fills the buckets of its status.
LEMMA AwardKeepsBuckets ==
  ASSUME TypeOK, TypeOK', LegsMatchStatus, BucketsMatchStatus,
         NEW w \in Workers, AwardInserts(w)
  PROVE  BucketsMatchStatus'
<1> DEFINE a == attempt[w]
           row == [user |-> a.user, ref |-> a.ref, cash |-> a.cash,
                   points |-> a.points, manual |-> a.manual, held |-> FALSE,
                   old |-> FALSE, approvedBy |-> NoAdmin,
                   status |-> IF a.manual THEN "PENDING" ELSE "APPROVED"]
           L == PendingLegs(row) \cup (IF a.manual THEN {} ELSE ApproveLegs(row))
<1>1. a \in Awards
  BY DEF TypeOK, AwardInserts
<1>2. row \in RewardRow /\ row # None
  BY <1>1, AwardIsRow, NullsAreNoValues DEF Statuses
<1>3. PICK r \in RewardIds :
        ~Exists(r) /\ reward' = [reward EXCEPT ![r] = row] /\ PostLegs(r, row, L)
  BY DEF AwardInserts
<1>4. L = {l \in L : legs[r][l] = "none"}
  BY <1>3 DEF LegsMatchStatus, PendingLegs, ApproveLegs, Legs
<1>5. row.status = IF a.manual THEN "PENDING" ELSE "APPROVED"
  OBVIOUS
<1>6. L = IF row.status = "PENDING" THEN PendingLegs(row)
                                    ELSE PendingLegs(row) \cup ApproveLegs(row)
  BY <1>5
<1> HIDE DEF row, L
<1>7. \A b \in Accounts : balance'[b] = balance[b] + NetChange(row, L, b)
  BY <1>3, <1>4 DEF PostLegs
<1>8. \A b \in Accounts : NetChange(row, L, b) = Share(row, row.status, b)
  BY <1>2, <1>5, <1>6, NetIsShare
<1>9. reward'[r] = row /\ \A q \in RewardIds \ {r} : reward'[q] = reward[q]
  BY <1>3 DEF TypeOK
<1>10. \A b \in Accounts : Shares(b)[r] = 0 /\ Shares(b)'[r] = Share(row, row.status, b)
  BY <1>2, <1>3, <1>9 DEF Shares, Exists
<1>11. \A b \in Accounts : balance[b] \in Int /\ Share(row, row.status, b) \in Int
  BY <1>2, ShareType DEF TypeOK
<1>12. \A b \in Accounts : balance'[b] = balance[b] + Shares(b)'[r] - Shares(b)[r]
  BY <1>7, <1>8, <1>10, <1>11
<1> QED
  BY <1>9, <1>12, OneShareChanges

\* A change of status keeps the buckets if the accounts move by the difference
\* between the old and the new share.
LEMMA StatusKeepsBuckets ==
  ASSUME TypeOK, TypeOK', BucketsMatchStatus, NEW r \in RewardIds, Exists(r), Exists(r)',
         SameAward(reward'[r], reward[r]),
         \A q \in RewardIds \ {r} : reward'[q] = reward[q],
         \A a \in Accounts :
           balance'[a] = balance[a] + Share(reward[r], reward'[r].status, a)
                                    - Share(reward[r], reward[r].status, a)
  PROVE  BucketsMatchStatus'
<1>1. \A a \in Accounts :
        /\ Shares(a)[r] = Share(reward[r], reward[r].status, a)
        /\ Shares(a)'[r] = Share(reward[r], reward'[r].status, a)
  BY ShareOfAward DEF Shares
<1> QED
  BY <1>1, OneShareChanges

\* Approving moves the reward from the pending buckets to the wallet.
LEMMA ApproveKeepsBuckets ==
  ASSUME TypeOK, TypeOK', LegsMatchStatus, BucketsMatchStatus, NEW r \in RewardIds,
         NEW by \in Admins \cup {NoAdmin}, Approve(r, by)
  PROVE  BucketsMatchStatus'
<1> DEFINE row == reward[r]
<1>1. row \in RewardRow /\ row.status = "PENDING" /\ row # None
  BY DEF TypeOK, Approve, Exists
<1>2. legs[r] = [l \in Legs |-> IF l \in PendingLegs(row) THEN "posted" ELSE "none"]
  BY <1>1 DEF LegsMatchStatus, LegsExpected, Exists
<1>3. ApproveLegs(row) = {l \in ApproveLegs(row) : legs[r][l] = "none"}
  BY <1>2 DEF PendingLegs, ApproveLegs, Legs
<1>4. \A a \in Accounts : balance'[a] = balance[a] + NetChange(row, ApproveLegs(row), a)
  BY <1>3 DEF Approve, PostLegs
<1>5. \A a \in Accounts :
        balance'[a] = balance[a] + Share(row, "APPROVED", a) - Share(row, "PENDING", a)
  BY <1>1, <1>4, NetIsShare, ShareType DEF TypeOK
<1>6. /\ SameAward(reward'[r], row) /\ reward'[r].status = "APPROVED"
      /\ \A q \in RewardIds \ {r} : reward'[q] = reward[q]
  BY <1>1 DEF TypeOK, Approve, RewardRow, SameAward
<1>7. Exists(r) /\ Exists(r)'
  <2>1. [row EXCEPT !.status = "APPROVED"] \in RewardRow
    BY <1>1, FieldsType DEF Statuses
  <2>2. reward'[r] = [[row EXCEPT !.status = "APPROVED"] EXCEPT !.approvedBy = by]
    BY <1>1 DEF TypeOK, Approve
  <2>3. reward'[r] \in RewardRow
    BY <2>1, <2>2, FieldsType
  <2> QED
    BY <1>1, <2>3, NullsAreNoValues DEF Exists
<1> QED
  BY <1>1, <1>5, <1>6, <1>7, StatusKeepsBuckets

\* Rejecting empties the pending buckets, reversing those of either status.
LEMMA UndoKeepsBuckets ==
  ASSUME TypeOK, TypeOK', LegsMatchStatus, BucketsMatchStatus, NEW r \in RewardIds,
         Reject(r) \/ Reverse(r)
  PROVE  BucketsMatchStatus'
<1> DEFINE row == reward[r]
           PL == PendingLegs(row)
           AL == ApproveLegs(row)
<1>1. row \in RewardRow /\ row # None /\ row.status \in {"PENDING", "APPROVED"}
  BY DEF TypeOK, Reject, Reverse, Exists
<1>2. PL \subseteq {"pending", "pending:points"} /\ PL \cup AL \subseteq Legs
  BY DEF PendingLegs, ApproveLegs, Legs
<1>3. PICK new \in {"REJECTED", "REVERSED"} : reward' = [reward EXCEPT ![r].status = new]
  BY DEF Reject, Reverse
<1>4. /\ reward'[r] = [row EXCEPT !.status = new]
      /\ \A q \in RewardIds \ {r} : reward'[q] = reward[q]
  BY <1>3 DEF TypeOK
<1>5. SameAward(reward'[r], row) /\ reward'[r].status = new /\ reward'[r] \in RewardRow
  BY <1>1, <1>4, FieldsType DEF SameAward, RewardRow, Statuses
<1>6. Exists(r) /\ Exists(r)'
  BY <1>1, <1>5, NullsAreNoValues DEF Exists
<1>7. \A a \in Accounts : balance'[a] = balance[a] - Share(row, row.status, a)
  <2>1. CASE row.status = "PENDING"
    <3>1. legs[r] = [l \in Legs |-> IF l \in PL THEN "posted" ELSE "none"]
      BY <1>1, <2>1 DEF LegsMatchStatus, LegsExpected, Exists
    <3>2. ReverseLegs(r, {"pending", "pending:points"})
      BY <2>1 DEF Reject, Reverse
    <3>3. PL = {l \in {"pending", "pending:points"} : legs[r][l] = "posted"}
      BY <1>2, <3>1 DEF Legs
    <3>4. \A a \in Accounts : balance'[a] = balance[a] - NetChange(row, PL, a)
      BY <3>2, <3>3 DEF ReverseLegs
    <3> QED
      BY <1>1, <2>1, <3>4, NetIsShare
  <2>2. CASE row.status = "APPROVED"
    <3>1. legs[r] = [l \in Legs |-> IF l \in PL \cup AL THEN "posted" ELSE "none"]
      BY <1>1, <2>2 DEF LegsMatchStatus, LegsExpected, Exists
    <3>2. ReverseLegs(r, Legs)
      BY <2>2 DEF Reject, Reverse
    <3>3. PL \cup AL = {l \in Legs : legs[r][l] = "posted"}
      BY <1>2, <3>1
    <3>4. \A a \in Accounts : balance'[a] = balance[a] - NetChange(row, PL \cup AL, a)
      BY <3>2, <3>3 DEF ReverseLegs
    <3> QED
      BY <1>1, <2>2, <3>4, NetIsShare
  <2> QED
    BY <1>1, <2>1, <2>2
<1>8. \A a \in Accounts :
        balance'[a] = balance[a] + Share(row, new, a) - Share(row, row.status, a)
  <2>1. \A a \in Accounts : Share(row, new, a) = 0
    BY NoShare
  <2> QED
    BY <1>1, <1>7, <2>1, ShareType DEF TypeOK
<1>9. \A a \in Accounts :
        balance'[a] = balance[a] + Share(row, reward'[r].status, a) - Share(row, row.status, a)
  BY <1>5, <1>8
<1> QED
  BY <1>4, <1>5, <1>6, <1>9, StatusKeepsBuckets

\* A flag moves no money.
LEMMA FlagKeepsBuckets ==
  ASSUME TypeOK, TypeOK', BucketsMatchStatus, NEW r \in RewardIds,
         Hold(r) \/ RuleRelaxed(r) \/ Ages(r)
  PROVE  BucketsMatchStatus'
<1>1. PICK row \in RewardRow :
        /\ reward' = [reward EXCEPT ![r] = row]
        /\ SameAward(row, reward[r]) /\ row.status = reward[r].status
  BY FlagStep
<1>2. reward[r] \in RewardRow /\ Exists(r) /\ balance' = balance
  BY DEF TypeOK, Hold, RuleRelaxed, Ages, Exists
<1>3. reward'[r] = row /\ \A q \in RewardIds \ {r} : reward'[q] = reward[q]
  BY <1>1 DEF TypeOK
<1>4. Exists(r)'
  BY <1>3, NullsAreNoValues DEF Exists
<1>5. \A a \in Accounts :
        balance'[a] = balance[a] + Share(reward[r], reward[r].status, a)
                        - Share(reward[r], reward[r].status, a)
  BY <1>2, ShareType DEF TypeOK
<1> QED
  BY <1>1, <1>2, <1>3, <1>4, <1>5, StatusKeepsBuckets

\* Every step moves the accounts as it moves the rewards.
LEMMA NextKeepsBuckets ==
  TypeOK /\ LegsMatchStatus /\ BucketsMatchStatus /\ [Next]_vars => BucketsMatchStatus'
<1> SUFFICES ASSUME TypeOK, LegsMatchStatus, BucketsMatchStatus, [Next]_vars
             PROVE  BucketsMatchStatus'
  OBVIOUS
<1>0. TypeOK'
  BY NextType
<1>1. UNCHANGED <<reward, balance>> => BucketsMatchStatus'
  BY DEF BucketsMatchStatus, Shares, Exists
<1>2. CASE UNCHANGED vars
  BY <1>1, <1>2 DEF vars
<1>3. ASSUME NEW w \in Workers,
             (\E a \in Awards : AwardLookup(w, a)) \/ AwardClashes(w)
      PROVE  BucketsMatchStatus'
  BY <1>1, <1>3 DEF AwardLookup, AwardClashes
<1>4. ASSUME NEW w \in Workers, AwardInserts(w) PROVE BucketsMatchStatus'
  BY <1>0, <1>4, AwardKeepsBuckets
<1>5. ASSUME NEW r \in RewardIds, NEW by \in Admins, AdminApprove(r, by)
      PROVE  BucketsMatchStatus'
  BY <1>0, <1>5, ApproveKeepsBuckets DEF AdminApprove
<1>6. ASSUME NEW r \in RewardIds, Reject(r) \/ Reverse(r) PROVE BucketsMatchStatus'
  BY <1>0, <1>6, UndoKeepsBuckets
<1>7. ASSUME NEW r \in RewardIds, Hold(r) \/ RuleRelaxed(r) \/ Ages(r)
      PROVE  BucketsMatchStatus'
  BY <1>0, <1>7, FlagKeepsBuckets
<1>8. ASSUME NEW t \in Tasks, TaskApproves(t) PROVE BucketsMatchStatus'
  <2>1. PICK r \in todo[t] : Approve(r, NoAdmin) \/ UNCHANGED <<reward, balance>>
    BY <1>8 DEF TaskApproves
  <2>2. r \in RewardIds
    BY <2>1 DEF TypeOK
  <2> QED
    BY <1>0, <1>1, <2>1, <2>2, ApproveKeepsBuckets
<1>9. ASSUME NEW t \in Tasks, TaskReads(t) \/ TaskDies(t) PROVE BucketsMatchStatus'
  BY <1>1, <1>9 DEF TaskReads, TaskDies
<1> QED
  BY <1>2, <1>3, <1>4, <1>5, <1>6, <1>7, <1>8, <1>9 DEF Next

\* Pending, cash and points buckets, and what the platform paid for them, are
\* always exactly the sums over the rewards with the status they stand for.
THEOREM BucketsFollowStatus == Spec => []BucketsMatchStatus
<1>1. Init => BucketsMatchStatus
  <2>1. ASSUME Init, NEW a \in Accounts PROVE SumFunctionOnSet(Shares(a), RewardIds) = 0
    <3>1. \A r \in RewardIds : Shares(a)[r] = 0
      BY <2>1 DEF Init, Shares, Exists
    <3>2. IsFiniteSet(RewardIds)
      BY BoundsType, FS_Interval DEF RewardIds
    <3> QED
      BY <3>1, <3>2, SumZero
  <2> QED
    BY <2>1 DEF Init, BucketsMatchStatus
<1>2. Init => TypeOK /\ LegsMatchStatus
  BY BoundsType DEF Init, TypeOK, LegsMatchStatus, Exists
<1>3. TypeOK /\ LegsMatchStatus /\ [Next]_vars => TypeOK' /\ LegsMatchStatus'
  BY NextType, NextKeepsLegs
<1> QED
  BY <1>1, <1>2, <1>3, NextKeepsBuckets, PTL DEF Spec

-----------------------------------------------------------------------------
(* One reward per reference                                                *)

\* Steps that create no reward change neither user nor reference of any.
LEMMA SameReferences ==
  ASSUME OneRewardPerReference,
         \A r \in RewardIds : Exists(r)' <=> Exists(r),
         \A r \in RewardIds : Exists(r) =>
           reward'[r].ref = reward[r].ref /\ reward'[r].user = reward[r].user
  PROVE  OneRewardPerReference'
  BY DEF OneRewardPerReference

\* A change of one field of an existing reward keeps which rewards exist, and
\* their users and references.
LEMMA FieldsKeepReferences ==
  ASSUME TypeOK, NEW r \in RewardIds, Exists(r), NEW row \in RewardRow,
         reward' = [reward EXCEPT ![r] = row],
         row.ref = reward[r].ref, row.user = reward[r].user
  PROVE  /\ \A q \in RewardIds : Exists(q)' <=> Exists(q)
         /\ \A q \in RewardIds : Exists(q) =>
              reward'[q].ref = reward[q].ref /\ reward'[q].user = reward[q].user
  BY NullsAreNoValues DEF TypeOK, Exists

\* The unique constraint on (source, source_reference, user) guards an insert.
LEMMA AwardKeepsReferences ==
  ASSUME TypeOK, OneRewardPerReference, NEW w \in Workers, AwardInserts(w)
  PROVE  OneRewardPerReference'
<1> DEFINE a == attempt[w]
<1>1. PICK r \in RewardIds, row \in RewardRow :
        /\ reward' = [reward EXCEPT ![r] = row]
        /\ row.ref = a.ref /\ row.user = a.user
  <2>1. a \in Awards
    BY DEF TypeOK, AwardInserts
  <2> QED
    BY <2>1, AwardIsRow DEF AwardInserts, Statuses
<1>2. a.ref # NoRef =>
        \A q \in RewardIds : Exists(q) => ~(reward[q].ref = a.ref /\ reward[q].user = a.user)
  BY DEF AwardInserts, Duplicate
<1>3. /\ reward'[r].ref = a.ref /\ reward'[r].user = a.user
      /\ \A q \in RewardIds \ {r} : reward'[q] = reward[q]
  BY <1>1 DEF TypeOK
<1> QED
  BY <1>2, <1>3 DEF OneRewardPerReference, Exists

\* Every step keeps one reward per reference.
LEMMA NextKeepsReferences ==
  TypeOK /\ OneRewardPerReference /\ [Next]_vars => OneRewardPerReference'
<1> SUFFICES ASSUME TypeOK, OneRewardPerReference, [Next]_vars
             PROVE  OneRewardPerReference'
  OBVIOUS
<1>0. reward' = reward => OneRewardPerReference'
  BY DEF OneRewardPerReference, Exists
<1>1. CASE UNCHANGED vars
  BY <1>0, <1>1 DEF vars
<1>2. ASSUME NEW w \in Workers,
             (\E a \in Awards : AwardLookup(w, a)) \/ AwardClashes(w)
      PROVE  OneRewardPerReference'
  BY <1>0, <1>2 DEF AwardLookup, AwardClashes
<1>3. ASSUME NEW w \in Workers, AwardInserts(w) PROVE OneRewardPerReference'
  BY <1>3, AwardKeepsReferences
<1>4. ASSUME NEW r \in RewardIds, NEW by \in Admins \cup {NoAdmin}, Approve(r, by)
      PROVE  OneRewardPerReference'
  <2> DEFINE row == [[reward[r] EXCEPT !.status = "APPROVED"] EXCEPT !.approvedBy = by]
  <2>1. reward[r] \in RewardRow /\ Exists(r)
    BY <1>4 DEF TypeOK, Approve, Exists
  <2>2. [reward[r] EXCEPT !.status = "APPROVED"] \in RewardRow
    BY <2>1, FieldsType DEF Statuses
  <2>3. row \in RewardRow
    BY <2>2, FieldsType
  <2>4. row.ref = reward[r].ref /\ row.user = reward[r].user
    BY <2>1 DEF RewardRow
  <2>5. reward' = [reward EXCEPT ![r] = row]
    BY <1>4, <2>1 DEF TypeOK, Approve
  <2> HIDE DEF row
  <2> QED
    BY <2>1, <2>3, <2>4, <2>5, FieldsKeepReferences, SameReferences
<1>5. ASSUME NEW r \in RewardIds,
             Hold(r) \/ Reject(r) \/ Reverse(r) \/ RuleRelaxed(r) \/ Ages(r)
      PROVE  OneRewardPerReference'
  <2>1. reward[r] \in RewardRow /\ Exists(r)
    BY <1>5 DEF TypeOK, Hold, Reject, Reverse, RuleRelaxed, Ages, Exists
  <2>2. PICK row \in RewardRow :
          reward' = [reward EXCEPT ![r] = row] /\ SameAward(row, reward[r])
    BY <1>5, FlagStep, StatusStep
  <2> QED
    BY <2>1, <2>2, FieldsKeepReferences, SameReferences DEF SameAward
<1>6. ASSUME NEW t \in Tasks, TaskApproves(t) PROVE OneRewardPerReference'
  <2>1. PICK r \in todo[t] : Approve(r, NoAdmin) \/ reward' = reward
    BY <1>6 DEF TaskApproves
  <2>2. r \in RewardIds
    BY <2>1 DEF TypeOK
  <2> QED
    BY <1>0, <1>4, <2>1, <2>2
<1>7. ASSUME NEW t \in Tasks, TaskReads(t) \/ TaskDies(t) PROVE OneRewardPerReference'
  BY <1>0, <1>7 DEF TaskReads, TaskDies
<1> QED
  BY <1>1, <1>2, <1>3, <1>4, <1>5, <1>6, <1>7 DEF Next, AdminApprove

\* No two rewards of a user have the same source reference, whatever the
\* number of concurrent deliveries: an award that lost the race is refused.
THEOREM ReferencesArePaidOnce == Spec => []OneRewardPerReference
<1>1. Init => OneRewardPerReference
  BY DEF Init, OneRewardPerReference, Exists
<1> QED
  BY <1>1, TypeCorrect, NextKeepsReferences, PTL DEF Spec

-----------------------------------------------------------------------------
(* Settled rewards stay settled                                            *)

\* What a step may do to reward r once it is settled.
StaysSettled(r) ==
  Exists(r) =>
    CASE reward[r].status \in {"REJECTED", "REVERSED"} ->
           reward'[r].status = reward[r].status /\ legs'[r] = legs[r]
      [] reward[r].status = "APPROVED" ->
           reward'[r].status \in {"APPROVED", "REVERSED"}
      [] OTHER -> TRUE

\* A step that touches only reward q, which is still pending, settles no other.
LEMMA OthersStaySettled ==
  ASSUME TypeOK, NEW q \in RewardIds, NEW r \in RewardIds,
         \A p \in RewardIds \ {q} : reward'[p] = reward[p] /\ legs'[p] = legs[p],
         Exists(q) => reward[q].status = "PENDING"
  PROVE  StaysSettled(r)
  BY DEF StaysSettled

\* No step leaves a final status or moves money for it; only a reversal
\* changes an approved reward.
LEMMA NextStaysSettled ==
  ASSUME TypeOK, [Next]_vars, NEW r \in RewardIds
  PROVE  StaysSettled(r)
<1>0. reward' = reward /\ legs' = legs => StaysSettled(r)
  BY DEF StaysSettled
<1>1. CASE UNCHANGED vars
  BY <1>0, <1>1 DEF vars
<1>2. ASSUME NEW w \in Workers,
             (\E a \in Awards : AwardLookup(w, a)) \/ AwardClashes(w)
      PROVE  StaysSettled(r)
  BY <1>0, <1>2 DEF AwardLookup, AwardClashes
<1>3. ASSUME NEW w \in Workers, AwardInserts(w) PROVE StaysSettled(r)
  <2>1. PICK q \in RewardIds :
          /\ ~Exists(q)
          /\ \A p \in RewardIds \ {q} : reward'[p] = reward[p] /\ legs'[p] = legs[p]
    BY <1>3 DEF TypeOK, AwardInserts, PostLegs
  <2> QED
    BY <2>1, OthersStaySettled
<1>4. ASSUME NEW q \in RewardIds, NEW by, Approve(q, by) PROVE StaysSettled(r)
  BY <1>4, OthersStaySettled DEF TypeOK, Approve, PostLegs
<1>5. ASSUME NEW q \in RewardIds, Hold(q) \/ Reject(q) PROVE StaysSettled(r)
  BY <1>5, OthersStaySettled DEF TypeOK, Hold, Reject, ReverseLegs
<1>6. ASSUME NEW q \in RewardIds, Reverse(q) PROVE StaysSettled(r)
  <2>1. reward[q] \in RewardRow
    BY <1>6 DEF TypeOK, Reverse, Exists
  <2>2. reward'[q].status = "REVERSED" /\ reward[q].status \in {"PENDING", "APPROVED"}
    BY <1>6, <2>1 DEF TypeOK, Reverse, RewardRow
  <2>3. \A p \in RewardIds \ {q} : reward'[p] = reward[p] /\ legs'[p] = legs[p]
    BY <1>6 DEF TypeOK, Reverse, ReverseLegs
  <2> QED
    BY <2>2, <2>3 DEF StaysSettled
<1>7. ASSUME NEW q \in RewardIds, RuleRelaxed(q) \/ Ages(q) PROVE StaysSettled(r)
  <2>1. reward[q] \in RewardRow
    BY <1>7 DEF TypeOK, RuleRelaxed, Ages, Exists
  <2>2. legs' = legs /\ \A p \in RewardIds \ {q} : reward'[p] = reward[p]
    BY <1>7 DEF TypeOK, RuleRelaxed, Ages
  <2>3. reward'[q].status = reward[q].status
    BY <1>7, <2>1 DEF TypeOK, RuleRelaxed, Ages, RewardRow
  <2> QED
    BY <2>2, <2>3 DEF StaysSettled
<1>8. ASSUME NEW t \in Tasks, TaskApproves(t) PROVE StaysSettled(r)
  <2>1. PICK q \in todo[t] : Approve(q, NoAdmin) \/ (reward' = reward /\ legs' = legs)
    BY <1>8 DEF TaskApproves
  <2>2. q \in RewardIds
    BY <2>1 DEF TypeOK
  <2> QED
    BY <1>0, <1>4, <2>1, <2>2
<1>9. ASSUME NEW t \in Tasks, TaskReads(t) \/ TaskDies(t) PROVE StaysSettled(r)
  BY <1>0, <1>9 DEF TaskReads, TaskDies
<1> QED
  BY <1>1, <1>2, <1>3, <1>4, <1>5, <1>6, <1>7, <1>8, <1>9 DEF Next, AdminApprove

\* A rejected or reversed reward is final, with its ledger transactions, and
\* an approved one can only be reversed: no late task run or admin revives it.
THEOREM SettledIsFinal == Spec => SettledStaysSettled
<1>1. TypeOK /\ [Next]_vars =>
        [\A r \in RewardIds :
           Exists(r) =>
             CASE reward[r].status \in {"REJECTED", "REVERSED"} ->
                    reward'[r].status = reward[r].status /\ legs'[r] = legs[r]
               [] reward[r].status = "APPROVED" ->
                    reward'[r].status \in {"APPROVED", "REVERSED"}
               [] OTHER -> TRUE]_vars
  BY NextStaysSettled DEF StaysSettled
<1> QED
  BY <1>1, TypeCorrect, PTL DEF Spec, SettledStaysSettled
=============================================================================
