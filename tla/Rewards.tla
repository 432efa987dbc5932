------------------------------- MODULE Rewards -------------------------------
(***************************************************************************)
(* apps/rewards: RewardService (award, award_fixed, approve, hold, reject, *)
(* reverse) and the task process_pending_rewards that runs beside it.      *)
(*                                                                         *)
(* Each service call is one database transaction that holds the row lock   *)
(* of its reward, so it is one action, except where the code reads before  *)
(* it locks: an award looks for a duplicate, and the task reads its work   *)
(* list, in a step of their own.  What the calls post to the ledger is kept*)
(* per idempotency key (a "leg" of the reward) together with the balances  *)
(* of the accounts; LedgerPosting shows that a post is atomic, is done     *)
(* once per key, and moves the balances by its entries.                    *)
(***************************************************************************)
EXTENDS Integers, FiniteSets, FiniteSetsExt

CONSTANTS
  Users,
  Refs,         \* (source, source_reference) pairs of the callers
  NoRef,        \* a blank source_reference
  Awards,       \* what callers may award: [user, ref, cash, points, manual]
  MaxRewards,   \* bound on the Reward rows created
  Workers,      \* requests and tasks that award concurrently
  Tasks,        \* process_pending_rewards runs that may overlap
  MaxDeaths,    \* bound on task runs killed before their end
  Admins,
  NoAdmin,      \* approved_by = NULL
  None          \* no row, or nothing in progress

RewardIds == 1..MaxRewards

Award == [user : Users, ref : Refs \cup {NoRef}, cash : Nat, points : Nat,
          manual : BOOLEAN]

ASSUME AwardsType     == Awards \subseteq Award
ASSUME BoundsType     == MaxRewards \in Nat /\ MaxDeaths \in Nat

VARIABLES
  reward,    \* Reward rows, None where no row was created yet
  legs,      \* per reward: the ledger transactions posted under its keys
  balance,   \* balances of the accounts involved
  attempt,   \* per worker: the award it has looked up and not yet inserted
  todo,      \* per task run: the rewards of its list it has not reached yet
  deaths     \* number of task runs killed so far

vars == <<reward, legs, balance, attempt, todo, deaths>>

Statuses == {"PENDING", "APPROVED", "REJECTED", "REVERSED"}

\* manual: the reward's rule requires manual approval; held: metadata["held"];
\* old: created more than AUTO_APPROVE_AFTER_MINUTES ago.
RewardRow == [user : Users, ref : Refs \cup {NoRef}, cash : Nat, points : Nat,
              manual : BOOLEAN, held : BOOLEAN, old : BOOLEAN,
              status : Statuses, approvedBy : Admins \cup {NoAdmin}]

ASSUME NullsAreNoValues ==
  None \notin Award \cup RewardRow /\ NoRef \notin Refs /\ NoAdmin \notin Admins

\* The keys f"reward:{id}:<leg>".
Legs == {"pending", "pending:points", "approve", "approve:points"}

Accounts ==
  ({"PENDING", "CASH", "POINTS"} \X Users)
    \cup {<<"system", "CASH">>, <<"system", "POINTS">>, <<"system", "PENDING POINTS">>}

Exists(r) == reward[r] # None

TypeOK ==
  /\ reward \in [RewardIds -> RewardRow \cup {None}]
  /\ legs \in [RewardIds -> [Legs -> {"none", "posted", "reversed"}]]
  /\ balance \in [Accounts -> Int]
  /\ attempt \in [Workers -> Awards \cup {None}]
  /\ todo \in [Tasks -> SUBSET RewardIds]
  /\ deaths \in 0..MaxDeaths

Init ==
  /\ reward = [r \in RewardIds |-> None]
  /\ legs = [r \in RewardIds |-> [l \in Legs |-> "none"]]
  /\ balance = [a \in Accounts |-> 0]
  /\ attempt = [w \in Workers |-> None]
  /\ todo = [t \in Tasks |-> {}]
  /\ deaths = 0

-----------------------------------------------------------------------------
(* Ledger movements of a reward                                            *)

\* The entries behind each key: what account pays, which receives.
Payer(row, l) ==
  CASE l = "pending"        -> <<"system", "CASH">>
    [] l = "pending:points" -> <<"system", "POINTS">>
    [] l = "approve"        -> <<"PENDING", row.user>>
    [] l = "approve:points" -> <<"system", "PENDING POINTS">>

Payee(row, l) ==
  CASE l = "pending"        -> <<"PENDING", row.user>>
    [] l = "pending:points" -> <<"system", "PENDING POINTS">>
    [] l = "approve"        -> <<"CASH", row.user>>
    [] l = "approve:points" -> <<"POINTS", row.user>>

Amount(row, l) == IF l \in {"pending", "approve"} THEN row.cash ELSE row.points

LegChange(row, l, a) ==
  CASE a = Payee(row, l) -> Amount(row, l)
    [] a = Payer(row, l) -> -Amount(row, l)
    [] OTHER -> 0

NetChange(row, L, a) ==
  LET change(l) == IF l \in L THEN LegChange(row, l, a) ELSE 0
  IN  change("pending") + change("pending:points")
        + change("approve") + change("approve:points")

\* The legs an award and an approval post: those with a positive amount.
PendingLegs(row) == {l \in {"pending", "pending:points"} : Amount(row, l) > 0}
ApproveLegs(row) == {l \in {"approve", "approve:points"} : Amount(row, l) > 0}

\* Post the legs L of reward r: a key already used posts nothing.
PostLegs(r, row, L) ==
  LET new == {l \in L : legs[r][l] = "none"}
  IN  /\ legs' = [legs EXCEPT ![r] =
                    [l \in Legs |-> IF l \in new THEN "posted" ELSE @[l]]]
      /\ balance' = [a \in Accounts |-> balance[a] + NetChange(row, new, a)]

\* _reverse_by_keys: reverse those of L that were posted and not reversed yet.
ReverseLegs(r, L) ==
  LET undo == {l \in L : legs[r][l] = "posted"}
  IN  /\ legs' = [legs EXCEPT ![r] =
                    [l \in Legs |-> IF l \in undo THEN "reversed" ELSE @[l]]]
      /\ balance' = [a \in Accounts |-> balance[a] - NetChange(reward[r], undo, a)]

-----------------------------------------------------------------------------
(* RewardService                                                           *)

\* Faulty variant: only pending rewards are looked at.
DuplicatePending(a) ==
  /\ a.ref # NoRef
  /\ \E r \in RewardIds : /\ Exists(r) /\ reward[r].status = "PENDING"
                          /\ reward[r].ref = a.ref /\ reward[r].user = a.user

\* A row the unique constraint on (source, source_reference, user) clashes
\* with; blank references are exempt.
Duplicate(a) ==
  /\ a.ref # NoRef
  /\ \E r \in RewardIds :
       Exists(r) /\ reward[r].ref = a.ref /\ reward[r].user = a.user

\* award/award_fixed up to the insert: returns the existing reward if there is
\* one, raises RewardError for a zero reward, and goes on otherwise.
AwardLookup(w, a) ==
  /\ attempt[w] = None
  /\ ~Duplicate(a)
  /\ a.cash > 0 \/ a.points > 0
  /\ attempt' = [attempt EXCEPT ![w] = a]
  /\ UNCHANGED <<reward, legs, balance, todo, deaths>>

\* The insert fails on the unique constraint and the caller rolls back ...
AwardClashes(w) ==
  /\ attempt[w] # None
  /\ Duplicate(attempt[w])
  /\ attempt' = [attempt EXCEPT ![w] = None]
  /\ UNCHANGED <<reward, legs, balance, todo, deaths>>

\* ... or creates the reward, credits the pending buckets and, unless the rule
\* requires manual approval, approves it in the same transaction.
AwardInserts(w) ==
  /\ attempt[w] # None
  /\ ~Duplicate(attempt[w])
  /\ LET a   == attempt[w]
         row == [user |-> a.user, ref |-> a.ref, cash |-> a.cash,
                 points |-> a.points, manual |-> a.manual, held |-> FALSE,
                 old |-> FALSE, approvedBy |-> NoAdmin,
                 status |-> IF a.manual THEN "PENDING" ELSE "APPROVED"]
     IN  \E r \in RewardIds :
           /\ ~Exists(r) /\ \A q \in 1..(r-1) : Exists(q)
           /\ reward' = [reward EXCEPT ![r] = row]
           /\ PostLegs(r, row, PendingLegs(row) \cup
                               (IF a.manual THEN {} ELSE ApproveLegs(row)))
  /\ attempt' = [attempt EXCEPT ![w] = None]
  /\ UNCHANGED <<todo, deaths>>

\* Faulty variant: only an APPROVED reward is left alone.
ApproveUnlessApproved(r, by) ==
  /\ Exists(r) /\ reward[r].status # "APPROVED"
  /\ PostLegs(r, reward[r], ApproveLegs(reward[r]))
  /\ reward' = [reward EXCEPT ![r].status = "APPROVED", ![r].approvedBy = by]

\* approve: an APPROVED reward is returned as it is; only PENDING ones change.
Approve(r, by) ==
  /\ Exists(r) /\ reward[r].status = "PENDING"
  /\ PostLegs(r, reward[r], ApproveLegs(reward[r]))
  /\ reward' = [reward EXCEPT ![r].status = "APPROVED", ![r].approvedBy = by]

AdminApprove(r, by) ==
  /\ Approve(r, by)
  /\ UNCHANGED <<attempt, todo, deaths>>

Hold(r) ==
  /\ Exists(r) /\ reward[r].status = "PENDING"
  /\ reward' = [reward EXCEPT ![r].held = TRUE]
  /\ UNCHANGED <<legs, balance, attempt, todo, deaths>>

\* Faulty variant: the status is not checked.
RejectAny(r) ==
  /\ Exists(r)
  /\ ReverseLegs(r, {"pending", "pending:points"})
  /\ reward' = [reward EXCEPT ![r].status = "REJECTED"]
  /\ UNCHANGED <<attempt, todo, deaths>>

Reject(r) ==
  /\ Exists(r) /\ reward[r].status = "PENDING"
  /\ ReverseLegs(r, {"pending", "pending:points"})
  /\ reward' = [reward EXCEPT ![r].status = "REJECTED"]
  /\ UNCHANGED <<attempt, todo, deaths>>

\* Faulty variant: the pending legs of an approved reward are left standing.
ReverseApprovalOnly(r) ==
  /\ Exists(r) /\ reward[r].status \in {"PENDING", "APPROVED"}
  /\ ReverseLegs(r, IF reward[r].status = "PENDING"
                    THEN {"pending", "pending:points"}
                    ELSE {"approve", "approve:points"})
  /\ reward' = [reward EXCEPT ![r].status = "REVERSED"]
  /\ UNCHANGED <<attempt, todo, deaths>>

Reverse(r) ==
  /\ Exists(r) /\ reward[r].status \in {"PENDING", "APPROVED"}
  /\ ReverseLegs(r, IF reward[r].status = "PENDING"
                    THEN {"pending", "pending:points"} ELSE Legs)
  /\ reward' = [reward EXCEPT ![r].status = "REVERSED"]
  /\ UNCHANGED <<attempt, todo, deaths>>

\* The rule is deleted (rule_id becomes NULL) or stops requiring approval.
RuleRelaxed(r) ==
  /\ Exists(r) /\ reward[r].manual
  /\ reward' = [reward EXCEPT ![r].manual = FALSE]
  /\ UNCHANGED <<legs, balance, attempt, todo, deaths>>

Ages(r) ==
  /\ Exists(r) /\ ~reward[r].old
  /\ reward' = [reward EXCEPT ![r].old = TRUE]
  /\ UNCHANGED <<legs, balance, attempt, todo, deaths>>

-----------------------------------------------------------------------------
(* process_pending_rewards                                                 *)

\* The rewards the task approves: old and pending, whose rule does not require
\* manual approval and which are not held.
AutoApprovable(r) ==
  /\ Exists(r)
  /\ reward[r].status = "PENDING" /\ reward[r].old
  /\ ~reward[r].manual /\ ~reward[r].held

\* Faulty variant: the query does not filter on the status, so that a settled
\* reward makes every run fail before it reaches the older ones.
TaskReadsAnyStatus(t) ==
  /\ todo[t] = {}
  /\ \E r \in RewardIds : AutoApprovable(r)
  /\ todo' = [todo EXCEPT ![t] =
       {r \in RewardIds : /\ Exists(r) /\ reward[r].old
                          /\ ~reward[r].manual /\ ~reward[r].held}]
  /\ UNCHANGED <<reward, legs, balance, attempt, deaths>>

\* The one query: rows, rules and metadata as they are now.
TaskReads(t) ==
  /\ todo[t] = {}
  /\ \E r \in RewardIds : AutoApprovable(r)
  /\ todo' = [todo EXCEPT ![t] = {r \in RewardIds : AutoApprovable(r)}]
  /\ UNCHANGED <<reward, legs, balance, attempt, deaths>>

\* Newest first; approve() looks at the status again, at nothing else.  A
\* RewardError ends the run, and the rewards behind it wait for the next one.
TaskApproves(t) ==
  /\ \E r \in todo[t] :
       /\ \A q \in todo[t] : q <= r
       /\ \/ /\ Approve(r, NoAdmin)
             /\ todo' = [todo EXCEPT ![t] = @ \ {r}]
          \/ /\ reward[r].status = "APPROVED"
             /\ todo' = [todo EXCEPT ![t] = @ \ {r}]
             /\ UNCHANGED <<reward, legs, balance>>
          \/ /\ reward[r].status \in {"REJECTED", "REVERSED"}
             /\ todo' = [todo EXCEPT ![t] = {}]
             /\ UNCHANGED <<reward, legs, balance>>
  /\ UNCHANGED <<attempt, deaths>>

\* The worker is killed between two rewards; the run is redelivered.
TaskDies(t) ==
  /\ todo[t] # {}
  /\ deaths < MaxDeaths
  /\ todo' = [todo EXCEPT ![t] = {}]
  /\ deaths' = deaths + 1
  /\ UNCHANGED <<reward, legs, balance, attempt>>

Next ==
  \/ \E w \in Workers :
       (\E a \in Awards : AwardLookup(w, a)) \/ AwardClashes(w) \/ AwardInserts(w)
  \/ \E r \in RewardIds :
       \/ \E by \in Admins : AdminApprove(r, by)
       \/ Hold(r) \/ Reject(r) \/ Reverse(r) \/ RuleRelaxed(r) \/ Ages(r)
  \/ \E t \in Tasks : TaskReads(t) \/ TaskApproves(t) \/ TaskDies(t)

Spec == Init /\ [][Next]_vars

\* Celery beat starts the task again and again, and a run goes on.
FairSpec ==
  /\ Spec
  /\ \A t \in Tasks : WF_vars(TaskReads(t)) /\ WF_vars(TaskApproves(t))

-----------------------------------------------------------------------------
(* Properties                                                              *)

\* The ledger transactions behind a reward are exactly those its status calls
\* for, whatever requests, admins and task runs did to it and in which order.
LegsExpected(row) ==
  LET as(posted, state) == [l \in Legs |-> IF l \in posted THEN state ELSE "none"]
  IN  CASE row.status = "PENDING"  -> {as(PendingLegs(row), "posted")}
        [] row.status = "APPROVED" -> {as(PendingLegs(row) \cup ApproveLegs(row), "posted")}
        [] row.status = "REJECTED" -> {as(PendingLegs(row), "reversed")}
        [] row.status = "REVERSED" -> {as(PendingLegs(row), "reversed"),
                                       as(PendingLegs(row) \cup ApproveLegs(row), "reversed")}

LegsMatchStatus ==
  \A r \in RewardIds :
    IF Exists(r) THEN legs[r] \in LegsExpected(reward[r])
                 ELSE \A l \in Legs : legs[r][l] = "none"

\* What a reward with this status keeps in account a: a pending one in the
\* pending buckets, an approved one in the wallet of its user, both at the cost
\* of the platform's accounts.
Share(row, status, a) ==
  LET cashAt   == IF status = "PENDING" THEN <<"PENDING", row.user>>
                                        ELSE <<"CASH", row.user>>
      pointsAt == IF status = "PENDING" THEN <<"system", "PENDING POINTS">>
                                        ELSE <<"POINTS", row.user>>
  IN  IF status \notin {"PENDING", "APPROVED"} THEN 0 ELSE
        CASE a = cashAt                 -> row.cash
          [] a = pointsAt               -> row.points
          [] a = <<"system", "CASH">>   -> -row.cash
          [] a = <<"system", "POINTS">> -> -row.points
          [] OTHER                      -> 0

Shares(a) ==
  [r \in RewardIds |-> IF Exists(r) THEN Share(reward[r], reward[r].status, a) ELSE 0]

\* Every bucket holds exactly the rewards in the state it stands for: no reward
\* is in two buckets, none is lost between them.
BucketsMatchStatus ==
  \A a \in Accounts : balance[a] = SumFunctionOnSet(Shares(a), RewardIds)

\* One reward per (source, source_reference, user): concurrent deliveries of
\* one conversion never pay twice.
OneRewardPerReference ==
  \A q, r \in RewardIds :
    /\ Exists(q) /\ Exists(r)
    /\ reward[q].ref = reward[r].ref /\ reward[q].ref # NoRef
    /\ reward[q].user = reward[r].user
    => q = r

\* REJECTED and REVERSED are final, and an APPROVED reward can only be
\* reversed: no late approval, rejection or task run brings money back.
SettledStaysSettled ==
  [][\A r \in RewardIds :
       Exists(r) =>
         CASE reward[r].status \in {"REJECTED", "REVERSED"} ->
                reward'[r].status = reward[r].status /\ legs'[r] = legs[r]
           [] reward[r].status = "APPROVED" ->
                reward'[r].status \in {"APPROVED", "REVERSED"}
           [] OTHER -> TRUE]_vars

\* A reward the task may approve does not stay pending for ever, although runs
\* die, overlap and stop at the first reward that was settled meanwhile.
PendingIsSettled ==
  \A r \in RewardIds : AutoApprovable(r) ~> ~AutoApprovable(r)

\* DRD R8: without an admin, a reward that is held is not approved.
HeldIsNotAutoApproved ==
  \A r \in RewardIds :
    (Exists(r) /\ reward[r].held /\ reward[r].status = "APPROVED")
      => reward[r].approvedBy # NoAdmin
=============================================================================
