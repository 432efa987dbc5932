-------------------------------- MODULE Risk --------------------------------
(***************************************************************************)
(* Fraud events, the risk score and what the engine does with it:          *)
(* apps/fraud (tasks.run_fraud_analysis, services), apps/risk, and the     *)
(* staff actions on a user in apps/adminpanel/views.py.                    *)
(*                                                                         *)
(* The sweep looks for an OPEN event of the kind outside any transaction,  *)
(* then records one in a transaction that locks the user's risk profile,   *)
(* sums the open events and applies the rules.  What a transaction writes  *)
(* is kept in the sweep's record and reaches the tables when it commits;   *)
(* rows of one kind and status are alike, so tables are counts.            *)
(***************************************************************************)
EXTENDS Naturals, Sequences, FiniteSets, FiniteSetsExt

CONSTANTS
  Users,
  Kinds,        \* sequence of the kinds the sweep detects, in its order
  Weight,       \* of the severity the sweep gives each kind
  RiskRules,    \* active rules by priority: [min, max, ageLt, ageGte, action]
  Workers,      \* Celery processes that may run the sweep
  Admins,
  MaxRows,      \* bound: rows of one kind, open or under review
  MaxSweeps,    \* bound: sweeps started
  MaxStaff,     \* bound: decisions of the staff
  MaxAge,       \* bound: days since a user joined
  None

Restrictable == {"withdrawal_disabled", "offers_disabled"}

KindSet == {Kinds[i] : i \in DOMAIN Kinds}

VARIABLES
  open,         \* FraudEvent rows OPEN, per user and kind
  reviewing,    \* and REVIEWING
  score,        \* UserRiskProfile.risk_score
  age,          \* days since User.date_joined
  judged,       \* what age was when apply_risk_rules judged that score
  frozen,       \* User.status is FROZEN
  active,       \* UserRestriction rows with is_active, per user and type
  lifted,       \* and those an administrator switched off
  sweep,        \* what each worker is doing
  form,         \* a restriction an administrator is adding, between get and create
  sweeps, staff \* how many there have been

vars == <<open, reviewing, score, age, judged, frozen, active, lifted, sweep, form, sweeps, staff>>

Idle == [at |-> "idle", todo |-> {}, item |-> None, wasFrozen |-> FALSE,
         score |-> 0, age |-> 0, rule |-> 0, freezes |-> FALSE, adds |-> {}]

NoForm == [user |-> None, type |-> None]

Init ==
  /\ open = [u \in Users |-> [k \in KindSet |-> 0]]
  /\ reviewing = open
  /\ score = [u \in Users |-> 0]
  /\ age \in [Users -> 0..MaxAge]
  /\ judged = [u \in Users |-> 0]
  /\ frozen = [u \in Users |-> FALSE]
  /\ active = [u \in Users |-> [t \in Restrictable |-> 0]]
  /\ lifted = active
  /\ sweep = [w \in Workers |-> Idle]
  /\ form = [a \in Admins |-> NoForm]
  /\ sweeps = 0
  /\ staff = 0

(***************************************************************************)
(* The sweep.                                                              *)
(***************************************************************************)
Open(u, k) == open[u][k] + reviewing[u][k]

\* The sum over the open events, capped; new is the event just inserted.
ScoreWith(u, new) ==
  LET worth == [k \in KindSet |-> Weight[k] * (Open(u, k) + (IF k = new THEN 1 ELSE 0))]
      sum == SumFunctionOnSet(worth, KindSet)
  IN IF sum > 100 THEN 100 ELSE sum

\* The score s and the age a of the account are within what the rule asks for.
Matches(rule, s, a) ==
  /\ rule.min = None \/ s >= rule.min
  /\ rule.max = None \/ s <= rule.max
  /\ rule.ageLt = None \/ a < rule.ageLt
  /\ rule.ageGte = None \/ a >= rule.ageGte

\* Device reuse first, then rapid conversions; users of one kind in any order.
NextItems(todo) ==
  {i \in todo : \A j \in todo : \E x, y \in DOMAIN Kinds :
                  Kinds[x] = i[2] /\ Kinds[y] = j[2] /\ x <= y}

StartSweep(w, signals) ==
  /\ sweep[w].at = "idle" /\ sweeps < MaxSweeps
  /\ sweep' = [sweep EXCEPT ![w] = [Idle EXCEPT !.at = "checks", !.todo = signals]]
  /\ sweeps' = sweeps + 1
  /\ UNCHANGED <<open, reviewing, score, age, judged, frozen, active, lifted, form, staff>>

\* An OPEN event of this kind silences the signal, one under review does not.
IsKnown(u, k) == open[u][k] > 0

Check(w) ==
  /\ sweep[w].at = "checks"
  /\ \/ /\ sweep[w].todo = {}
        /\ sweep' = [sweep EXCEPT ![w] = Idle]
     \/ \E i \in NextItems(sweep[w].todo) :
          IF IsKnown(i[1], i[2])
            THEN sweep' = [sweep EXCEPT ![w].todo = @ \ {i}]
            ELSE /\ Open(i[1], i[2]) < MaxRows
                 /\ sweep' = [sweep EXCEPT ![w] =
                      [Idle EXCEPT !.at = "records", !.item = i,
                                   !.todo = sweep[w].todo \ {i},
                                   !.wasFrozen = frozen[i[1]]]]
  /\ UNCHANGED <<open, reviewing, score, age, judged, frozen, active, lifted, form, sweeps, staff>>

\* Faulty variant: the profile is read without a lock.
NeverLocked(u) == FALSE

\* Somebody holds the row of u's risk profile.
Locked(u) == \E w \in Workers : sweep[w].at = "rules" /\ sweep[w].item[1] = u

\* Insert the event, take the profile's row and compute the score under it.
Recalculate(w) ==
  /\ sweep[w].at = "records"
  /\ ~Locked(sweep[w].item[1])
  /\ sweep' = [sweep EXCEPT ![w].at = "rules", ![w].rule = 1,
                            ![w].score = ScoreWith(sweep[w].item[1], sweep[w].item[2]),
                            ![w].age = age[sweep[w].item[1]]]
  /\ UNCHANGED <<open, reviewing, score, age, judged, frozen, active, lifted, form, sweeps, staff>>

\* Active rows of the type that the transaction sees: committed or its own.
Found(w, t) ==
  active[sweep[w].item[1]][t] + (IF t \in sweep[w].adds THEN 1 ELSE 0)

\* What a matching rule does: of several with one action the first imposes it,
\* and the later find it imposed.  get_or_create raises when two active rows
\* exist: the transaction and the sweep end there.
Acted(w, rule, next) ==
  CASE rule.action \in Restrictable ->
         IF Found(w, rule.action) > 1 THEN Idle
         ELSE IF Found(w, rule.action) = 1 THEN next
         ELSE [next EXCEPT !.adds = @ \union {rule.action}]
    [] rule.action = "freeze_account" -> [next EXCEPT !.freezes = @ \/ ~sweep[w].wasFrozen]
    [] OTHER -> next

\* Faulty variant: the first rule that matches is the only one that acts.
ApplyFirstRule(w) ==
  /\ sweep[w].at = "rules" /\ sweep[w].rule <= Len(RiskRules)
  /\ LET rule == RiskRules[sweep[w].rule]
     IN  sweep' = [sweep EXCEPT ![w] =
           IF Matches(rule, sweep[w].score, sweep[w].age)
           THEN Acted(w, rule, [sweep[w] EXCEPT !.rule = Len(RiskRules) + 1])
           ELSE [sweep[w] EXCEPT !.rule = @ + 1]]
  /\ UNCHANGED <<open, reviewing, score, age, judged, frozen, active, lifted, form, sweeps, staff>>

\* Every active rule that matches acts, in order of priority.
ApplyRule(w) ==
  /\ sweep[w].at = "rules" /\ sweep[w].rule <= Len(RiskRules)
  /\ LET rule == RiskRules[sweep[w].rule]
         next == [sweep[w] EXCEPT !.rule = @ + 1]
     IN  sweep' = [sweep EXCEPT ![w] =
           IF Matches(rule, sweep[w].score, sweep[w].age) THEN Acted(w, rule, next) ELSE next]
  /\ UNCHANGED <<open, reviewing, score, age, judged, frozen, active, lifted, form, sweeps, staff>>

Commit(w) ==
  /\ sweep[w].at = "rules" /\ sweep[w].rule > Len(RiskRules)
  /\ LET u == sweep[w].item[1] IN
       /\ open' = [open EXCEPT ![u][sweep[w].item[2]] = @ + 1]
       /\ score' = [score EXCEPT ![u] = sweep[w].score]
       /\ judged' = [judged EXCEPT ![u] = sweep[w].age]
       /\ frozen' = [frozen EXCEPT ![u] = @ \/ sweep[w].freezes]
       /\ active' = [active EXCEPT ![u] =
            [t \in Restrictable |-> @[t] + (IF t \in sweep[w].adds THEN 1 ELSE 0)]]
  /\ sweep' = [sweep EXCEPT ![w] = [Idle EXCEPT !.at = "checks", !.todo = sweep[w].todo]]
  /\ UNCHANGED <<reviewing, age, lifted, form, sweeps, staff>>

\* The process dies: its transaction is rolled back and the sweep is not retried.
WorkerDies(w) ==
  /\ sweep[w].at # "idle"
  /\ sweep' = [sweep EXCEPT ![w] = Idle]
  /\ UNCHANGED <<open, reviewing, score, age, judged, frozen, active, lifted, form, sweeps, staff>>

(***************************************************************************)
(* The staff.  Events are worked forward in the Django admin; the score is *)
(* not computed again.                                                     *)
(***************************************************************************)
Staff == staff < MaxStaff /\ staff' = staff + 1

Review(u, k) ==
  /\ Staff /\ open[u][k] > 0
  /\ open' = [open EXCEPT ![u][k] = @ - 1]
  /\ reviewing' = [reviewing EXCEPT ![u][k] = @ + 1]
  /\ UNCHANGED <<score, age, judged, frozen, active, lifted, sweep, form, sweeps>>

Resolve(u, k) ==
  /\ Staff
  /\ \/ /\ open[u][k] > 0
        /\ open' = [open EXCEPT ![u][k] = @ - 1]
        /\ UNCHANGED reviewing
     \/ /\ reviewing[u][k] > 0
        /\ reviewing' = [reviewing EXCEPT ![u][k] = @ - 1]
        /\ UNCHANGED open
  /\ UNCHANGED <<score, age, judged, frozen, active, lifted, sweep, form, sweeps>>

\* The account's row is locked by a transaction that froze it.
SetFrozen(u, f) ==
  /\ Staff
  /\ ~\E w \in Workers : sweep[w].freezes /\ sweep[w].item[1] = u
  /\ frozen' = [frozen EXCEPT ![u] = f]
  /\ UNCHANGED <<open, reviewing, score, age, judged, active, lifted, sweep, form, sweeps>>

\* update_or_create: no active row, one to update, or an error.
RestrictReads(a, u, t) ==
  /\ Staff /\ form[a] = NoForm /\ active[u][t] = 0
  /\ form' = [form EXCEPT ![a] = [user |-> u, type |-> t]]
  /\ UNCHANGED <<open, reviewing, score, age, judged, frozen, active, lifted, sweep, sweeps>>

RestrictCreates(a) ==
  /\ form[a] # NoForm
  /\ active' = [active EXCEPT ![form[a].user][form[a].type] = @ + 1]
  /\ form' = [form EXCEPT ![a] = NoForm]
  /\ UNCHANGED <<open, reviewing, score, age, judged, frozen, lifted, sweep, sweeps, staff>>

Unrestrict(u, t) ==
  /\ Staff /\ active[u][t] > 0
  /\ active' = [active EXCEPT ![u][t] = @ - 1]
  /\ lifted' = [lifted EXCEPT ![u][t] = @ + 1]
  /\ UNCHANGED <<open, reviewing, score, age, judged, frozen, sweep, form, sweeps>>

\* Another day since u joined.
DayPasses(u) ==
  /\ age[u] < MaxAge
  /\ age' = [age EXCEPT ![u] = @ + 1]
  /\ UNCHANGED <<open, reviewing, score, judged, frozen, active, lifted, sweep, form, sweeps, staff>>

Next ==
  \/ \E w \in Workers : \/ \E s \in SUBSET (Users \X KindSet) : s # {} /\ StartSweep(w, s)
                        \/ Check(w) \/ Recalculate(w) \/ ApplyRule(w) \/ Commit(w)
                        \/ WorkerDies(w)
  \/ \E u \in Users, k \in KindSet : Review(u, k) \/ Resolve(u, k)
  \/ \E u \in Users, f \in BOOLEAN : SetFrozen(u, f)
  \/ \E a \in Admins, u \in Users, t \in Restrictable : RestrictReads(a, u, t)
  \/ \E a \in Admins : RestrictCreates(a)
  \/ \E u \in Users, t \in Restrictable : Unrestrict(u, t)
  \/ \E u \in Users : DayPasses(u)

Spec == Init /\ [][Next]_vars

(***************************************************************************)
(* Properties.                                                             *)
(***************************************************************************)
Table(S, T) == [Users -> [S -> T]]

TypeOK ==
  /\ open \in Table(KindSet, Nat) /\ reviewing \in Table(KindSet, Nat)
  /\ active \in Table(Restrictable, Nat) /\ lifted \in Table(Restrictable, Nat)
  /\ age \in [Users -> 0..MaxAge] /\ judged \in [Users -> 0..MaxAge]
  /\ score \in [Users -> 0..100] /\ frozen \in [Users -> BOOLEAN]
  /\ form \in [Admins -> {NoForm} \union [user : Users, type : Restrictable]]
  /\ sweep \in [Workers ->
       [at : {"idle", "checks", "records", "rules"}, todo : SUBSET (Users \X KindSet),
        item : {None} \union (Users \X KindSet), wasFrozen : BOOLEAN, score : 0..100,
        age : 0..MaxAge, rule : 0..Len(RiskRules) + 1, freezes : BOOLEAN, adds : SUBSET Restrictable]]

\* No event is forgotten: the stored score is at least what the user's open
\* events are worth, though sweeps record events of one user at the same time
\* (recalculate_user_risk reads the events under the profile's lock).
ScoreCoversEvents == \A u \in Users : score[u] >= ScoreWith(u, None)

\* A user whose score, at the age at which it was judged, calls for a restriction
\* has been given it: nobody but an administrator can have taken it away.  Every
\* matching rule of apply_risk_rules acts, in the transaction that stores the
\* score; that an account grows into a rule's age does not apply the rule.
RestrictedWhenHigh ==
  \A u \in Users : \A i \in DOMAIN RiskRules :
    (/\ RiskRules[i].action \in Restrictable
     /\ score[u] > 0 /\ Matches(RiskRules[i], score[u], judged[u]))
      => active[u][RiskRules[i].action] + lifted[u][RiskRules[i].action] > 0

\* Overlapping sweeps and administrators who restrict at once leave at most
\* one row each: the engine's own runs are serialised by the profile's lock,
\* so it contributes one (get_or_create has no unique constraint under it).
RestrictionRowsBounded ==
  \A u \in Users, t \in Restrictable : active[u][t] <= Cardinality(Admins) + 1

\* A signal that is already open is not raised again, except by a sweep that
\* looked before the other one committed.
OpenSignalsBounded ==
  \A u \in Users, k \in KindSet : open[u][k] <= Cardinality(Workers)

\* What the risk engine keeps true, part by part above.
RiskSound ==
  TypeOK /\ ScoreCoversEvents /\ RestrictionRowsBounded /\ OpenSignalsBounded
=============================================================================
