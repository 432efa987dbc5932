----------------------------- MODULE Automation -----------------------------
(***************************************************************************)
(* The automation engine for one user: apps/automation (models, services). *)
(*                                                                         *)
(* emit_event runs inside the transaction of its caller: every active rule *)
(* of the trigger, by priority, is skipped, or its actions run in order    *)
(* and an execution is recorded.  An action that raises stops the rule but *)
(* undoes only itself; what the earlier actions did stays.  Executions are *)
(* counted per rule and status, without a lock; credits go through         *)
(* RewardService.award_fixed, whose references are unique.                 *)
(***************************************************************************)
EXTENDS Naturals, Sequences, FiniteSets, Functions

CONSTANTS
  AutoRules,       \* by priority: [max, riskLt, actions], an action is
                   \* [do, reference] with reference None when it has none
  Processes,       \* that emit events at the same time
  MaxEmits,        \* bound: events emitted
  None

RuleIds == DOMAIN AutoRules
ExecutionStatuses == {"success", "skipped", "failed"}
References == {a.reference : a \in UNION {Range(AutoRules[r].actions) : r \in RuleIds}} \ {None}

VARIABLES
  executions,      \* committed AutomationExecution rows, per rule and status
  credits,         \* committed rewards, per rule
  referenced,      \* committed rewards, per reference
  accountFrozen,          \* User.status is FROZEN
  risky,           \* the risk score is at or above the rules' bound
  call,            \* emit_event in each process, with what its transaction wrote
  emits            \* events emitted so far

vars == <<executions, credits, referenced, accountFrozen, risky, call, emits>>

NoExecutions == [r \in RuleIds |-> [s \in ExecutionStatuses |-> 0]]
NoCredits == [r \in RuleIds |-> 0]
NoReferences == [f \in References |-> 0]

Idle == [at |-> "idle", rule |-> 0, step |-> 0, ran |-> NoExecutions,
         credited |-> NoCredits, referenced |-> NoReferences, freezes |-> FALSE]

Init ==
  /\ executions = NoExecutions
  /\ credits = NoCredits
  /\ referenced = NoReferences
  /\ accountFrozen = FALSE
  /\ risky = FALSE
  /\ call = [p \in Processes |-> Idle]
  /\ emits = 0

Becomes(p, c) ==
  /\ call' = [call EXCEPT ![p] = c]
  /\ UNCHANGED <<executions, credits, referenced, accountFrozen, risky, emits>>

Emit(p) ==
  /\ call[p].at = "idle" /\ emits < MaxEmits
  /\ call' = [call EXCEPT ![p] = [Idle EXCEPT !.at = "rule", !.rule = 1]]
  /\ emits' = emits + 1
  /\ UNCHANGED <<executions, credits, referenced, accountFrozen, risky>>

\* Faulty variant: a rule that fails leaves no trace but the log.
RecordedUnlessFailed(c, status) ==
  [c EXCEPT !.at = "rule", !.rule = @ + 1, !.step = 0,
            !.ran[c.rule][status] = IF status = "failed" THEN @ ELSE @ + 1]

\* The next rule, after recording an execution of this one.
Recorded(c, status) ==
  [c EXCEPT !.at = "rule", !.rule = @ + 1, !.step = 0,
            !.ran[c.rule][status] = @ + 1]

\* Successful executions, the caller's own included.
Used(c) == executions[c.rule]["success"] + c.ran[c.rule]["success"]

Exhausted(c) == AutoRules[c.rule].max # None /\ Used(c) >= AutoRules[c.rule].max

ConditionsMatch(c) == AutoRules[c.rule].riskLt => ~risky

StartRule(p) ==
  /\ call[p].at = "rule" /\ call[p].rule \in RuleIds
  /\ IF Exhausted(call[p]) \/ ~ConditionsMatch(call[p])
       THEN Becomes(p, Recorded(call[p], "skipped"))
       ELSE Becomes(p, [call[p] EXCEPT !.at = "action", !.step = 1])

Action(c) == AutoRules[c.rule].actions[c.step]
Acting(p) == call[p].at = "action" /\ call[p].step <= Len(AutoRules[call[p].rule].actions)
Stepped(c) == [c EXCEPT !.at = "action", !.step = @ + 1]

Credited(c) ==
  [Stepped(c) EXCEPT !.credited[c.rule] = @ + 1,
                     !.referenced = [f \in References |->
                       @[f] + (IF f = Action(c).reference THEN 1 ELSE 0)]]

HasReward(c) == referenced[Action(c).reference] + c.referenced[Action(c).reference] > 0

\* award_fixed: a reference that has been credited is not credited again.
Credit(p) ==
  LET c == call[p] IN
    /\ Acting(p) /\ Action(c).do = "credit"
    /\ IF Action(c).reference = None THEN Becomes(p, Credited(c))
       ELSE IF HasReward(c) THEN Becomes(p, Stepped(c))
       ELSE Becomes(p, [c EXCEPT !.at = "inserts"])

\* The insert waits for another transaction's row with the same reference and
\* fails when that one has committed, which fails the rule.
InsertReward(p) ==
  LET c == call[p]
      f == Action(c).reference
  IN /\ c.at = "inserts"
     /\ \A q \in Processes \ {p} : call[q].referenced[f] = 0
     /\ IF HasReward(c) THEN Becomes(p, Recorded(c, "failed"))
        ELSE Becomes(p, Credited(c))

\* The row of a user another transaction has changed is locked.
Freeze(p) ==
  /\ Acting(p) /\ Action(call[p]).do = "freeze"
  /\ \A q \in Processes \ {p} : ~call[q].freezes
  /\ Becomes(p, [Stepped(call[p]) EXCEPT !.freezes = TRUE])

\* Notifications, alerts and actions the engine does not know change nothing.
OtherAction(p) ==
  /\ Acting(p) /\ Action(call[p]).do = "other"
  /\ Becomes(p, Stepped(call[p]))

\* An action that cannot run, like a credit of zero, raises.
ActionRaises(p) ==
  /\ Acting(p) /\ Action(call[p]).do = "raises"
  /\ Becomes(p, Recorded(call[p], "failed"))

FinishRule(p) ==
  /\ call[p].at = "action"
  /\ call[p].step > Len(AutoRules[call[p].rule].actions)
  /\ Becomes(p, Recorded(call[p], "success"))

\* The caller's transaction ends.
Commit(p) ==
  LET c == call[p] IN
    /\ c.at = "rule" /\ c.rule \notin RuleIds
    /\ executions' = [r \in RuleIds |-> [s \in ExecutionStatuses |->
                        executions[r][s] + c.ran[r][s]]]
    /\ credits' = [r \in RuleIds |-> credits[r] + c.credited[r]]
    /\ referenced' = [f \in References |-> referenced[f] + c.referenced[f]]
    /\ accountFrozen' = (accountFrozen \/ c.freezes)
    /\ call' = [call EXCEPT ![p] = Idle]
    /\ UNCHANGED <<risky, emits>>

RollBack(p) == call[p].at # "idle" /\ Becomes(p, Idle)

\* A sweep computes the risk score again.
ScoreChanges ==
  /\ risky' = ~risky
  /\ UNCHANGED <<executions, credits, referenced, accountFrozen, call, emits>>

Next ==
  \/ \E p \in Processes : \/ Emit(p) \/ StartRule(p) \/ Credit(p) \/ InsertReward(p)
                          \/ Freeze(p) \/ OtherAction(p) \/ ActionRaises(p)
                          \/ FinishRule(p) \/ Commit(p) \/ RollBack(p)
  \/ ScoreChanges

Spec == Init /\ [][Next]_vars

(***************************************************************************)
(* Properties.                                                             *)
(***************************************************************************)
Counts(S) == [S -> Nat]

TypeOK ==
  /\ executions \in [RuleIds -> Counts(ExecutionStatuses)]
  /\ credits \in Counts(RuleIds) /\ referenced \in Counts(References)
  /\ accountFrozen \in BOOLEAN /\ risky \in BOOLEAN
  /\ \A p \in Processes : call[p].at \in {"idle", "rule", "action", "inserts"}

\* The maximum per user is exceeded by at most the events that were being
\* handled at the same time (emit_event counts before any of them commits).
MaxExecutionsOvershoot ==
  \A r \in RuleIds : AutoRules[r].max # None =>
    executions[r]["success"] <= AutoRules[r].max + Cardinality(Processes) - 1

CreditActions(r) ==
  Cardinality({i \in DOMAIN AutoRules[r].actions : AutoRules[r].actions[i].do = "credit"})

\* Every credit of a rule is explained by an execution on record, of a rule
\* that failed after crediting too: only those are outside the maximum.
CreditsAreRecorded ==
  \A r \in RuleIds :
    credits[r] <= CreditActions(r) *
                  (executions[r]["success"] + executions[r]["failed"])

\* A credit with a reference is given once, whatever emits it (award_fixed
\* looks before it inserts; the unique constraint decides the race).
ReferenceCreditedOnce == \A f \in References : referenced[f] <= 1

\* What the engine keeps true, part by part above.
AutomationSound ==
  TypeOK /\ MaxExecutionsOvershoot /\ CreditsAreRecorded /\ ReferenceCreditedOnce
=============================================================================
