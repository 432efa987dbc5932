---------------------------- MODULE OffersProofs ----------------------------
(***************************************************************************)
(* Theorems about Offers, for any users, offers, conversions, workers,     *)
(* limits and caps.                                                        *)
(***************************************************************************)
EXTENDS Offers, FiniteSetTheorems, TLAPS

-----------------------------------------------------------------------------
(* Rows                                                                    *)

\* A new quota is a row, and stays one when counters start again.
LEMMA NewQuotaType == NewQuota \in QuotaRow
BY DEF NewQuota, QuotaRow

LEMMA RolledType ==
  ASSUME NEW q \in QuotaRow, NEW now \in Hours
  PROVE  Rolled(q, now) \in QuotaRow
<1> DEFINE hourOver == q.hourReset = None \/ now - q.hourReset >= 1
           dayOver  == q.dayReset = None \/ Day(q.dayReset) # Day(now)
           thisHour == IF hourOver THEN 0 ELSE q.thisHour
           hourReset == IF hourOver THEN now ELSE q.hourReset
           today == IF dayOver THEN 0 ELSE q.today
           dayReset == IF dayOver THEN now ELSE q.dayReset
<1>1. /\ thisHour \in Nat /\ today \in Nat
      /\ hourReset \in Hours \cup {None} /\ dayReset \in Hours \cup {None}
  BY DEF QuotaRow
<1>2. Rolled(q, now) = [q EXCEPT !.thisHour = thisHour, !.hourReset = hourReset,
                                 !.today = today, !.dayReset = dayReset]
  BY DEF Rolled
<1> HIDE DEF thisHour, hourReset, today, dayReset
<1> QED
  BY <1>1, <1>2 DEF QuotaRow

\* bump_quota writes a row, and the offer as it was or as paused by the quota.
LEMMA BumpType ==
  ASSUME TypeOK, NEW o \in OfferIds, Bump(o)
  PROVE  /\ quota' \in [OfferIds -> QuotaRow \cup {None}]
         /\ status' \in [OfferIds -> Statuses \cup {None}]
         /\ \A p \in OfferIds \ {o} : status'[p] = status[p]
<1> DEFINE old == IF quota[o] = None THEN NewQuota ELSE quota[o]
           q == Rolled(old, hour)
           today == q.today + 1
           thisHour == q.thisHour + 1
           lifetime == q.lifetime + 1
           n == [q EXCEPT !.today = today, !.thisHour = thisHour, !.lifetime = lifetime]
           s == IF n.capped /\ Reached(n.today, DailyCap[o]) THEN "paused_by_quota"
                ELSE ReadStatus(o)
<1>1. old \in QuotaRow /\ hour \in Hours
  BY NewQuotaType DEF TypeOK
<1>2. q \in QuotaRow
  BY <1>1, RolledType
<1>3. quota' = [quota EXCEPT ![o] = n] /\ status' = [status EXCEPT ![o] = s]
  BY DEF Bump
<1>4. s \in Statuses
  <2>1. ReadStatus(o) \in Statuses
    BY DEF TypeOK, Statuses, ReadStatus
  <2> HIDE DEF n
  <2> QED
    BY <2>1 DEF Statuses
<1> HIDE DEF q, s
<1>5. today \in Nat /\ thisHour \in Nat /\ lifetime \in Nat
  BY <1>2 DEF QuotaRow
<1> HIDE DEF today, thisHour, lifetime
<1>6. n \in QuotaRow
  BY <1>2, <1>5 DEF QuotaRow
<1> HIDE DEF n
<1> QED
  BY <1>3, <1>4, <1>6 DEF TypeOK

-----------------------------------------------------------------------------
(* The inductive invariant                                                 *)

\* A conversion is rewarded exactly when it is stored as approved, and once;
\* what the engine let through was read as active.
Rewarded(e) ==
  rewards[e] = IF conversion[e] # None /\ conversion[e].status = "approved" THEN 1 ELSE 0

ReadActive(w) ==
  (request[w] # None /\ request[w].at = "evaluated" /\ request[w].approved)
    => request[w].seen = "active"

\* The task works on rows that were there when it listed them.
TaskLists == task # None => \A o \in task.left : task.rows[o] # None

IInv ==
  /\ TypeOK
  /\ \A e \in Ext : Rewarded(e)
  /\ \A w \in Workers : ReadActive(w)
  /\ TaskLists

LEMMA InitInv == Init => IInv
<1> SUFFICES ASSUME Init PROVE IInv
  OBVIOUS
<1>1. TypeOK
  <2>1. [NewQuota EXCEPT !.capped = TRUE] \in QuotaRow
    BY NewQuotaType DEF QuotaRow
  <2>2. quota \in [OfferIds -> QuotaRow \cup {None}]
    <3> HIDE DEF QuotaRow, NewQuota
    <3> QED
      BY <2>1 DEF Init
  <2>3. status \in [OfferIds -> Statuses \cup {None}]
    BY DEF Init, Statuses
  <2>4. hour \in Hours /\ events \in 0..MaxEvents
    BY OfferConstants DEF Init, Hours
  <2> QED
    BY <2>2, <2>3, <2>4 DEF Init, TypeOK
<1>2. \A e \in Ext : Rewarded(e)
  BY DEF Init, Rewarded
<1>3. \A w \in Workers : ReadActive(w)
  BY DEF Init, ReadActive
<1>4. TaskLists
  BY DEF Init, TaskLists
<1> QED
  BY <1>1, <1>2, <1>3, <1>4 DEF IInv

\* A click.
LEMMA StartKeepsInv ==
  ASSUME IInv, NEW e \in Ext, Start(e)
  PROVE  IInv'
<1>1. clicked' \subseteq ByClick
  BY DEF IInv, TypeOK, Start, RecordClick
<1> QED
  BY <1>1 DEF IInv, TypeOK, Start, Rewarded, ReadActive, TaskLists

\* A postback is read, or evaluated: only its request changes.
LEMMA RequestKeepsInv ==
  ASSUME IInv, NEW w \in Workers, NEW r \in Request \cup {None},
         request' = [request EXCEPT ![w] = r],
         (r # None /\ r.at = "evaluated" /\ r.approved) => r.seen = "active",
         UNCHANGED <<status, quota, clicked, conversion, rewards, blocked, task, hour>>,
         events' \in 0..MaxEvents
  PROVE  IInv'
<1>1. TypeOK'
  BY DEF IInv, TypeOK
<1>2. \A e \in Ext : Rewarded(e)'
  BY DEF IInv, Rewarded
<1>3. ASSUME NEW v \in Workers PROVE ReadActive(v)'
  <2>1. CASE v = w
    BY <2>1 DEF IInv, TypeOK, ReadActive
  <2>2. CASE v # w
    BY <2>2 DEF IInv, TypeOK, ReadActive
  <2> QED
    BY <2>1, <2>2
<1> QED
  BY <1>1, <1>2, <1>3 DEF IInv, TaskLists

LEMMA ReceiveKeepsInv ==
  ASSUME IInv, NEW w \in Workers, NEW e \in Ext, Receive(w, e)
  PROVE  IInv'
<1> DEFINE o == OfferOf[e]
<1>1. PICK approved \in BOOLEAN :
        request' = [request EXCEPT ![w] =
          [at |-> "read", ext |-> e, approved |-> approved,
           made |-> status[o] = None, seen |-> ReadStatus(o)]]
  BY DEF Receive
<1> DEFINE r == [at |-> "read", ext |-> e, approved |-> approved,
                 made |-> status[o] = None, seen |-> ReadStatus(o)]
<1>2. o \in OfferIds /\ ReadStatus(o) \in Statuses
  BY OfferConstants DEF IInv, TypeOK, ReadStatus, Statuses
<1>3. r \in Request /\ r.at = "read"
  BY <1>2 DEF Request
<1>4. request' = [request EXCEPT ![w] = r]
  BY <1>1
<1> HIDE DEF r
<1>5. events' \in 0..MaxEvents
  BY DEF Receive, IInv, TypeOK
<1> QED
  BY <1>3, <1>4, <1>5, RequestKeepsInv DEF Receive

LEMMA EvaluateKeepsInv ==
  ASSUME IInv, NEW w \in Workers, Evaluate(w)
  PROVE  IInv'
<1> DEFINE old == request[w]
           approved == old.approved /\ Eligible(UserOf[old.ext], OfferOf[old.ext], old.seen)
           r == [old EXCEPT !.at = "evaluated", !.approved = approved]
<1>1. old \in Request
  BY DEF Evaluate, IInv, TypeOK
<1>2. request' = [request EXCEPT ![w] = r]
  BY <1>1 DEF Evaluate, IInv, TypeOK
<1>3. approved \in BOOLEAN /\ approved => old.seen = "active"
  BY DEF Eligible
<1>3a. approved \in BOOLEAN
  OBVIOUS
<1> HIDE DEF approved
<1>4. r \in Request /\ r.approved = approved /\ r.seen = old.seen
  BY <1>1, <1>3a DEF Request
<1> HIDE DEF r
<1>5. events' \in 0..MaxEvents
  BY DEF Evaluate, IInv, TypeOK
<1>6. r.approved => r.seen = "active"
  BY <1>3, <1>3a, <1>4
<1> QED
  BY <1>2, <1>4, <1>5, <1>6, RequestKeepsInv DEF Evaluate

\* The request is answered without a trace: a duplicate, or a failure.
LEMMA AnswerKeepsInv ==
  ASSUME IInv, NEW w \in Workers, RecordDuplicate(w) \/ Fail(w)
  PROVE  IInv'
<1>1. events' \in 0..MaxEvents
  BY OfferConstants DEF IInv, TypeOK, RecordDuplicate, Fail
<1> QED
  BY <1>1, RequestKeepsInv DEF RecordDuplicate, Fail, Answer

\* What a request stores: one conversion, and its reward if it was approved.
LEMMA RecordStep ==
  ASSUME IInv, NEW w \in Workers, Record(w)
  PROVE  \E e \in Ext, row \in ConversionRow :
           /\ request[w] \in Request /\ request[w].at = "evaluated" /\ e = request[w].ext
           /\ row.status = "approved" <=> request[w].approved
           /\ conversion[e] = None /\ conversion' = [conversion EXCEPT ![e] = row]
           /\ rewards' = IF row.status = "approved"
                         THEN [rewards EXCEPT ![e] = rewards[e] + 1] ELSE rewards
           /\ request' = [request EXCEPT ![w] = None]
<1> DEFINE r == request[w]
           row == [status |-> IF r.approved THEN "approved" ELSE "rejected", day |-> Day(hour)]
<1>1. r \in Request /\ r.ext \in Ext /\ r.at = "evaluated"
  BY DEF Record, IInv, TypeOK, Request
<1>2. row \in ConversionRow /\ (row.status = "approved" <=> r.approved)
  BY <1>1 DEF ConversionRow, IInv, TypeOK
<1>3. /\ conversion[r.ext] = None /\ conversion' = [conversion EXCEPT ![r.ext] = row]
      /\ rewards' = IF r.approved THEN [rewards EXCEPT ![r.ext] = rewards[r.ext] + 1] ELSE rewards
      /\ request' = [request EXCEPT ![w] = None]
  BY DEF Record, Answer
<1> HIDE DEF row
<1> QED
  BY <1>1, <1>2, <1>3

LEMMA RecordKeepsInv ==
  ASSUME IInv, NEW w \in Workers, Record(w)
  PROVE  IInv'
<1>1. PICK e \in Ext, row \in ConversionRow :
        /\ request[w] \in Request /\ e = request[w].ext
        /\ conversion[e] = None /\ conversion' = [conversion EXCEPT ![e] = row]
        /\ rewards' = IF row.status = "approved"
                      THEN [rewards EXCEPT ![e] = rewards[e] + 1] ELSE rewards
        /\ request' = [request EXCEPT ![w] = None]
  BY RecordStep
<1>2. UNCHANGED <<clicked, blocked, task, hour, events>>
  BY DEF Record
<1>3. /\ quota' \in [OfferIds -> QuotaRow \cup {None}]
      /\ status' \in [OfferIds -> Statuses \cup {None}]
  <2> DEFINE o == OfferOf[request[w].ext]
  <2>1. o \in OfferIds
    BY <1>1, OfferConstants
  <2>2. CASE Bump(o)
    BY <2>1, <2>2, BumpType DEF IInv
  <2>3. CASE status' = [status EXCEPT ![o] = ReadStatus(o)] /\ UNCHANGED quota
    BY <2>1, <2>3 DEF IInv, TypeOK, ReadStatus, Statuses
  <2> QED
    BY <2>2, <2>3 DEF Record
<1>4. rewards[e] = 0 /\ row # None
  BY <1>1, NullIsNoValue DEF IInv, Rewarded
<1>5. TypeOK'
  BY <1>1, <1>2, <1>3, <1>4 DEF IInv, TypeOK
<1>6. ASSUME NEW x \in Ext PROVE Rewarded(x)'
  <2>1. CASE x = e
    BY <1>1, <1>4, <2>1 DEF IInv, TypeOK, Rewarded
  <2>2. CASE x # e
    BY <1>1, <2>2 DEF IInv, TypeOK, Rewarded
  <2> QED
    BY <2>1, <2>2
<1>7. \A v \in Workers : ReadActive(v)'
  BY <1>1 DEF IInv, TypeOK, ReadActive
<1> QED
  BY <1>2, <1>5, <1>6, <1>7 DEF IInv, TaskLists

\* The quota task writes offers, quotas and its own rows.
LEMMA TaskKeepsInv ==
  ASSUME IInv, TaskStep \/ TaskKilled
  PROVE  IInv'
<1>1. UNCHANGED <<clicked, conversion, rewards, blocked, request, hour>>
  BY DEF TaskStep, TaskReads, TaskSavesQuota, TaskResumes, TaskKilled
<1>2. events' \in 0..MaxEvents
  <2>1. UNCHANGED events \/ (events < MaxEvents /\ events' = events + 1)
    BY DEF TaskStep, TaskReads, TaskSavesQuota, TaskResumes, TaskKilled
  <2>2. events \in 0..MaxEvents /\ MaxEvents \in Nat
    BY OfferConstants DEF IInv, TypeOK
  <2> QED
    BY <2>1, <2>2
<1>3. /\ quota' \in [OfferIds -> QuotaRow \cup {None}]
      /\ status' \in [OfferIds -> Statuses \cup {None}]
      /\ task' \in TaskRun \cup {None} /\ TaskLists'
  <2>1. CASE TaskReads
    <3> DEFINE t == [now |-> hour, rows |-> quota, seen |-> status,
                     left |-> {o \in OfferIds : quota[o] # None}, next |-> None]
    <3>1. /\ t \in TaskRun /\ t.rows = quota
          /\ t.left = {o \in OfferIds : quota[o] # None}
      BY DEF TaskRun, IInv, TypeOK
    <3>2. task' = t
      BY <2>1 DEF TaskReads
    <3> HIDE DEF t
    <3> QED
      BY <2>1, <3>1, <3>2 DEF TaskReads, IInv, TypeOK, TaskLists
  <2>2. ASSUME NEW o \in OfferIds, TaskSavesQuota(o)
        PROVE  /\ quota' \in [OfferIds -> QuotaRow \cup {None}]
               /\ status' \in [OfferIds -> Statuses \cup {None}]
               /\ task' \in TaskRun \cup {None} /\ TaskLists'
    <3> DEFINE row == Rolled(task.rows[o], task.now)
               t == [task EXCEPT !.rows[o] = row, !.left = task.left \ {o}, !.next = o]
    <3>1. task \in TaskRun /\ task.now \in Hours /\ task.rows[o] \in QuotaRow
      BY <2>2 DEF TaskSavesQuota, IInv, TypeOK, TaskRun, TaskLists
    <3>2. row \in QuotaRow
      BY <3>1, RolledType
    <3>3. /\ task' = t /\ UNCHANGED status
          /\ quota' = IF row # task.rows[o] THEN [quota EXCEPT ![o] = row] ELSE quota
      BY <2>2 DEF TaskSavesQuota
    <3> HIDE DEF row
    <3>4. /\ t \in TaskRun /\ t.left = task.left \ {o}
          /\ \A x \in OfferIds \ {o} : t.rows[x] = task.rows[x]
      BY <3>1, <3>2 DEF TaskRun
    <3>5. task # None /\ task.left \subseteq OfferIds
      BY <3>1, NullIsNoValue DEF TaskRun
    <3> HIDE DEF t
    <3> QED
      BY <3>2, <3>3, <3>4, <3>5 DEF IInv, TypeOK, TaskLists
  <2>3. CASE TaskResumes
    <3>1. task \in TaskRun /\ task.next \in OfferIds
      BY <2>3 DEF TaskResumes, IInv, TypeOK, TaskRun
    <3>2. status' \in [OfferIds -> Statuses \cup {None}] /\ UNCHANGED quota
      BY <2>3, <3>1 DEF TaskResumes, IInv, TypeOK, Statuses
    <3>3. task' = None \/ task' = [task EXCEPT !.next = None]
      BY <2>3 DEF TaskResumes, AfterOffer
    <3>4. /\ [task EXCEPT !.next = None] \in TaskRun
          /\ [task EXCEPT !.next = None].left = task.left
          /\ [task EXCEPT !.next = None].rows = task.rows
      BY <3>1 DEF TaskRun
    <3> QED
      BY <2>3, <3>2, <3>3, <3>4 DEF TaskResumes, IInv, TypeOK, TaskLists
  <2>4. CASE TaskKilled
    BY <2>4 DEF TaskKilled, IInv, TypeOK, TaskLists
  <2> QED
    BY <2>1, <2>2, <2>3, <2>4 DEF TaskStep
<1>4. TypeOK'
  BY <1>1, <1>2, <1>3 DEF IInv, TypeOK
<1>5. (\A e \in Ext : Rewarded(e)') /\ (\A w \in Workers : ReadActive(w)')
  BY <1>1 DEF IInv, Rewarded, ReadActive
<1> QED
  BY <1>3, <1>4, <1>5 DEF IInv

\* The staff and the clock.
LEMMA AdministrationKeepsInv ==
  ASSUME IInv,
         \/ \E o \in OfferIds : SetStatus(o)
         \/ \E u \in Users : SetBlocked(u)
         \/ Tick
  PROVE  IInv'
<1>1. UNCHANGED <<quota, clicked, conversion, rewards, request, task>>
  BY DEF SetStatus, SetBlocked, Tick
<1>2. status' \in [OfferIds -> Statuses \cup {None}]
  BY DEF IInv, TypeOK, SetStatus, SetBlocked, Tick, Statuses
<1>3. blocked' \subseteq Users
  BY DEF IInv, TypeOK, SetStatus, SetBlocked, Tick
<1>4. hour' \in Hours /\ events' \in 0..MaxEvents
  BY OfferConstants DEF IInv, TypeOK, SetStatus, SetBlocked, Tick, Hours
<1>5. TypeOK'
  BY <1>1, <1>2, <1>3, <1>4 DEF IInv, TypeOK
<1> QED
  BY <1>1, <1>5 DEF IInv, Rewarded, ReadActive, TaskLists

\* Each step keeps what the others rely on.
LEMMA NextInv == IInv /\ [Next]_vars => IInv'
<1> SUFFICES ASSUME IInv, [Next]_vars PROVE IInv'
  OBVIOUS
<1>1. CASE UNCHANGED vars
  BY <1>1 DEF vars, IInv, TypeOK, Rewarded, ReadActive, TaskLists
<1>2. ASSUME NEW e \in Ext, Start(e) PROVE IInv'
  BY <1>2, StartKeepsInv
<1>3. ASSUME NEW w \in Workers, NEW e \in Ext, Receive(w, e) PROVE IInv'
  BY <1>3, ReceiveKeepsInv
<1>4. ASSUME NEW w \in Workers, WorkerStep(w) \/ Fail(w) PROVE IInv'
  BY <1>4, EvaluateKeepsInv, RecordKeepsInv, AnswerKeepsInv DEF WorkerStep
<1>5. CASE TaskStep \/ TaskKilled
  BY <1>5, TaskKeepsInv
<1>6. CASE (\E o \in OfferIds : SetStatus(o)) \/ (\E u \in Users : SetBlocked(u)) \/ Tick
  BY <1>6, AdministrationKeepsInv
<1> QED
  BY <1>1, <1>2, <1>3, <1>4, <1>5, <1>6 DEF Next

LEMMA Invariant == Spec => []IInv
BY InitInv, NextInv, PTL DEF Spec

-----------------------------------------------------------------------------
(* Theorems                                                                *)

\* The state of the offers is well typed.
THEOREM TypeCorrect == Spec => []TypeOK
<1>1. IInv => TypeOK
  BY DEF IInv
<1> QED
  BY <1>1, Invariant, PTL

\* However often a conversion is reported, and whoever processes it at the
\* same time, it is rewarded once at most and for good: Offers implements
\* PayOnce.
THEOREM RewardedOnce == Spec => ImplementsPayOnce
<1>1. Init => Payments!Init
  BY DEF Init, Payments!Init
<1>2. IInv /\ [Next]_vars => [Payments!Next]_rewards
  <2> SUFFICES ASSUME IInv, [Next]_vars, rewards' # rewards PROVE Payments!Next
    OBVIOUS
  <2>1. PICK w \in Workers : Record(w)
    BY DEF Next, vars, Start, Receive, WorkerStep, Evaluate, RecordDuplicate, Fail, TaskStep,
           TaskReads, TaskSavesQuota, TaskResumes, TaskKilled, SetStatus, SetBlocked, Tick
  <2>2. PICK e \in Ext :
          /\ conversion[e] = None
          /\ rewards' = [rewards EXCEPT ![e] = rewards[e] + 1] \/ rewards' = rewards
    BY <2>1, RecordStep
  <2>3. rewards[e] = 0 /\ rewards' = [rewards EXCEPT ![e] = 1]
    BY <2>2 DEF IInv, Rewarded
  <2> QED
    BY <2>3 DEF Payments!Next, Payments!Credit
<1> QED
  BY <1>1, <1>2, Invariant, PTL DEF Spec, ImplementsPayOnce, Payments!Spec

\* A compliance stop ends by an administrator, a conversion that read the
\* offer as active or a run that listed it as paused: nothing that starts
\* after the stop undoes it.
THEOREM StopsHold == Spec => StopsUndoneOnlyByStaleReads
<1> DEFINE Undone(o) ==
      status[o] = "disabled_by_compliance" /\ status'[o] # "disabled_by_compliance"
    Explained(o) ==
      \/ SetStatus(o)
      \/ \E w \in Workers : /\ request[w] # None /\ request'[w] = None
                           /\ OfferOf[request[w].ext] = o /\ request[w].seen = "active"
      \/ task # None /\ task.seen[o] = "paused_by_quota"
<1>1. IInv /\ [Next]_vars => [\A o \in OfferIds : Undone(o) => Explained(o)]_vars
  <2> SUFFICES ASSUME IInv, Next, NEW o \in OfferIds, Undone(o) PROVE Explained(o)
    OBVIOUS
  <2>1. ASSUME NEW w \in Workers, Record(w) PROVE Explained(o)
    <3> DEFINE p == OfferOf[request[w].ext]
    <3>1. /\ request[w] \in Request /\ request[w].at = "evaluated"
          /\ request'[w] = None /\ request[w] # None
      BY <2>1, NullIsNoValue DEF Record, Answer, IInv, TypeOK
    <3>2. p \in OfferIds
      BY <3>1, OfferConstants DEF Request
    <3>3. p = o /\ request[w].approved
      <4>1. CASE request[w].approved
        BY <2>1, <3>2, <4>1, BumpType DEF Record, IInv
      <4>2. CASE ~request[w].approved
        <5>1. status' = [status EXCEPT ![p] = ReadStatus(p)]
          BY <2>1, <4>2 DEF Record
        <5> QED
          BY <3>2, <5>1, NullIsNoValue DEF IInv, TypeOK, ReadStatus, Statuses
      <4> QED
        BY <4>1, <4>2
    <3>4. request[w].seen = "active"
      BY <3>1, <3>3 DEF IInv, ReadActive
    <3> QED
      BY <3>1, <3>3, <3>4
  <2>2. CASE TaskResumes
    <3>1. task.next \in OfferIds
      BY <2>2 DEF TaskResumes, IInv, TypeOK, TaskRun
    <3>2. task.next = o /\ task.seen[o] = "paused_by_quota" /\ task # None
      BY <2>2, <3>1 DEF TaskResumes, IInv, TypeOK
    <3> QED
      BY <3>2
  <2>3. ASSUME NEW p \in OfferIds, SetStatus(p) PROVE Explained(o)
    <3>1. p = o
      BY <2>3 DEF SetStatus, IInv, TypeOK
    <3> QED
      BY <2>3, <3>1
  <2>4. CASE UNCHANGED status
    BY <2>4
  <2> QED
    BY <2>1, <2>2, <2>3, <2>4
    DEF Next, Start, Receive, WorkerStep, Evaluate, RecordDuplicate, Fail, TaskStep,
        TaskReads, TaskSavesQuota, TaskKilled, SetBlocked, Tick
<1> QED
  BY <1>1, Invariant, PTL DEF Spec, StopsUndoneOnlyByStaleReads

-----------------------------------------------------------------------------
(* What has been recorded                                                  *)

\* Only finitely many conversions are stored at any time, whatever the
\* provider may still report.
Stored == {e \in Ext : conversion[e] # None}

\* A request the engine let through.
Passed(w) == request[w] # None /\ request[w].at = "evaluated" /\ request[w].approved

\* A step that stores nothing and lets no request through.
Quiet ==
  /\ UNCHANGED <<conversion, rewards>>
  /\ \A w \in Workers : Passed(w)' => Passed(w) /\ request'[w] = request[w]

\* Only Record stores a conversion, and only Evaluate lets a request through.
LEMMA StepKinds ==
  ASSUME IInv, [Next]_vars
  PROVE  (\E w \in Workers : Record(w) \/ Evaluate(w)) \/ Quiet
<1>1. CASE UNCHANGED <<request, conversion, rewards>>
  BY <1>1 DEF Quiet, Passed
<1>2. ASSUME NEW v \in Workers, NEW e \in Ext, Receive(v, e) PROVE Quiet
  <2>1. PICK approved \in BOOLEAN :
          request' = [request EXCEPT ![v] =
            [at |-> "read", ext |-> e, approved |-> approved,
             made |-> status[OfferOf[e]] = None, seen |-> ReadStatus(OfferOf[e])]]
    BY <1>2 DEF Receive
  <2>2. request'[v].at = "read" /\ \A w \in Workers \ {v} : request'[w] = request[w]
    BY <2>1 DEF IInv, TypeOK
  <2> QED
    BY <1>2, <2>2 DEF Receive, Quiet, Passed
<1>3. ASSUME NEW v \in Workers, RecordDuplicate(v) \/ Fail(v) PROVE Quiet
  BY <1>3 DEF RecordDuplicate, Fail, Answer, IInv, TypeOK, Quiet, Passed
<1> QED
  BY <1>1, <1>2, <1>3
  DEF Next, vars, Start, WorkerStep, TaskStep, TaskReads, TaskSavesQuota, TaskResumes,
      TaskKilled, SetStatus, SetBlocked, Tick

\* What is stored stays finite.
LEMMA NextStored == IInv /\ IsFiniteSet(Stored) /\ [Next]_vars => IsFiniteSet(Stored)'
<1> SUFFICES ASSUME IInv, IsFiniteSet(Stored), [Next]_vars PROVE IsFiniteSet(Stored')
  OBVIOUS
<1>1. conversion' = conversion => Stored' = Stored
  BY DEF Stored
<1>2. ASSUME NEW w \in Workers, Record(w) PROVE IsFiniteSet(Stored')
  <2>1. PICK e \in Ext : \E row : conversion' = [conversion EXCEPT ![e] = row]
    BY <1>2, RecordStep
  <2>2. Stored' \subseteq Stored \cup {e}
    BY <2>1 DEF Stored, IInv, TypeOK
  <2>3. IsFiniteSet(Stored \cup {e})
    BY FS_AddElement
  <2> QED
    BY <2>2, <2>3, FS_Subset
<1>3. ASSUME NEW w \in Workers, Evaluate(w) PROVE IsFiniteSet(Stored')
  BY <1>1, <1>3 DEF Evaluate
<1> QED
  BY <1>1, <1>2, <1>3, StepKinds DEF Quiet

LEMMA StoredFinite == Spec => []IsFiniteSet(Stored)
<1>1. Init => IsFiniteSet(Stored)
  <2>1. Init => Stored = {}
    BY DEF Init, Stored
  <2> QED
    BY <2>1, FS_EmptySet
<1> QED
  BY <1>1, Invariant, NextStored, PTL DEF Spec

\* The counts the limits are compared with are numbers.
LEMMA Counts ==
  ASSUME IsFiniteSet(Stored), NEW S, S \subseteq Stored
  PROVE  IsFiniteSet(S) /\ Cardinality(S) \in Nat
<1>1. IsFiniteSet(S)
  BY FS_Subset
<1> QED
  BY <1>1, FS_CardinalityType

-----------------------------------------------------------------------------
(* Overshooting a limit                                                    *)

\* Who was let through was below the limit at the time, so the limit is not 0.
LimitInv ==
  /\ \A w \in Workers : Passed(w) => LifetimeLimit > 0
  /\ LimitOvershootBounded

\* Workers and requests in flight are finitely many.
LEMMA InFlightSize ==
  ASSUME NEW u, NEW o
  PROVE  /\ InFlight(u, o) \subseteq Workers /\ IsFiniteSet(InFlight(u, o))
         /\ Cardinality(InFlight(u, o)) \in Nat /\ Cardinality(Workers) \in Nat
         /\ Cardinality(InFlight(u, o)) <= Cardinality(Workers)
<1>1. InFlight(u, o) \subseteq Workers
  BY DEF InFlight
<1>2. IsFiniteSet(InFlight(u, o)) /\ Cardinality(InFlight(u, o)) <= Cardinality(Workers)
  BY <1>1, WorkersFinite, FS_Subset
<1> QED
  BY <1>1, <1>2, WorkersFinite, FS_CardinalityType

\* A step that neither stores nor lets through leaves fewer in flight, or as many.
LEMMA QuietKeepsLimit ==
  ASSUME IsFiniteSet(Stored), LimitInv, Quiet
  PROVE  LimitInv'
<1>1. (\A w \in Workers : Passed(w) => LifetimeLimit > 0)'
  BY DEF LimitInv, Quiet
<1>2. ASSUME NEW u \in Users, NEW o \in OfferIds, Completed(u, o)' # {}
      PROVE  Cardinality(Completed(u, o)') + Cardinality(InFlight(u, o)')
               <= LifetimeLimit + Cardinality(Workers) - 1
  <2>1. Completed(u, o)' = Completed(u, o)
    BY DEF Completed, Quiet
  <2>2. InFlight(u, o)' \subseteq InFlight(u, o)
    BY DEF InFlight, Quiet, Passed
  <2>3. Cardinality(InFlight(u, o)') <= Cardinality(InFlight(u, o))
        /\ Cardinality(InFlight(u, o)') \in Nat
    BY <2>2, InFlightSize, FS_Subset, FS_CardinalityType
  <2>4. Cardinality(Completed(u, o)) + Cardinality(InFlight(u, o))
          <= LifetimeLimit + Cardinality(Workers) - 1
    BY <1>2, <2>1 DEF LimitInv, LimitOvershootBounded
  <2>5. Cardinality(Completed(u, o)) \in Nat
    BY Counts DEF Completed, Stored
  <2> QED
    BY <2>1, <2>3, <2>4, <2>5, InFlightSize, OfferConstants
<1> QED
  BY <1>1, <1>2 DEF LimitInv, LimitOvershootBounded

\* Who is let through saw a count below the limit; all others in flight are
\* requests of other workers.
LEMMA EvaluateKeepsLimit ==
  ASSUME IInv, IsFiniteSet(Stored), LimitInv, NEW w \in Workers, Evaluate(w)
  PROVE  LimitInv'
<1> DEFINE old == request[w]
           p == UserOf[old.ext]
           b == OfferOf[old.ext]
<1>1. /\ old \in Request /\ old.at = "read"
      /\ conversion' = conversion
      /\ \A v \in Workers \ {w} : request'[v] = request[v]
      /\ request'[w].ext = old.ext
      /\ request'[w].approved => Eligible(p, b, old.seen)
  BY DEF Evaluate, IInv, TypeOK, Request
<1>2. Passed(w)' => Cardinality(Completed(p, b)) < LifetimeLimit
  BY <1>1 DEF Passed, Eligible
<1>3. Cardinality(Completed(p, b)) \in Nat
  BY Counts DEF Completed, Stored
<1>4. (\A v \in Workers : Passed(v) => LifetimeLimit > 0)'
  BY <1>1, <1>2, <1>3, OfferConstants DEF LimitInv, Passed
<1>5. ASSUME NEW u \in Users, NEW o \in OfferIds, Completed(u, o)' # {}
      PROVE  Cardinality(Completed(u, o)') + Cardinality(InFlight(u, o)')
               <= LifetimeLimit + Cardinality(Workers) - 1
  <2>1. Completed(u, o)' = Completed(u, o)
    BY <1>1 DEF Completed
  <2>2. Cardinality(Completed(u, o)) \in Nat
    BY Counts DEF Completed, Stored
  <2>3. InFlight(u, o)' \subseteq Workers
    BY DEF InFlight
  <2>4. Cardinality(InFlight(u, o)') \in Nat /\ Cardinality(Workers) \in Nat
        /\ Cardinality(InFlight(u, o)') <= Cardinality(Workers)
    BY <2>3, WorkersFinite, FS_Subset, FS_CardinalityType
  <2>5. CASE Passed(w)' /\ u = p /\ o = b
    BY <1>2, <2>1, <2>2, <2>4, <2>5, OfferConstants
  <2>6. CASE ~(Passed(w)' /\ u = p /\ o = b)
    <3>1. InFlight(u, o)' \subseteq InFlight(u, o)
      BY <1>1, <2>6 DEF InFlight, Passed
    <3>2. Cardinality(InFlight(u, o)') <= Cardinality(InFlight(u, o))
      BY <3>1, InFlightSize, FS_Subset
    <3>3. Cardinality(Completed(u, o)) + Cardinality(InFlight(u, o))
            <= LifetimeLimit + Cardinality(Workers) - 1
      BY <1>5, <2>1 DEF LimitInv, LimitOvershootBounded
    <3> QED
      BY <2>1, <2>2, <2>4, <3>2, <3>3, InFlightSize, OfferConstants
  <2> QED
    BY <2>5, <2>6
<1> QED
  BY <1>4, <1>5 DEF LimitInv, LimitOvershootBounded

\* A request in flight that is stored counts as completed instead.
LEMMA RecordKeepsLimit ==
  ASSUME IInv, IsFiniteSet(Stored), LimitInv, NEW w \in Workers, Record(w)
  PROVE  LimitInv'
<1>1. PICK e \in Ext, row \in ConversionRow :
        /\ request[w] \in Request /\ request[w].at = "evaluated" /\ e = request[w].ext
        /\ row.status = "approved" <=> request[w].approved
        /\ conversion[e] = None /\ conversion' = [conversion EXCEPT ![e] = row]
        /\ request' = [request EXCEPT ![w] = None]
  BY RecordStep
<1>2. /\ request'[w] = None /\ \A v \in Workers \ {w} : request'[v] = request[v]
      /\ conversion'[e] = row /\ \A x \in Ext \ {e} : conversion'[x] = conversion[x]
      /\ row # None /\ request[w] # None /\ row.status \in {"approved", "rejected"}
  BY <1>1, NullIsNoValue DEF IInv, TypeOK, ConversionRow
<1>3. (\A v \in Workers : Passed(v) => LifetimeLimit > 0)'
  BY <1>2 DEF LimitInv, Passed
<1>4. ASSUME NEW u \in Users, NEW o \in OfferIds, Completed(u, o)' # {}
      PROVE  Cardinality(Completed(u, o)') + Cardinality(InFlight(u, o)')
               <= LifetimeLimit + Cardinality(Workers) - 1
  <2>1. Cardinality(Completed(u, o)) \in Nat /\ IsFiniteSet(Completed(u, o))
    BY Counts DEF Completed, Stored
  <2>2. Completed(u, o) # {} =>
          Cardinality(Completed(u, o)) + Cardinality(InFlight(u, o))
            <= LifetimeLimit + Cardinality(Workers) - 1
    BY DEF LimitInv, LimitOvershootBounded
  <2>3. CASE Passed(w) /\ UserOf[e] = u /\ OfferOf[e] = o
    <3>1. Completed(u, o)' = Completed(u, o) \cup {e} /\ e \notin Completed(u, o)
      BY <1>1, <1>2, <2>3 DEF Completed, Passed
    <3>2. InFlight(u, o)' = InFlight(u, o) \ {w} /\ w \in InFlight(u, o)
      BY <1>1, <1>2, <2>3 DEF InFlight, Passed
    <3>3. Cardinality(Completed(u, o)') = Cardinality(Completed(u, o)) + 1
      BY <2>1, <3>1, FS_AddElement
    <3>4. Cardinality(InFlight(u, o)') = Cardinality(InFlight(u, o)) - 1
      BY <3>2, InFlightSize, FS_RemoveElement
    <3>5. LifetimeLimit > 0
      BY <2>3 DEF LimitInv
    <3>6. Completed(u, o) = {} => Cardinality(Completed(u, o)) = 0
      BY FS_EmptySet
    <3> QED
      BY <2>1, <2>2, <3>3, <3>4, <3>5, <3>6, InFlightSize, OfferConstants
  <2>4. CASE ~(Passed(w) /\ UserOf[e] = u /\ OfferOf[e] = o)
    <3>1. Completed(u, o)' = Completed(u, o)
      BY <1>1, <1>2, <2>4 DEF Completed, Passed
    <3>2. InFlight(u, o)' \subseteq InFlight(u, o)
      BY <1>2 DEF InFlight
    <3>3. /\ Cardinality(InFlight(u, o)') <= Cardinality(InFlight(u, o))
          /\ Cardinality(InFlight(u, o)') \in Nat
      BY <3>2, InFlightSize, FS_Subset, FS_CardinalityType
    <3> QED
      BY <1>4, <2>1, <2>2, <3>1, <3>3, InFlightSize, OfferConstants
  <2> QED
    BY <2>3, <2>4
<1> QED
  BY <1>3, <1>4 DEF LimitInv, LimitOvershootBounded

\* The lifetime limit is passed by no more than the requests that were
\* evaluated at the same time, however many there have been before.
THEOREM OvershootIsBounded == Spec => []LimitOvershootBounded
<1>1. Init => LimitInv
  BY DEF Init, LimitInv, LimitOvershootBounded, Passed, Completed
<1>2. IInv /\ IsFiniteSet(Stored) /\ LimitInv /\ [Next]_vars => LimitInv'
  BY StepKinds, QuietKeepsLimit, EvaluateKeepsLimit, RecordKeepsLimit
<1>3. LimitInv => LimitOvershootBounded
  BY DEF LimitInv
<1> QED
  BY <1>1, <1>2, <1>3, Invariant, StoredFinite, PTL DEF Spec

-----------------------------------------------------------------------------
(* Counters and the catalog                                                *)

\* A row claims no more than was approved for its offer.
Backed(q, o) ==
  q # None =>
    /\ q.lifetime <= Cardinality({e \in Ext : OfferOf[e] = o /\ rewards[e] > 0})
    /\ q.dayReset # None =>
         q.today <= Cardinality(ApprovedOn(o, {Day(q.dayReset)}))

\* So do the rows that a run of the task has read: what it writes back later is
\* old, and what was approved stays approved.
BackedInv ==
  /\ \A o \in OfferIds : Backed(quota[o], o)
  /\ task # None => \A o \in OfferIds : Backed(task.rows[o], o)

\* What was approved for an offer is stored, so it can be counted.
LEMMA ApprovedFinite ==
  ASSUME IInv, IsFiniteSet(Stored), NEW o, NEW D
  PROVE  /\ IsFiniteSet({e \in Ext : OfferOf[e] = o /\ rewards[e] > 0})
         /\ IsFiniteSet(ApprovedOn(o, D))
<1>1. {e \in Ext : OfferOf[e] = o /\ rewards[e] > 0} \subseteq Stored
  BY DEF IInv, Rewarded, Stored
<1>2. ApprovedOn(o, D) \subseteq Stored
  BY DEF ApprovedOn, Stored
<1> QED
  BY <1>1, <1>2, FS_Subset

\* No step takes a conversion or a reward away.
LEMMA NothingIsForgotten ==
  ASSUME IInv, [Next]_vars
  PROVE  \A e \in Ext : /\ conversion[e] # None => conversion'[e] = conversion[e]
                        /\ rewards[e] > 0 => rewards'[e] > 0
<1>1. ASSUME NEW w \in Workers, Record(w)
      PROVE  \A e \in Ext : /\ conversion[e] # None => conversion'[e] = conversion[e]
                            /\ rewards[e] > 0 => rewards'[e] > 0
  <2>1. PICK x \in Ext, row \in ConversionRow :
          /\ conversion[x] = None /\ conversion' = [conversion EXCEPT ![x] = row]
          /\ rewards' = IF row.status = "approved"
                        THEN [rewards EXCEPT ![x] = rewards[x] + 1] ELSE rewards
    BY <1>1, RecordStep
  <2>2. \A e \in Ext : rewards[e] \in Nat
    BY DEF IInv, TypeOK
  <2> QED
    BY <2>1, <2>2 DEF IInv, TypeOK
<1>2. ASSUME NEW w \in Workers, Evaluate(w)
      PROVE  UNCHANGED <<conversion, rewards>>
  BY <1>2 DEF Evaluate
<1> QED
  BY <1>1, <1>2, StepKinds DEF Quiet

\* A row that was backed stays backed.
LEMMA BackedForGood ==
  ASSUME IInv, IInv', IsFiniteSet(Stored), IsFiniteSet(Stored)', [Next]_vars,
         NEW o \in OfferIds, NEW q \in QuotaRow \cup {None}, Backed(q, o)
  PROVE  Backed(q, o)'
<1> SUFFICES ASSUME q # None
             PROVE  /\ q.lifetime <= Cardinality({e \in Ext : OfferOf[e] = o /\ rewards'[e] > 0})
                    /\ q.dayReset # None =>
                         q.today <= Cardinality(ApprovedOn(o, {Day(q.dayReset)})')
  BY DEF Backed
<1> DEFINE P == {e \in Ext : OfferOf[e] = o /\ rewards[e] > 0}
           Q == {e \in Ext : OfferOf[e] = o /\ rewards'[e] > 0}
           A == ApprovedOn(o, {Day(q.dayReset)})
           B == ApprovedOn(o, {Day(q.dayReset)})'
<1>1. P \subseteq Q /\ A \subseteq B
  BY NothingIsForgotten DEF ApprovedOn
<1>2. IsFiniteSet(P) /\ IsFiniteSet(A)
  BY ApprovedFinite
<1>3. IsFiniteSet(Q) /\ IsFiniteSet(B)
  <2>1. Q \subseteq Stored'
    BY DEF IInv, Rewarded, Stored
  <2>2. B \subseteq Stored'
    BY DEF ApprovedOn, Stored
  <2> QED
    BY <2>1, <2>2, FS_Subset
<1>4. q.lifetime <= Cardinality(P) /\ (q.dayReset # None => q.today <= Cardinality(A))
  BY DEF Backed
<1> HIDE DEF P, Q, A, B
<1>5. /\ Cardinality(P) <= Cardinality(Q) /\ Cardinality(A) <= Cardinality(B)
      /\ Cardinality(P) \in Nat /\ Cardinality(Q) \in Nat
      /\ Cardinality(A) \in Nat /\ Cardinality(B) \in Nat
  BY <1>1, <1>2, <1>3, FS_Subset, FS_CardinalityType
<1>6. q.lifetime \in Nat /\ q.today \in Nat
  BY DEF QuotaRow
<1>7. q.lifetime <= Cardinality(Q) /\ (q.dayReset # None => q.today <= Cardinality(B))
  BY <1>4, <1>5, <1>6
<1> QED
  BY <1>7 DEF Q, B

\* A row whose counters start again is backed.
LEMMA RolledBacked ==
  ASSUME IInv, IsFiniteSet(Stored), NEW o \in OfferIds, NEW q \in QuotaRow, Backed(q, o),
         NEW now \in Hours
  PROVE  /\ Backed(Rolled(q, now), o)
         /\ Rolled(q, now).lifetime = q.lifetime
         /\ Rolled(q, now).dayReset # None
         /\ Day(Rolled(q, now).dayReset) = Day(now)
<1> DEFINE hourOver == q.hourReset = None \/ now - q.hourReset >= 1
           dayOver  == q.dayReset = None \/ Day(q.dayReset) # Day(now)
           thisHour == IF hourOver THEN 0 ELSE q.thisHour
           hourReset == IF hourOver THEN now ELSE q.hourReset
           today == IF dayOver THEN 0 ELSE q.today
           dayReset == IF dayOver THEN now ELSE q.dayReset
           r == Rolled(q, now)
<1>0. q # None /\ now # None
  BY NullIsNoValue, OfferConstants DEF Hours
<1>1. /\ today = 0 \/ (q.dayReset # None /\ today = q.today /\ dayReset = q.dayReset)
      /\ dayReset # None /\ Day(dayReset) = Day(now)
  BY <1>0
<1>2. r = [q EXCEPT !.thisHour = thisHour, !.hourReset = hourReset,
                    !.today = today, !.dayReset = dayReset]
  BY DEF Rolled
<1> HIDE DEF thisHour, hourReset, today, dayReset
<1>3. r.lifetime = q.lifetime /\ r.today = today /\ r.dayReset = dayReset
  BY <1>2 DEF QuotaRow
<1>4. Cardinality(ApprovedOn(o, {Day(dayReset)})) \in Nat
  BY ApprovedFinite, FS_CardinalityType
<1>5. today <= Cardinality(ApprovedOn(o, {Day(dayReset)}))
  BY <1>0, <1>1, <1>4 DEF Backed
<1> QED
  BY <1>0, <1>1, <1>3, <1>5 DEF Backed

\* bump_quota counts the conversion that the same transaction stores.
LEMMA RecordKeepsBacked ==
  ASSUME IInv, IInv', IsFiniteSet(Stored), IsFiniteSet(Stored)', BackedInv,
         NEW w \in Workers, Record(w)
  PROVE  \A o \in OfferIds : Backed(quota[o], o)'
<1>0. PICK e \in Ext, row \in ConversionRow :
        /\ request[w] \in Request /\ e = request[w].ext
        /\ row.status = "approved" <=> request[w].approved
        /\ conversion[e] = None /\ conversion' = [conversion EXCEPT ![e] = row]
        /\ rewards' = IF row.status = "approved"
                      THEN [rewards EXCEPT ![e] = rewards[e] + 1] ELSE rewards
        /\ row.day = Day(hour)
  <2> DEFINE r == request[w]
             row == [status |-> IF r.approved THEN "approved" ELSE "rejected", day |-> Day(hour)]
  <2>1. r \in Request /\ r.ext \in Ext
    BY DEF Record, IInv, TypeOK, Request
  <2>2. row \in ConversionRow /\ (row.status = "approved" <=> r.approved) /\ row.day = Day(hour)
    BY <2>1 DEF ConversionRow, IInv, TypeOK
  <2>3. /\ conversion[r.ext] = None /\ conversion' = [conversion EXCEPT ![r.ext] = row]
        /\ rewards' = IF r.approved THEN [rewards EXCEPT ![r.ext] = rewards[r.ext] + 1] ELSE rewards
    BY DEF Record
  <2> HIDE DEF row
  <2> QED
    BY <2>1, <2>2, <2>3
<1> DEFINE b == OfferOf[e]
<1>1. b \in OfferIds
  BY OfferConstants
<1>2. [Next]_vars
  BY DEF Next, WorkerStep
<1>3. ASSUME NEW o \in OfferIds, quota'[o] = quota[o] PROVE Backed(quota[o], o)'
  <2>1. Backed(quota[o], o) /\ quota[o] \in QuotaRow \cup {None}
    BY DEF BackedInv, IInv, TypeOK
  <2>2. \A q \in QuotaRow \cup {None} : Backed(q, o) => Backed(q, o)'
    BY <1>2, BackedForGood
  <2>3. \A q : q = quota'[o] => (Backed(q, o)' <=> Backed(quota[o], o)')
    BY DEF Backed
  <2> QED
    BY <1>3, <2>1, <2>2, <2>3
<1>4. CASE ~request[w].approved
  BY <1>3, <1>4 DEF Record
<1>5. CASE request[w].approved
  <2> DEFINE old == IF quota[b] = None THEN NewQuota ELSE quota[b]
             q == Rolled(old, hour)
             today == q.today + 1
             thisHour == q.thisHour + 1
             lifetime == q.lifetime + 1
             n == [q EXCEPT !.today = today, !.thisHour = thisHour, !.lifetime = lifetime]
             P == {x \in Ext : OfferOf[x] = b /\ rewards[x] > 0}
             A == ApprovedOn(b, {Day(hour)})
  <2>1. quota' = [quota EXCEPT ![b] = n]
    BY <1>0, <1>5 DEF Record, Bump
  <2>2. IsFiniteSet(P) /\ IsFiniteSet(A) /\ Cardinality(P) \in Nat /\ Cardinality(A) \in Nat
    BY ApprovedFinite, FS_CardinalityType
  <2>3. old \in QuotaRow /\ Backed(old, b) /\ hour \in Hours
    <3>1. Backed(NewQuota, b)
      BY <2>2 DEF Backed, NewQuota
    <3> QED
      BY <1>1, <3>1, NewQuotaType DEF BackedInv, IInv, TypeOK
  <2> HIDE DEF old
  <2>4. /\ q \in QuotaRow /\ Backed(q, b)
        /\ q.dayReset # None /\ Day(q.dayReset) = Day(hour)
    BY <1>1, <2>3, RolledType, RolledBacked
  <2> HIDE DEF q
  <2>5. q # None /\ q.today \in Nat /\ q.lifetime \in Nat
    BY <2>4, NullIsNoValue DEF QuotaRow
  <2>6. q.lifetime <= Cardinality(P) /\ q.today <= Cardinality(A)
    BY <2>4, <2>5 DEF Backed
  <2>7. n.lifetime = q.lifetime + 1 /\ n.today = q.today + 1 /\ n.dayReset = q.dayReset
    BY <2>4 DEF QuotaRow
  <2> HIDE DEF n
  <2>8. rewards[e] = 0 /\ row # None /\ row.status = "approved"
    BY <1>0, <1>5, NullIsNoValue DEF IInv, Rewarded
  <2> DEFINE P2 == {x \in Ext : OfferOf[x] = b /\ rewards'[x] > 0}
             On(D) == {x \in Ext : /\ OfferOf[x] = b /\ conversion'[x] # None
                                   /\ conversion'[x].status = "approved"
                                   /\ conversion'[x].day \in D}
             A2 == On({Day(hour)})
  <2>9. P2 = P \cup {e} /\ e \notin P
    BY <1>0, <2>8 DEF IInv, TypeOK
  <2>10. A2 = A \cup {e} /\ e \notin A
    BY <1>0, <2>8 DEF ApprovedOn, IInv, TypeOK
  <2>11. quota'[b] = n /\ On({Day(n.dayReset)}) = A2
    <3>1. Day(n.dayReset) = Day(hour)
      BY <2>4, <2>7
    <3>2. quota'[b] = n
      BY <1>1, <2>1 DEF IInv, TypeOK
    <3> QED
      BY <3>1, <3>2
  <2>12. Backed(quota[b], b)'
    <3> HIDE DEF P, A, P2, A2, On
    <3>1. Cardinality(P2) = Cardinality(P) + 1 /\ Cardinality(A2) = Cardinality(A) + 1
      BY <2>2, <2>9, <2>10, FS_AddElement
    <3>2. n.lifetime <= Cardinality(P2) /\ n.today <= Cardinality(A2)
      BY <2>2, <2>5, <2>6, <2>7, <3>1
    <3>3. n.today <= Cardinality(On({Day(n.dayReset)}))
      BY <2>11, <3>2
    <3> QED
      BY <2>11, <3>2, <3>3 DEF Backed, ApprovedOn, P2, On
  <2>13. \A o \in OfferIds \ {b} : quota'[o] = quota[o]
    BY <1>1, <2>1 DEF IInv, TypeOK
  <2> QED
    BY <1>3, <2>12, <2>13
<1> QED
  BY <1>4, <1>5

\* The row of the task that is written back, with the resets, is backed.
LEMMA TaskSavesBacked ==
  ASSUME IInv, IsFiniteSet(Stored), BackedInv, NEW p \in OfferIds, TaskSavesQuota(p)
  PROVE  /\ \A o \in OfferIds : Backed(quota'[o], o)
         /\ \A o \in OfferIds : Backed(task'.rows[o], o)
<1> DEFINE row == Rolled(task.rows[p], task.now)
<1>1. task \in TaskRun /\ task.now \in Hours /\ task.rows[p] \in QuotaRow
  BY DEF TaskSavesQuota, IInv, TypeOK, TaskRun, TaskLists
<1>2. Backed(task.rows[p], p)
  BY DEF TaskSavesQuota, BackedInv
<1>3. Backed(row, p)
  BY <1>1, <1>2, RolledBacked
<1>4. /\ quota' = IF row # task.rows[p] THEN [quota EXCEPT ![p] = row] ELSE quota
      /\ task' = [task EXCEPT !.rows[p] = row, !.left = task.left \ {p}, !.next = p]
  BY DEF TaskSavesQuota
<1> HIDE DEF row
<1>5. task'.rows[p] = row /\ \A o \in OfferIds \ {p} : task'.rows[o] = task.rows[o]
  BY <1>1, <1>4 DEF TaskRun
<1>6. \A o \in OfferIds : quota'[o] = quota[o] \/ (o = p /\ quota'[o] = row)
  BY <1>4 DEF IInv, TypeOK
<1> QED
  BY <1>3, <1>5, <1>6 DEF BackedInv, TaskSavesQuota

\* Every step keeps the counters and the rows of the task backed.
LEMMA NextBacked ==
  IInv /\ IsFiniteSet(Stored) /\ BackedInv /\ IInv' /\ IsFiniteSet(Stored)' /\ [Next]_vars
    => BackedInv'
<1> SUFFICES ASSUME IInv, IInv', IsFiniteSet(Stored), IsFiniteSet(Stored)', BackedInv,
                    [Next]_vars
             PROVE  BackedInv'
  OBVIOUS
<1> DEFINE BackedNow(q, o) ==
             q # None =>
               /\ q.lifetime <= Cardinality({e \in Ext : OfferOf[e] = o /\ rewards'[e] > 0})
               /\ q.dayReset # None =>
                    q.today <= Cardinality({e \in Ext : /\ OfferOf[e] = o /\ conversion'[e] # None
                                                        /\ conversion'[e].status = "approved"
                                                        /\ conversion'[e].day \in {Day(q.dayReset)}})
<1>1. \A o \in OfferIds, q \in QuotaRow \cup {None} : Backed(q, o) => BackedNow(q, o)
  BY BackedForGood DEF Backed, ApprovedOn
<1>2. /\ \A o \in OfferIds : Backed(quota[o], o)' <=> BackedNow(quota'[o], o)
      /\ \A o \in OfferIds : Backed(task.rows[o], o)' <=> BackedNow(task'.rows[o], o)
  BY DEF Backed, ApprovedOn
<1>3. /\ \A o \in OfferIds : quota[o] \in QuotaRow \cup {None}
      /\ \A o \in OfferIds : quota'[o] \in QuotaRow \cup {None}
      /\ task # None => \A o \in OfferIds : task.rows[o] \in QuotaRow \cup {None}
      /\ task' # None => \A o \in OfferIds : task'.rows[o] \in QuotaRow \cup {None}
  BY DEF IInv, TypeOK, TaskRun
<1> HIDE DEF BackedNow
<1>4. \A o \in OfferIds : quota'[o] = quota[o] => BackedNow(quota'[o], o)
  BY <1>1, <1>3 DEF BackedInv
<1>5. task # None => \A o \in OfferIds : BackedNow(task.rows[o], o)
  BY <1>1, <1>3 DEF BackedInv
<1>6. SUFFICES /\ \A o \in OfferIds : BackedNow(quota'[o], o)
               /\ task' # None => \A o \in OfferIds : BackedNow(task'.rows[o], o)
  BY <1>2 DEF BackedInv
<1>7. ASSUME NEW w \in Workers, Record(w)
      PROVE  /\ \A o \in OfferIds : BackedNow(quota'[o], o)
             /\ task' = task
  BY <1>2, <1>7, RecordKeepsBacked DEF Record
<1>8. CASE TaskReads
  <2>1. task' # None => task'.rows = quota
    BY <1>8 DEF TaskReads
  <2> QED
    BY <1>1, <1>3, <1>4, <1>8, <2>1 DEF TaskReads, BackedInv
<1>9. ASSUME NEW p \in OfferIds, TaskSavesQuota(p)
      PROVE  /\ \A o \in OfferIds : BackedNow(quota'[o], o)
             /\ task' # None => \A o \in OfferIds : BackedNow(task'.rows[o], o)
  BY <1>1, <1>3, <1>9, TaskSavesBacked
<1>10. CASE TaskResumes
  <2>1. task' = None \/ task' = [task EXCEPT !.next = None]
    BY <1>10 DEF TaskResumes, AfterOffer
  <2>2. task \in TaskRun /\ task # None
    BY <1>10 DEF TaskResumes, IInv, TypeOK
  <2>3. task' # None => task'.rows = task.rows
    BY <2>1, <2>2 DEF TaskRun
  <2> QED
    BY <1>4, <1>5, <1>10, <2>2, <2>3 DEF TaskResumes
<1>11. CASE UNCHANGED quota /\ (task' = task \/ task' = None)
  BY <1>4, <1>5, <1>11
<1> QED
  BY <1>5, <1>7, <1>8, <1>9, <1>10, <1>11
  DEF Next, vars, Start, Receive, WorkerStep, Evaluate, RecordDuplicate, Fail, TaskStep,
      TaskKilled, SetStatus, SetBlocked, Tick

\* The larger of 0 and n.
LEMMA MaxOfZero ==
  ASSUME NEW n \in Int
  PROVE  n > 0 => Max({0, n}) > 0
<1>1. \E x \in {0, n} : \A y \in {0, n} : x >= y
  OBVIOUS
<1>2. Max({0, n}) \in {0, n} /\ \A y \in {0, n} : Max({0, n}) >= y
  BY <1>1 DEF Max
<1> QED
  BY <1>2

\* Whoever the eligibility engine accepts has something left of every limit.
LEMMA EligibleHasLeft ==
  ASSUME IInv, IsFiniteSet(Stored), NEW u \in Users, NEW o \in OfferIds, NEW seen,
         Eligible(u, o, seen)
  PROVE  CanComplete(u, o)
<1> DEFINE done == Cardinality(DoneToday(u, o))
           all  == Cardinality(Completed(u, o))
<1>1. done \in Nat /\ all \in Nat
  BY Counts DEF DoneToday, Completed, Stored
<1>2. DailyLimit - done \in Int /\ DailyLimit - done > 0
  BY <1>1, OfferConstants DEF Eligible
<1>3. LifetimeLimit - all \in Int /\ LifetimeLimit - all > 0
  BY <1>1, OfferConstants DEF Eligible
<1>4. ASSUME quota[o] # None, quota[o].capped, DailyCap[o] # None
      PROVE  DailyCap[o] - quota[o].today \in Int /\ DailyCap[o] - quota[o].today > 0
  <2>1. DailyCap[o] \in Nat /\ quota[o].today \in Nat
    BY <1>4, OfferConstants DEF IInv, TypeOK, QuotaRow
  <2> QED
    BY <1>4, <2>1 DEF Eligible, QuotaReached, Reached
<1> HIDE DEF done, all
<1>5. Max({0, DailyLimit - done}) > 0 /\ Max({0, LifetimeLimit - all}) > 0
  BY <1>2, <1>3, MaxOfZero
<1> DEFINE campaign == IF quota[o] = None \/ ~quota[o].capped \/ DailyCap[o] = None THEN None
                       ELSE Max({0, DailyCap[o] - quota[o].today})
<1>6. campaign # 0
  <2>1. CASE quota[o] = None \/ ~quota[o].capped \/ DailyCap[o] = None
    BY <2>1, OfferConstants
  <2>2. CASE ~(quota[o] = None \/ ~quota[o].capped \/ DailyCap[o] = None)
    <3>1. Max({0, DailyCap[o] - quota[o].today}) > 0
      BY <1>4, <2>2, MaxOfZero
    <3> QED
      BY <2>2, <3>1
  <2> QED
    BY <2>1, <2>2
<1> HIDE DEF campaign
<1>7. Remaining(u, o) = [daily |-> Max({0, DailyLimit - done}),
                         lifetime |-> Max({0, LifetimeLimit - all}),
                         campaign |-> campaign]
  BY DEF Remaining, done, all, campaign
<1> QED
  BY <1>5, <1>6, <1>7 DEF CanComplete

\* The campaigns stay sound: the counters of a quota never claim more than was
\* approved, not even after the task wrote back what it had read before, and the
\* catalog offers exactly what a click is accepted for.
THEOREM CampaignsAreSound == Spec => []CampaignsSound
<1>1. Init => BackedInv
  <2> SUFFICES ASSUME Init, NEW o \in OfferIds PROVE Backed(quota[o], o)
    BY DEF Init, BackedInv
  <2> DEFINE P == {e \in Ext : OfferOf[e] = o /\ rewards[e] > 0}
  <2>1. P = {}
    BY DEF Init
  <2>2. Cardinality(P) = 0
    BY <2>1, FS_EmptySet
  <2>3. quota[o] = None \/ (quota[o].lifetime = 0 /\ quota[o].dayReset = None)
    BY DEF Init, NewQuota
  <2> HIDE DEF P
  <2> QED
    BY <2>2, <2>3 DEF Backed, P
<1>2. BackedInv => CountersAreBacked
  BY DEF BackedInv, Backed, CountersAreBacked
<1>3. IInv /\ IsFiniteSet(Stored) => CatalogMatchesEligibility
  BY EligibleHasLeft DEF CatalogMatchesEligibility, Available
<1>4. IInv => TypeOK
  BY DEF IInv
<1> QED
  BY <1>1, <1>2, <1>3, <1>4, Invariant, StoredFinite, NextBacked, PTL
  DEF Spec, CampaignsSound
=============================================================================
