------------------------------- MODULE Offers -------------------------------
(***************************************************************************)
(* apps/offers: clicks, provider postbacks, the limits checked for them,   *)
(* campaign quotas and the task that resets them.                          *)
(*                                                                         *)
(* A postback is one database transaction (READ COMMITTED): it reads the   *)
(* conversion and the offer (Receive), then what the eligibility engine    *)
(* asks for (Evaluate), and then writes.  Everything from the insert of    *)
(* the conversion to the commit is one step (Record): it holds the unique  *)
(* key of the conversion and the row lock of the quota until the commit,   *)
(* so others that want either come before or after it, and readers see     *)
(* nothing of it.  The task commits each UPDATE on its own.                *)
(***************************************************************************)
EXTENDS Integers, FiniteSets, FiniteSetsExt

CONSTANTS
  Users,
  OfferIds,
  Ext,           \* external conversion ids, of one provider
  ByClick,       \* those reported under a click id; the others under a player id
  UserOf,        \* per external id: its user, None when the id is not one of ours
  OfferOf,       \* per external id: its offer
  Workers,       \* requests processed at the same time
  None,
  Served,        \* pairs of user and offer that pass the rules fixed by the offer:
                 \* expiry, incentive_allowed, countries, devices, systems
  Multiple,      \* multiple_completion_allowed
  DailyLimit, LifetimeLimit,   \* per user and offer
  DailyCap, HourlyCap,         \* daily_global_cap, hourly_cap per offer, or None
  CountryCap,                  \* per user: country_cap of the user's country, or None
  HoursPerDay,
  MaxHour,       \* bound on the clock
  MaxEvents      \* bound on failed requests, killed tasks and administrative changes

Hours == 0..MaxHour
Day(h) == h \div HoursPerDay

ASSUME OfferConstants ==
  /\ ByClick \subseteq Ext
  /\ UserOf \in [Ext -> Users \cup {None}] /\ OfferOf \in [Ext -> OfferIds]
  /\ Served \subseteq Users \X OfferIds /\ Multiple \in BOOLEAN
  /\ DailyLimit \in Nat /\ LifetimeLimit \in Nat
  /\ None \notin Nat
  /\ DailyCap \in [OfferIds -> Nat \cup {None}] /\ HourlyCap \in [OfferIds -> Nat \cup {None}]
  /\ CountryCap \in [Users -> Nat \cup {None}]
  /\ HoursPerDay \in Nat \ {0} /\ MaxHour \in Nat /\ MaxEvents \in Nat

ASSUME WorkersFinite == IsFiniteSet(Workers)

VARIABLES
  status,      \* Offer.status, None for an offer not known yet
  quota,       \* CampaignQuota rows, None where there is none
  clicked,     \* click ids recorded by record_click
  conversion,  \* OfferConversion rows, None where there is none
  rewards,     \* how many rewards were issued per external id
  blocked,     \* users with OFFERS_DISABLED, or a risk score of 51 or more
  request,     \* per worker: the postback it processes
  task,        \* the run of recalculate_campaign_quotas, None between runs
  hour,        \* the clock, in hours
  events

vars == <<status, quota, clicked, conversion, rewards, blocked, request, task, hour, events>>

Statuses == {"active", "paused", "expired", "paused_by_quota", "disabled_by_compliance"}

\* capped: the caps of the offer are set; a quota made by a conversion has none.
QuotaRow == [capped : BOOLEAN, today : Nat, thisHour : Nat, lifetime : Nat,
             dayReset : Hours \cup {None}, hourReset : Hours \cup {None}]

NewQuota == [capped |-> FALSE, today |-> 0, thisHour |-> 0, lifetime |-> 0,
             dayReset |-> None, hourReset |-> None]

ConversionRow == [status : {"approved", "rejected"}, day : {Day(h) : h \in Hours}]

\* approved: by the provider and, once evaluated, by the eligibility engine;
\* seen: the status of the offer when it was read; made: the offer is created by
\* this request, and not committed yet.
Request == [at : {"read", "evaluated"}, ext : Ext, approved : BOOLEAN,
            seen : Statuses, made : BOOLEAN]

\* A run keeps the rows it listed; left: quotas to recount, next: the offer of
\* the quota just saved.
TaskRun == [now : Hours, rows : [OfferIds -> QuotaRow \cup {None}],
            seen : [OfferIds -> Statuses \cup {None}],
            left : SUBSET OfferIds, next : OfferIds \cup {None}]

ASSUME NullIsNoValue ==
  /\ None \notin Statuses /\ None \notin QuotaRow /\ None \notin ConversionRow
  /\ None \notin Request /\ None \notin TaskRun /\ None \notin OfferIds

TypeOK ==
  /\ status \in [OfferIds -> Statuses \cup {None}]
  /\ quota \in [OfferIds -> QuotaRow \cup {None}]
  /\ clicked \subseteq ByClick
  /\ conversion \in [Ext -> ConversionRow \cup {None}]
  /\ rewards \in [Ext -> Nat]
  /\ blocked \subseteq Users
  /\ request \in [Workers -> Request \cup {None}]
  /\ task \in TaskRun \cup {None}
  /\ hour \in Hours /\ events \in 0..MaxEvents

\* Offers that were synchronised have a quota with the caps set for it; the
\* others are provisioned by the first postback that names them.
Init ==
  /\ status \in [OfferIds -> {"active", None}]
  /\ quota = [o \in OfferIds |-> IF status[o] = None THEN None
                             ELSE [NewQuota EXCEPT !.capped = TRUE]]
  /\ clicked = {}
  /\ conversion = [e \in Ext |-> None]
  /\ rewards = [e \in Ext |-> 0]
  /\ blocked = {}
  /\ request = [w \in Workers |-> None]
  /\ task = None
  /\ hour = 0 /\ events = 0

-----------------------------------------------------------------------------
(* Limits and eligibility                                                  *)

\* Faulty variant: only what was completed today is counted.
CompletedToday(u, o) ==
  {e \in Ext : /\ UserOf[e] = u /\ OfferOf[e] = o /\ conversion[e] # None
               /\ conversion[e].status # "rejected" /\ conversion[e].day = Day(hour)}

Completed(u, o) ==
  {e \in Ext : /\ UserOf[e] = u /\ OfferOf[e] = o
               /\ conversion[e] # None /\ conversion[e].status # "rejected"}

DoneToday(u, o) == {e \in Completed(u, o) : conversion[e].day = Day(hour)}

Reached(count, cap) == cap # None /\ count >= cap

\* The caps are compared with the counters as they are stored: a counter of
\* yesterday blocks until it is reset.
QuotaReached(u, o) ==
  /\ quota[o] # None /\ quota[o].capped
  /\ \/ Reached(quota[o].today, DailyCap[o])
     \/ Reached(quota[o].thisHour, HourlyCap[o])
     \/ Reached(quota[o].today, CountryCap[u])

\* Faulty variant: the status of the offer is not looked at.
EligibleWhateverStatus(u, o, seen) ==
  /\ u \notin blocked /\ <<u, o>> \in Served
  /\ ~QuotaReached(u, o)
  /\ Completed(u, o) # {} => Multiple
  /\ Cardinality(Completed(u, o)) < LifetimeLimit
  /\ Cardinality(DoneToday(u, o)) < DailyLimit

\* Faulty variant: the lifetime limit counts the completions of the day.
EligibleByDay(u, o, seen) ==
  /\ u \notin blocked /\ seen = "active" /\ <<u, o>> \in Served
  /\ ~QuotaReached(u, o)
  /\ Cardinality(CompletedToday(u, o)) < LifetimeLimit
  /\ Cardinality(CompletedToday(u, o)) < DailyLimit

\* evaluate_offer, of an offer whose status was read before.
Eligible(u, o, seen) ==
  /\ u \notin blocked /\ seen = "active" /\ <<u, o>> \in Served
  /\ ~QuotaReached(u, o)
  /\ Completed(u, o) # {} => Multiple
  /\ Cardinality(Completed(u, o)) < LifetimeLimit
  /\ Cardinality(DoneToday(u, o)) < DailyLimit

\* limit_status: what the user is told is left.
Remaining(u, o) ==
  [daily    |-> Max({0, DailyLimit - Cardinality(DoneToday(u, o))}),
   lifetime |-> Max({0, LifetimeLimit - Cardinality(Completed(u, o))}),
   campaign |-> IF quota[o] = None \/ ~quota[o].capped \/ DailyCap[o] = None THEN None
                ELSE Max({0, DailyCap[o] - quota[o].today})]

CanComplete(u, o) ==
  LET left == Remaining(u, o) IN left.daily > 0 /\ left.lifetime > 0 /\ left.campaign # 0

\* catalog_rows: the offers shown as available.
Available(u) ==
  {o \in OfferIds : Eligible(u, o, status[o]) /\ CanComplete(u, o)}

-----------------------------------------------------------------------------
(* Clicks and postbacks                                                    *)

RecordClick(e) == clicked' = clicked \cup {e}

\* OfferStartView: a click id is recorded only for an eligible user.
Start(e) ==
  /\ e \in ByClick \ clicked /\ UserOf[e] # None
  /\ status[OfferOf[e]] # None
  /\ Eligible(UserOf[e], OfferOf[e], status[OfferOf[e]])
  /\ RecordClick(e)
  /\ UNCHANGED <<status, quota, conversion, rewards, blocked, request, task, hour, events>>

KnownUser(e) == UserOf[e] # None /\ (e \in ByClick => e \in clicked)

\* uniq_offer_provider_external: a second creator waits for the first one.
BeingMade(o) ==
  \E w \in Workers : request[w] # None /\ request[w].made /\ OfferOf[request[w].ext] = o

\* An offer that is not known is provisioned, active.
ReadStatus(o) == IF status[o] = None THEN "active" ELSE status[o]

\* The provider reports e, now or again: the click's user and offer are read, or
\* the player's user and the offer the postback names, and from here on the
\* offer's status is the one read now.  A replay is answered with the
\* conversion there is; an unknown user, an invalid signature and a malformed
\* payload are logged and refused.
Receive(w, e) ==
  /\ request[w] = None
  /\ conversion[e] = None /\ KnownUser(e)
  /\ LET o == OfferOf[e]
     IN  /\ status[o] = None => ~BeingMade(o)
         /\ \E approved \in BOOLEAN :
              request' = [request EXCEPT ![w] =
                [at |-> "read", ext |-> e, approved |-> approved,
                 made |-> status[o] = None, seen |-> ReadStatus(o)]]
  /\ UNCHANGED <<status, quota, clicked, conversion, rewards, blocked, task, hour, events>>

Answer(w) == request' = [request EXCEPT ![w] = None]

\* evaluate_offer, with the counters and completions committed by now.
Evaluate(w) ==
  /\ request[w] # None /\ request[w].at = "read"
  /\ LET r == request[w]
     IN  request' = [request EXCEPT
           ![w].at = "evaluated",
           ![w].approved = r.approved /\ Eligible(UserOf[r.ext], OfferOf[r.ext], r.seen)]
  /\ UNCHANGED <<status, quota, clicked, conversion, rewards, blocked, task, hour, events>>

\* Counters whose hour or day is over start again.
Rolled(q, now) ==
  LET hourOver == q.hourReset = None \/ now - q.hourReset >= 1
      dayOver  == q.dayReset = None \/ Day(q.dayReset) # Day(now)
  IN  [q EXCEPT !.thisHour  = IF hourOver THEN 0 ELSE @,
                !.hourReset = IF hourOver THEN now ELSE @,
                !.today     = IF dayOver THEN 0 ELSE @,
                !.dayReset  = IF dayOver THEN now ELSE @]

\* Faulty variant: counted twice.
BumpTwice(o) ==
  LET q == Rolled(IF quota[o] = None THEN NewQuota ELSE quota[o], hour)
      n == [q EXCEPT !.today = @ + 2, !.thisHour = @ + 2, !.lifetime = @ + 2]
  IN  /\ quota' = [quota EXCEPT ![o] = n]
      /\ status' = [status EXCEPT ![o] =
           IF n.capped /\ Reached(n.today, DailyCap[o]) THEN "paused_by_quota" ELSE ReadStatus(o)]

\* bump_quota, under the row lock of the quota.  The offer's status is written
\* over whatever it is by now.
Bump(o) ==
  LET q == Rolled(IF quota[o] = None THEN NewQuota ELSE quota[o], hour)
      n == [q EXCEPT !.today = @ + 1, !.thisHour = @ + 1, !.lifetime = @ + 1]
  IN  /\ quota' = [quota EXCEPT ![o] = n]
      /\ status' = [status EXCEPT ![o] =
           IF n.capped /\ Reached(n.today, DailyCap[o]) THEN "paused_by_quota" ELSE ReadStatus(o)]

\* Faulty variant: no unique constraint, and no look at what was stored meanwhile.
RecordUnconstrained(w) ==
  /\ request[w] # None /\ request[w].at = "evaluated"
  /\ LET r == request[w]
     IN  /\ conversion' = [conversion EXCEPT ![r.ext] =
              [status |-> IF r.approved THEN "approved" ELSE "rejected", day |-> Day(hour)]]
         /\ IF r.approved THEN rewards' = [rewards EXCEPT ![r.ext] = @ + 1] /\ Bump(OfferOf[r.ext])
            ELSE UNCHANGED <<rewards, status, quota>>
  /\ Answer(w)
  /\ UNCHANGED <<clicked, blocked, task, hour, events>>

\* Faulty variant: what is not eligible is not stored.
RecordApproved(w) ==
  /\ request[w] # None /\ request[w].at = "evaluated"
  /\ LET r == request[w]
     IN  IF r.approved /\ conversion[r.ext] = None
         THEN /\ conversion' = [conversion EXCEPT ![r.ext] = [status |-> "approved", day |-> Day(hour)]]
              /\ rewards' = [rewards EXCEPT ![r.ext] = @ + 1]
              /\ Bump(OfferOf[r.ext])
         ELSE UNCHANGED <<conversion, rewards, status, quota>>
  /\ Answer(w)
  /\ UNCHANGED <<clicked, blocked, task, hour, events>>

\* From the insert to the commit: the conversion, its reward and the quota, or
\* a rejected conversion only.  An offer made by Receive is committed too.
Record(w) ==
  /\ request[w] # None /\ request[w].at = "evaluated"
  /\ LET r == request[w]
         o == OfferOf[r.ext]
     IN  /\ conversion[r.ext] = None
         /\ conversion' = [conversion EXCEPT ![r.ext] =
              [status |-> IF r.approved THEN "approved" ELSE "rejected", day |-> Day(hour)]]
         /\ IF r.approved
            THEN rewards' = [rewards EXCEPT ![r.ext] = @ + 1] /\ Bump(o)
            ELSE /\ status' = [status EXCEPT ![o] = ReadStatus(o)]
                 /\ UNCHANGED <<rewards, quota>>
  /\ Answer(w)
  /\ UNCHANGED <<clicked, blocked, task, hour, events>>

\* uniq_conversion_provider_external: the other delivery came first, the insert
\* fails and the request is undone.
RecordDuplicate(w) ==
  /\ request[w] # None /\ request[w].at = "evaluated"
  /\ conversion[request[w].ext] # None
  /\ Answer(w)
  /\ UNCHANGED <<status, quota, clicked, conversion, rewards, blocked, task, hour, events>>

\* An exception, a deadlock or a lost worker: nothing of the request remains.
Fail(w) ==
  /\ request[w] # None /\ events < MaxEvents
  /\ Answer(w)
  /\ events' = events + 1
  /\ UNCHANGED <<status, quota, clicked, conversion, rewards, blocked, task, hour>>

-----------------------------------------------------------------------------
(* recalculate_campaign_quotas                                             *)

TaskReads ==
  /\ task = None /\ \E o \in OfferIds : quota[o] # None
  /\ task' = [now |-> hour, rows |-> quota, seen |-> status,
              left |-> {o \in OfferIds : quota[o] # None}, next |-> None]
  /\ UNCHANGED <<status, quota, clicked, conversion, rewards, blocked, request, hour, events>>

\* quota.save() writes every field as it was read, with the resets.
TaskSavesQuota(o) ==
  /\ task # None /\ task.next = None /\ o \in task.left
  /\ LET row == Rolled(task.rows[o], task.now)
     IN  /\ quota' = IF row # task.rows[o] THEN [quota EXCEPT ![o] = row] ELSE quota
         /\ task' = [task EXCEPT !.rows[o] = row, !.left = @ \ {o}, !.next = o]
  /\ UNCHANGED <<status, clicked, conversion, rewards, blocked, request, hour, events>>

AfterOffer == IF task.left = {} THEN None ELSE [task EXCEPT !.next = None]

\* Faulty variant: an offer is resumed only with a quota that was never used.
TaskResumesUnused ==
  /\ task # None /\ task.next # None
  /\ LET o == task.next
     IN  status' = IF task.seen[o] = "paused_by_quota" /\ task.rows[o].lifetime = 0
                   THEN [status EXCEPT ![o] = "active"] ELSE status
  /\ task' = AfterOffer
  /\ UNCHANGED <<quota, clicked, conversion, rewards, blocked, request, hour, events>>

\* offer.save() of an offer that was listed as paused; the run ends after the
\* last offer.
TaskResumes ==
  /\ task # None /\ task.next # None
  /\ LET o == task.next
         q == task.rows[o]
         resumes == /\ task.seen[o] = "paused_by_quota"
                    /\ q.capped => /\ ~Reached(q.today, DailyCap[o])
                                   /\ ~Reached(q.thisHour, HourlyCap[o])
     IN  status' = IF resumes THEN [status EXCEPT ![o] = "active"] ELSE status
  /\ task' = AfterOffer
  /\ UNCHANGED <<quota, clicked, conversion, rewards, blocked, request, hour, events>>

\* The worker is lost; the next run starts from the rows as they are.
TaskKilled ==
  /\ task # None /\ events < MaxEvents
  /\ task' = None
  /\ events' = events + 1
  /\ UNCHANGED <<status, quota, clicked, conversion, rewards, blocked, request, hour>>

-----------------------------------------------------------------------------
(* Administration and time                                                 *)

\* The offer form and the automation actions disable_offer and enable_offer.
SetStatus(o) ==
  /\ status[o] # None
  /\ \E s \in {"active", "paused", "disabled_by_compliance"} \ {status[o]} :
       status' = [status EXCEPT ![o] = s]
  /\ events < MaxEvents /\ events' = events + 1
  /\ UNCHANGED <<quota, clicked, conversion, rewards, blocked, request, task, hour>>

\* A restriction or a risk score comes or goes.
SetBlocked(u) ==
  /\ blocked' = IF u \in blocked THEN blocked \ {u} ELSE blocked \cup {u}
  /\ events < MaxEvents /\ events' = events + 1
  /\ UNCHANGED <<status, quota, clicked, conversion, rewards, request, task, hour>>

Tick ==
  /\ hour < MaxHour
  /\ hour' = hour + 1
  /\ UNCHANGED <<status, quota, clicked, conversion, rewards, blocked, request, task, events>>

WorkerStep(w) ==
  Evaluate(w) \/ Record(w) \/ RecordDuplicate(w)

TaskStep ==
  TaskReads \/ (\E o \in OfferIds : TaskSavesQuota(o)) \/ TaskResumes

Next ==
  \/ \E e \in Ext : Start(e)
  \/ \E w \in Workers, e \in Ext : Receive(w, e)
  \/ \E w \in Workers : WorkerStep(w) \/ Fail(w)
  \/ TaskStep \/ TaskKilled
  \/ \E o \in OfferIds : SetStatus(o)
  \/ \E u \in Users : SetBlocked(u)
  \/ Tick

\* Requests run to their end, the beat starts the task again and again, and the
\* provider repeats a report until it has been recorded.
Fairness ==
  /\ \A w \in Workers : WF_vars(WorkerStep(w))
  /\ WF_vars(TaskStep) /\ WF_vars(Tick)
  /\ \A e \in Ext : SF_vars(conversion[e] = None /\ \E w \in Workers : Receive(w, e))

Spec == Init /\ [][Next]_vars

FairSpec == Spec /\ Fairness

-----------------------------------------------------------------------------
(* Properties                                                              *)

Payments == INSTANCE PayOnce WITH Events <- Ext, credited <- rewards

\* However often a conversion is reported, and by whom it is processed at the
\* same time, it is rewarded at most once and the reward stays (O6).
ImplementsPayOnce == Payments!Spec

InFlight(u, o) ==
  {w \in Workers : /\ request[w] # None /\ request[w].at = "evaluated" /\ request[w].approved
                   /\ UserOf[request[w].ext] = u /\ OfferOf[request[w].ext] = o}

\* Completions are counted without a lock: requests evaluated together may pass
\* the lifetime limit, but by no more than there are workers beside the first.
LimitOvershootBounded ==
  \A u \in Users, o \in OfferIds : Completed(u, o) # {} =>
    Cardinality(Completed(u, o)) + Cardinality(InFlight(u, o))
      <= LifetimeLimit + Cardinality(Workers) - 1

ApprovedOn(o, days) ==
  {e \in Ext : /\ OfferOf[e] = o /\ conversion[e] # None
               /\ conversion[e].status = "approved" /\ conversion[e].day \in days}

\* The counters of a quota never claim more than was approved, even where a run
\* of the task writes back counters it read before a reset or a conversion: a
\* campaign is not closed for conversions that did not happen.
CountersAreBacked ==
  \A o \in OfferIds : quota[o] # None =>
    /\ quota[o].lifetime <= Cardinality({e \in Ext : OfferOf[e] = o /\ rewards[e] > 0})
    /\ quota[o].dayReset # None =>
         quota[o].today <= Cardinality(ApprovedOn(o, {Day(quota[o].dayReset)}))

\* The catalog shows as available exactly what a click would be accepted for:
\* limit_status never contradicts the eligibility engine.
CatalogMatchesEligibility ==
  \A u \in Users : Available(u) = {o \in OfferIds : Eligible(u, o, status[o])}

\* A compliance stop is undone only by an administrator, by a conversion that
\* read the offer while it was active, or by a run of the task that read it
\* paused: never by what starts after the stop.
StopsUndoneOnlyByStaleReads ==
  [][\A o \in OfferIds :
       status[o] = "disabled_by_compliance" /\ status'[o] # "disabled_by_compliance" =>
         \/ SetStatus(o)
         \/ \E w \in Workers : /\ request[w] # None /\ request'[w] = None
                              /\ OfferOf[request[w].ext] = o /\ request[w].seen = "active"
         \/ task # None /\ task.seen[o] = "paused_by_quota"]_vars

\* What the campaigns keep true: types, counters, and the catalog.
CampaignsSound == TypeOK /\ CountersAreBacked /\ CatalogMatchesEligibility

FullNow(o) ==
  /\ quota[o] # None /\ quota[o].capped
  /\ \/ quota[o].dayReset # None /\ Day(quota[o].dayReset) = Day(hour) /\ Reached(quota[o].today, DailyCap[o])
     \/ quota[o].hourReset = hour /\ Reached(quota[o].thisHour, HourlyCap[o])

\* An offer paused for its quota is resumed once the cap has room again (O4),
\* although runs of the task are killed and work on rows read earlier.
QuotaPauseEnds ==
  \A o \in OfferIds :
    status[o] = "paused_by_quota" ~> (status[o] # "paused_by_quota" \/ FullNow(o))

\* A report of a known player that the provider repeats is recorded in the end,
\* although requests fail, collide and are undone.
ReportsAreRecorded ==
  \A e \in Ext \ ByClick : UserOf[e] # None => <>(conversion[e] # None)
=============================================================================
