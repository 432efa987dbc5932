--------------------------- MODULE PlatformProofs ---------------------------
(***************************************************************************)
(* Theorems about what the platform runs on, for any processes, users,     *)
(* rules and bounds: each part is proved on its own, and a behaviour of    *)
(* Platform is a behaviour of every part.                                  *)
(***************************************************************************)
EXTENDS Platform, FiniteSetTheorems, SequenceTheorems, WellFoundedInduction, TLAPS

-----------------------------------------------------------------------------
(* Surveys                                                                 *)

SessionRow == [user : Users, survey : SurveyIds, status : V!SessionStatuses]
CompletionRow == [user : Users, session : Nat, status : {"approved", "rejected"}]

-----------------------------------------------------------------------------
(* The newest of some sessions                                             *)

\* Some sessions of n have a newest one.
LEMMA GreatestExists ==
  ASSUME NEW n \in Nat, NEW X \in SUBSET (1..n), X # {}
  PROVE  \E i \in X : \A j \in X : j <= i
<1> DEFINE R == OpToRel(<, Nat)
           Y == {n - i : i \in X}
<1> HIDE DEF R
<1>1. Y \subseteq Nat /\ Y # {}
  <2>1. \A i \in X : n - i \in Nat
    OBVIOUS
  <2> QED
    BY <2>1, Zenon
<1>2. IsWellFoundedOn(R, Nat)
  BY NatLessThanWellFounded DEF R
<1> HIDE DEF Y
<1>3. PICK x \in Y : \A y \in Y : ~ (<<y, x>> \in R)
  BY <1>1, <1>2, WFMin
<1>4. \A y \in Y : ~ (y < x)
  BY <1>1, <1>3 DEF OpToRel, R
<1>5. PICK i \in X : x = n - i
  BY DEF Y
<1>6. ASSUME NEW j \in X PROVE j <= i
  <2>1. n - j \in Y
    BY DEF Y
  <2> QED
    BY <1>4, <1>5, <2>1
<1> QED
  BY <1>6

LEMMA NewestIsOne ==
  ASSUME NEW n \in Nat, NEW X \in SUBSET (1..n), X # {}
  PROVE  V!Newest(X) \in X
<1>1. \E i \in X : \A j \in X : j <= i
  BY GreatestExists
<1> QED
  BY <1>1 DEF V!Newest

-----------------------------------------------------------------------------
(* The inductive invariant                                                 *)

SurveyTypes ==
  /\ sessions \in Seq(SessionRow)
  /\ finished \in [Completions -> {None} \union V!Known]
  /\ rows \in [Completions -> {None} \union CompletionRow]
  /\ credited \in [Completions -> Nat]
  /\ report \in [Workers -> [completion : Completions \union {None}, session : Nat]]

\* What is known of completion c goes with session i.
Fits(c, i) ==
  /\ i \in DOMAIN sessions
  /\ finished[c] # None
  /\ sessions[i].survey = finished[c].survey

\* A completion is credited once if it has an approved entry, and otherwise not.
RowIsCredit ==
  \A c \in Completions :
    credited[c] = IF rows[c] # None /\ rows[c].status = "approved" THEN 1 ELSE 0

\* A entry is what was made of a session that fits.
RowsFit ==
  \A c \in Completions : rows[c] # None =>
    /\ Fits(c, rows[c].session)
    /\ rows[c].user = sessions[rows[c].session].user
    /\ rows[c].status = "approved" <=> finished[c].approved

\* A report is handled with a session that fits, although by the time it is
\* recorded the session may be closed and the survey paused.
CallsFit ==
  \A w \in Workers : report[w] # V!Idle =>
    report[w].completion \in Completions /\ Fits(report[w].completion, report[w].session)

SurveyInv == SurveyTypes /\ RowIsCredit /\ RowsFit /\ CallsFit

LEMMA SurveyInit == V!Init => SurveyInv
<1> SUFFICES ASSUME V!Init PROVE SurveyInv
  OBVIOUS
<1>1. V!Idle \in [completion : Completions \union {None}, session : Nat]
  BY DEF V!Idle
<1> QED
  BY <1>1 DEF V!Init, SurveyInv, SurveyTypes, RowIsCredit, RowsFit, CallsFit

\* Sessions are only ever appended, or change their status, and what the
\* provider knows stays: what fitted still fits.
LEMMA FitsStays ==
  ASSUME SurveyInv,
         \A i \in DOMAIN sessions : /\ i \in DOMAIN sessions'
                                    /\ sessions'[i].user = sessions[i].user
                                    /\ sessions'[i].survey = sessions[i].survey,
         \A c \in Completions : finished[c] # None => finished'[c] = finished[c],
         NEW c \in Completions, NEW i, Fits(c, i)
  PROVE  Fits(c, i)' /\ sessions'[i].user = sessions[i].user /\ finished'[c] = finished[c]
BY DEF Fits

\* Nothing is recorded, no call begins.
LEMMA QuietStep ==
  ASSUME SurveyInv, SurveyTypes',
         \A i \in DOMAIN sessions : /\ i \in DOMAIN sessions'
                                    /\ sessions'[i].user = sessions[i].user
                                    /\ sessions'[i].survey = sessions[i].survey,
         \A c \in Completions : finished[c] # None => finished'[c] = finished[c],
         UNCHANGED <<rows, credited>>,
         \A w \in Workers : report'[w] \in {report[w], V!Idle}
  PROVE  SurveyInv'
<1>1. RowIsCredit'
  BY DEF SurveyInv, RowIsCredit
<1>2. RowsFit'
  <2> SUFFICES ASSUME NEW c \in Completions, rows[c] # None
               PROVE  /\ Fits(c, rows[c].session)'
                      /\ rows[c].user = sessions'[rows[c].session].user
                      /\ rows[c].status = "approved" <=> finished'[c].approved
    BY DEF RowsFit, Fits
  <2>1. /\ Fits(c, rows[c].session)
        /\ rows[c].user = sessions[rows[c].session].user
        /\ rows[c].status = "approved" <=> finished[c].approved
    BY DEF SurveyInv, RowsFit
  <2> QED
    BY <2>1 DEF Fits
<1>3. CallsFit'
  <2> SUFFICES ASSUME NEW w \in Workers, report'[w] # V!Idle
               PROVE  /\ report'[w].completion \in Completions
                      /\ Fits(report[w].completion, report[w].session)'
                      /\ report'[w] = report[w]
    BY DEF CallsFit, Fits, V!Idle
  <2>1. report'[w] = report[w]
    OBVIOUS
  <2>2. report[w].completion \in Completions /\ Fits(report[w].completion, report[w].session)
    BY <2>1 DEF SurveyInv, CallsFit
  <2> QED
    BY <2>1, <2>2, FitsStays
<1> QED
  BY <1>1, <1>2, <1>3 DEF SurveyInv

-----------------------------------------------------------------------------
(* The steps                                                               *)

LEMMA StartKeepsInv ==
  ASSUME SurveyInv, NEW u \in Users, NEW s \in SurveyIds, V!Start(u, s)
  PROVE  SurveyInv'
<1> DEFINE new == [user |-> u, survey |-> s, status |-> "started"]
<1>1. new \in SessionRow
  BY DEF SessionRow, V!SessionStatuses
<1>2. /\ sessions' = Append(sessions, new)
      /\ UNCHANGED <<finished, rows, credited, report>>
  BY DEF V!Start
<1> HIDE DEF new
<1>3. sessions \in Seq(SessionRow)
  BY DEF SurveyInv, SurveyTypes
<1>4. sessions' \in Seq(SessionRow) /\ \A i \in DOMAIN sessions :
        i \in DOMAIN sessions' /\ sessions'[i] = sessions[i]
  BY <1>1, <1>2, <1>3
<1>5. SurveyTypes'
  BY <1>2, <1>4 DEF SurveyInv, SurveyTypes
<1> QED
  BY <1>2, <1>4, <1>5, QuietStep

LEMMA FinishKeepsInv ==
  ASSUME SurveyInv, NEW c \in Completions, NEW i \in DOMAIN sessions, NEW b \in BOOLEAN,
         V!Finish(c, i, b)
  PROVE  SurveyInv'
<1> DEFINE new == [user |-> sessions[i].user, survey |-> sessions[i].survey, approved |-> b]
<1>1. sessions[i] \in SessionRow
  BY DEF SurveyInv, SurveyTypes
<1>2. new \in V!Known
  BY <1>1 DEF SessionRow, V!Known
<1>3. /\ finished[c] = None /\ finished' = [finished EXCEPT ![c] = new]
      /\ UNCHANGED <<sessions, rows, credited, report>>
  BY DEF V!Finish
<1> HIDE DEF new
<1>4. SurveyTypes'
  BY <1>2, <1>3 DEF SurveyInv, SurveyTypes
<1>5. \A x \in Completions : finished[x] # None => finished'[x] = finished[x]
  BY <1>3 DEF SurveyInv, SurveyTypes
<1> QED
  BY <1>3, <1>4, <1>5, QuietStep

LEMMA ReceiveKeepsInv ==
  ASSUME SurveyInv, NEW w \in Workers, NEW c \in Completions, V!Receive(w, c)
  PROVE  SurveyInv'
<1>1. CASE rows[c] # None \/ V!Matching(c) = {}
  <2>1. UNCHANGED <<sessions, finished, rows, credited, report>>
    BY <1>1 DEF V!Receive
  <2> QED
    BY <2>1, QuietStep DEF SurveyInv, SurveyTypes
<1>2. CASE ~ (rows[c] # None \/ V!Matching(c) = {})
  <2> DEFINE held == [completion |-> c, session |-> V!Newest(V!Matching(c))]
  <2>1. /\ finished[c] # None
        /\ report' = [report EXCEPT ![w] = held]
        /\ UNCHANGED <<sessions, finished, rows, credited>>
    BY <1>2 DEF V!Receive
  <2>2. V!Newest(V!Matching(c)) \in V!Matching(c)
    <3>1. Len(sessions) \in Nat /\ V!Matching(c) \in SUBSET (1..Len(sessions))
      BY DEF V!Matching, SurveyInv, SurveyTypes
    <3> QED
      BY <1>2, <3>1, NewestIsOne
  <2>3. Fits(c, V!Newest(V!Matching(c))) /\ V!Newest(V!Matching(c)) \in Nat
    BY <2>1, <2>2 DEF V!Matching, Fits, SurveyInv, SurveyTypes
  <2>4. held \in [completion : Completions \union {None}, session : Nat]
        /\ held.completion = c /\ held.session = V!Newest(V!Matching(c))
    BY <2>3
  <2> HIDE DEF held
  <2>5. SurveyTypes'
    BY <2>1, <2>4 DEF SurveyInv, SurveyTypes
  <2>6. CallsFit'
    <3> SUFFICES ASSUME NEW x \in Workers, report'[x] # V!Idle
                 PROVE  /\ report'[x].completion \in Completions
                        /\ Fits(report'[x].completion, report'[x].session)
      BY <2>1 DEF CallsFit, Fits, V!Idle
    <3>1. report'[x] = IF x = w THEN held ELSE report[x]
      BY <2>1 DEF SurveyInv, SurveyTypes
    <3> QED
      BY <2>3, <2>4, <3>1 DEF SurveyInv, CallsFit
  <2> QED
    BY <2>1, <2>5, <2>6 DEF SurveyInv, RowIsCredit, RowsFit, Fits
<1> QED
  BY <1>1, <1>2

\* What Record does to a completion without a entry, in terms of the invariant.
LEMMA RecordStep ==
  ASSUME SurveyInv, NEW w \in Workers, V!Record(w)
  PROVE  \E c \in Completions, i \in DOMAIN sessions,
            entry \in CompletionRow, status \in V!SessionStatuses :
           /\ Fits(c, i) /\ rows[c] = None /\ credited[c] = 0
           /\ entry.user = sessions[i].user /\ entry.session = i
           /\ entry.status = "approved" <=> finished[c].approved
           /\ rows' = [rows EXCEPT ![c] = entry]
           /\ credited' = [credited EXCEPT ![c] = IF finished[c].approved THEN 1 ELSE 0]
           /\ sessions' = [sessions EXCEPT ![i].status = status]
           /\ report' = [report EXCEPT ![w] = V!Idle]
           /\ finished' = finished
<1> DEFINE c == report[w].completion
           i == report[w].session
           entry == [user |-> sessions[i].user, session |-> i, status |-> V!Outcome(c)]
<1>1. c \in Completions /\ Fits(c, i)
  BY DEF V!Record, SurveyInv, CallsFit
<1>2. i \in DOMAIN sessions /\ i \in Nat /\ sessions[i] \in SessionRow
  BY <1>1 DEF Fits, SurveyInv, SurveyTypes
<1>3. V!Outcome(c) \in {"approved", "rejected"} /\ V!Closing(c) \in V!SessionStatuses
      /\ (V!Outcome(c) = "approved" <=> finished[c].approved)
  BY DEF V!Outcome, V!Closing, V!SessionStatuses
<1>4. entry \in CompletionRow /\ entry.user = sessions[i].user /\ entry.session = i
      /\ entry.status = V!Outcome(c)
  BY <1>2, <1>3 DEF CompletionRow, SessionRow
<1>5. rows[c] = None /\ credited[c] = 0
  BY <1>1 DEF V!Record, SurveyInv, RowIsCredit
<1>6. /\ rows' = [rows EXCEPT ![c] = entry]
      /\ credited' = [credited EXCEPT ![c] = IF finished[c].approved THEN credited[c] + 1
                                             ELSE credited[c]]
      /\ sessions' = [sessions EXCEPT ![i].status = V!Closing(c)]
      /\ report' = [report EXCEPT ![w] = V!Idle]
      /\ finished' = finished
  BY DEF V!Record
<1> HIDE DEF c, i, entry
<1>7. credited' = [credited EXCEPT ![c] = IF finished[c].approved THEN 1 ELSE 0]
  BY <1>5, <1>6
<1> QED
  BY <1>1, <1>2, <1>3, <1>4, <1>5, <1>6, <1>7

LEMMA RecordKeepsInv ==
  ASSUME SurveyInv, NEW w \in Workers, V!Record(w)
  PROVE  SurveyInv'
<1>1. PICK c \in Completions, i \in DOMAIN sessions,
           entry \in CompletionRow, status \in V!SessionStatuses :
           /\ Fits(c, i) /\ rows[c] = None /\ credited[c] = 0
           /\ entry.user = sessions[i].user /\ entry.session = i
           /\ entry.status = "approved" <=> finished[c].approved
           /\ rows' = [rows EXCEPT ![c] = entry]
           /\ credited' = [credited EXCEPT ![c] = IF finished[c].approved THEN 1 ELSE 0]
           /\ sessions' = [sessions EXCEPT ![i].status = status]
           /\ report' = [report EXCEPT ![w] = V!Idle]
           /\ finished' = finished
  BY RecordStep
<1>2. sessions \in Seq(SessionRow) /\ i \in 1..Len(sessions)
  BY DEF SurveyInv, SurveyTypes
<1> DEFINE new == [sessions[i] EXCEPT !.status = status]
<1>3. /\ sessions[i] \in SessionRow /\ new \in SessionRow
      /\ new.user = sessions[i].user /\ new.survey = sessions[i].survey
      /\ sessions' = [sessions EXCEPT ![i] = new]
  <2>1. sessions[i] \in SessionRow
    BY <1>2
  <2>2. new \in SessionRow /\ new.user = sessions[i].user /\ new.survey = sessions[i].survey
    BY <2>1 DEF SessionRow
  <2>3. sessions' = [sessions EXCEPT ![i] = new]
    BY <1>1
  <2> QED
    BY <2>1, <2>2, <2>3
<1> HIDE DEF new
<1>4. sessions' \in Seq(SessionRow)
      /\ \A x \in DOMAIN sessions : /\ x \in DOMAIN sessions'
                                    /\ sessions'[x].user = sessions[x].user
                                    /\ sessions'[x].survey = sessions[x].survey
  BY <1>2, <1>3
<1>5. SurveyTypes'
  <2>1. V!Idle \in [completion : Completions \union {None}, session : Nat]
    BY DEF V!Idle
  <2> QED
    BY <1>1, <1>4, <2>1 DEF SurveyInv, SurveyTypes
<1>6. RowIsCredit'
  <2> SUFFICES ASSUME NEW x \in Completions
               PROVE  credited'[x] = IF rows'[x] # None /\ rows'[x].status = "approved"
                                     THEN 1 ELSE 0
    BY DEF RowIsCredit
  <2>1. CASE x = c
    <3>1. rows'[x] = entry /\ entry # None
          /\ credited'[x] = IF finished[c].approved THEN 1 ELSE 0
      BY <1>1, <2>1, SurveyConstants DEF SurveyInv, SurveyTypes, CompletionRow
    <3> QED
      BY <1>1, <3>1
  <2>2. CASE x # c
    <3>1. rows'[x] = rows[x] /\ credited'[x] = credited[x]
      BY <1>1, <2>2 DEF SurveyInv, SurveyTypes
    <3> QED
      BY <3>1 DEF SurveyInv, RowIsCredit
  <2> QED
    BY <2>1, <2>2
<1>7. RowsFit'
  <2> SUFFICES ASSUME NEW x \in Completions, rows'[x] # None
               PROVE  /\ Fits(x, rows[x].session)'
                      /\ rows'[x].user = sessions'[rows'[x].session].user
                      /\ rows'[x].status = "approved" <=> finished[x].approved
    BY <1>1 DEF RowsFit, Fits
  <2>1. CASE x = c
    <3>1. rows'[x] = entry
      BY <1>1, <2>1 DEF SurveyInv, SurveyTypes
    <3> QED
      BY <1>1, <1>4, <2>1, <3>1 DEF Fits
  <2>2. CASE x # c
    <3>1. rows'[x] = rows[x]
      BY <1>1, <2>2 DEF SurveyInv, SurveyTypes
    <3>2. /\ Fits(x, rows[x].session)
          /\ rows[x].user = sessions[rows[x].session].user
          /\ rows[x].status = "approved" <=> finished[x].approved
      BY <3>1 DEF SurveyInv, RowsFit
    <3> QED
      BY <1>1, <1>4, <3>1, <3>2 DEF Fits
  <2> QED
    BY <2>1, <2>2
<1>8. CallsFit'
  <2> SUFFICES ASSUME NEW x \in Workers, report'[x] # V!Idle
               PROVE  /\ report'[x].completion \in Completions
                      /\ Fits(report[x].completion, report[x].session)'
    BY DEF CallsFit, Fits, V!Idle
  <2>1. report'[x] = report[x]
    BY <1>1 DEF SurveyInv, SurveyTypes
  <2>2. report[x].completion \in Completions /\ Fits(report[x].completion, report[x].session)
    BY <2>1 DEF SurveyInv, CallsFit
  <2> QED
    BY <1>1, <1>4, <2>1, <2>2 DEF Fits
<1> QED
  BY <1>5, <1>6, <1>7, <1>8 DEF SurveyInv

LEMMA SurveyNext == SurveyInv /\ [V!Next]_(V!vars) => SurveyInv'
<1> SUFFICES ASSUME SurveyInv, [V!Next]_(V!vars) PROVE SurveyInv'
  OBVIOUS
<1>1. ASSUME UNCHANGED <<sessions, finished, rows, credited>>,
             \/ report' = report
             \/ \E w \in Workers : report' = [report EXCEPT ![w] = V!Idle]
      PROVE  SurveyInv'
  <2>1. V!Idle \in [completion : Completions \union {None}, session : Nat]
    BY DEF V!Idle
  <2>2. SurveyTypes'
    BY <1>1, <2>1 DEF SurveyInv, SurveyTypes
  <2>3. \A w \in Workers : report'[w] \in {report[w], V!Idle}
    BY <1>1 DEF SurveyInv, SurveyTypes
  <2> QED
    BY <1>1, <2>2, <2>3, QuietStep
<1>2. CASE UNCHANGED V!vars
  BY <1>1, <1>2 DEF V!vars
<1>3. ASSUME NEW s \in SurveyIds, V!Toggle(s) PROVE SurveyInv'
  BY <1>1, <1>3 DEF V!Toggle
<1>4. ASSUME NEW w \in Workers, V!Fail(w) PROVE SurveyInv'
  BY <1>1, <1>4 DEF V!Fail
<1> QED
  BY <1>2, <1>3, <1>4, StartKeepsInv, FinishKeepsInv, ReceiveKeepsInv, RecordKeepsInv DEF V!Next

LEMMA SurveyInvariant == V!Spec => []SurveyInv
BY SurveyInit, SurveyNext, PTL DEF V!Spec

-----------------------------------------------------------------------------
(* Theorems                                                                *)

\* However often and by however many requests a completion is reported, it is
\* credited once at most: Surveys implements PayOnce.
THEOREM CreditedOnce == V!Spec => V!ImplementsPayOnce
<1>1. V!Init => V!Abstract!Init
  BY DEF V!Init, V!Abstract!Init
<1>2. SurveyInv /\ [V!Next]_(V!vars) => [V!Abstract!Next]_credited
  <2> SUFFICES ASSUME SurveyInv, [V!Next]_(V!vars), credited' # credited PROVE V!Abstract!Next
    OBVIOUS
  <2>1. PICK w \in Workers : V!Record(w)
    BY DEF V!Next, V!vars, V!Start, V!Toggle, V!Finish, V!Receive, V!Fail
  <2>2. PICK c \in Completions :
          /\ credited[c] = 0
          /\ credited' = [credited EXCEPT ![c] = IF finished[c].approved THEN 1 ELSE 0]
    BY <2>1, RecordStep
  <2>3. credited' = [credited EXCEPT ![c] = 1]
    <3>1. ~ finished[c].approved => credited' = credited
      BY <2>2 DEF SurveyInv, SurveyTypes
    <3> QED
      BY <2>2, <3>1
  <2> QED
    BY <2>2, <2>3 DEF V!Abstract!Next, V!Abstract!Credit
<1> QED
  BY <1>1, <1>2, SurveyInvariant, PTL DEF V!Spec, V!ImplementsPayOnce, V!Abstract!Spec

\* What is credited was completed at the provider, and goes to a user who had
\* started that survey.
THEOREM CreditIsEarned == V!Spec => []V!CreditGoesToAStarter
<1>1. SurveyInv => V!CreditGoesToAStarter
  <2> SUFFICES ASSUME SurveyInv, NEW c \in Completions, credited[c] > 0
               PROVE  /\ finished[c].approved /\ rows[c].status = "approved"
                      /\ sessions[rows[c].session].survey = finished[c].survey
                      /\ sessions[rows[c].session].user = rows[c].user
    BY DEF V!CreditGoesToAStarter
  <2>1. rows[c] # None /\ rows[c].status = "approved"
    BY DEF SurveyInv, RowIsCredit
  <2> QED
    BY <2>1 DEF SurveyInv, RowsFit, Fits
<1> QED
  BY <1>1, SurveyInvariant, PTL

-----------------------------------------------------------------------------
(* How often a session is used                                             *)

\* The library's operators are those of the surveys as well.
LEMMA SameSurveyCount == \A X : V!Cardinality(X) = Cardinality(X)
BY DEF V!Cardinality, Cardinality

\* Completions recorded with session i, and requests about to record one.
UsedFor(i) == {c \in Completions : rows[c] # None /\ rows[c].session = i}
UsedBy(i) == {w \in Workers : report[w] # V!Idle /\ report[w].session = i}

\* Only an open session is picked, and one that is open has not been used: the
\* requests that use it have all picked it before the first of them recorded.
UseInv ==
  /\ reports \in 0..MaxReports /\ Len(sessions) <= MaxSessions
  /\ \A w \in Workers : report[w] = V!Idle \/ report[w].session \in DOMAIN sessions
  /\ \A i \in DOMAIN sessions :
       /\ sessions[i].status = "started" => UsedFor(i) = {}
       /\ IsFiniteSet(UsedFor(i))
       /\ Cardinality(UsedFor(i)) + Cardinality(UsedBy(i)) <= Cardinality(Workers)

\* A session that nothing was recorded with is within its bound.
LEMMA UnusedIsBounded ==
  ASSUME NEW X, X = {}, NEW Y \in SUBSET Workers
  PROVE  IsFiniteSet(X) /\ Cardinality(X) + Cardinality(Y) <= Cardinality(Workers)
<1>1. Cardinality(Y) <= Cardinality(Workers) /\ Cardinality(Y) \in Nat
  BY FS_Subset, FS_CardinalityType, SurveyConstants
<1> QED
  BY <1>1, FS_EmptySet

\* Nothing is recorded, and no request picks a session that has been used.
LEMMA QuietUse ==
  ASSUME SurveyInv, UseInv, SurveyInv',
         reports' \in 0..MaxReports, Len(sessions') <= MaxSessions,
         \A i \in DOMAIN sessions' : i \in DOMAIN sessions => sessions'[i].status = sessions[i].status,
         rows' = rows,
         \A w \in Workers : \/ report'[w] \in {report[w], V!Idle}
                            \/ /\ report'[w].session \in DOMAIN sessions
                               /\ sessions[report'[w].session].status = "started"
  PROVE  UseInv'
<1>1. \A w \in Workers : report'[w] = V!Idle \/ report'[w].session \in DOMAIN sessions'
  BY DEF SurveyInv, CallsFit, Fits
<1>2. ASSUME NEW i \in DOMAIN sessions'
      PROVE  /\ sessions'[i].status = "started" => UsedFor(i)' = {}
             /\ IsFiniteSet(UsedFor(i)')
             /\ Cardinality(UsedFor(i)') + Cardinality(UsedBy(i)') <= Cardinality(Workers)
  <2>1. UsedFor(i)' = UsedFor(i) /\ UsedBy(i)' \in SUBSET Workers
    BY DEF UsedFor, UsedBy
  <2>2. i \notin DOMAIN sessions => UsedFor(i) = {}
    BY DEF UsedFor, SurveyInv, RowsFit, Fits
  <2>3. CASE UsedFor(i) = {}
    BY <2>1, <2>3, UnusedIsBounded
  <2>4. CASE UsedFor(i) # {}
    <3>1. i \in DOMAIN sessions /\ sessions[i].status # "started"
      BY <2>2, <2>4 DEF UseInv
    <3>2. UsedBy(i)' \in SUBSET UsedBy(i)
      BY <3>1 DEF UsedBy
    <3>3. IsFiniteSet(UsedBy(i))
      BY FS_Subset, SurveyConstants DEF UsedBy
    <3>4. Cardinality(UsedBy(i)') <= Cardinality(UsedBy(i))
          /\ Cardinality(UsedBy(i)') \in Nat /\ Cardinality(UsedBy(i)) \in Nat
      BY <3>2, <3>3, FS_Subset, FS_CardinalityType
    <3>5. IsFiniteSet(UsedFor(i))
          /\ Cardinality(UsedFor(i)) + Cardinality(UsedBy(i)) <= Cardinality(Workers)
      BY <3>1 DEF UseInv
    <3>6. Cardinality(UsedFor(i)) \in Nat /\ Cardinality(Workers) \in Nat
      BY <3>5, FS_CardinalityType, SurveyConstants
    <3> QED
      BY <2>1, <3>1, <3>4, <3>5, <3>6
  <2> QED
    BY <2>3, <2>4
<1> QED
  BY <1>1, <1>2 DEF UseInv, UsedFor, UsedBy

LEMMA RecordKeepsUse ==
  ASSUME SurveyInv, UseInv, NEW w \in Workers, V!Record(w)
  PROVE  UseInv'
<1>1. PICK c \in Completions, n \in DOMAIN sessions :
        /\ c = report[w].completion /\ n = report[w].session
        /\ rows[c] = None /\ report[w] # V!Idle
  BY DEF V!Record, SurveyInv, CallsFit, Fits
<1> DEFINE entry == [user |-> sessions[n].user, session |-> n, status |-> V!Outcome(c)]
<1>2. sessions \in Seq(SessionRow) /\ n \in 1..Len(sessions)
  BY <1>1 DEF SurveyInv, SurveyTypes
<1>3. /\ rows' = [rows EXCEPT ![c] = entry]
      /\ sessions' = [sessions EXCEPT ![n].status = V!Closing(c)]
      /\ report' = [report EXCEPT ![w] = V!Idle]
      /\ reports' = reports
  BY <1>1 DEF V!Record
<1>4. entry # None /\ entry.session = n
  <2>1. V!Outcome(c) \in {"approved", "rejected"} /\ sessions[n].user \in Users /\ n \in Nat
    <3>1. sessions[n] \in SessionRow /\ n \in Nat
      BY <1>2
    <3>2. V!Outcome(c) \in {"approved", "rejected"}
      BY DEF V!Outcome
    <3> QED
      BY <3>1, <3>2 DEF SessionRow
  <2> QED
    BY <2>1, SurveyConstants
<1>5. V!Closing(c) # "started"
  BY DEF V!Closing
<1> DEFINE closed == [sessions[n] EXCEPT !.status = V!Closing(c)]
<1>6. sessions' = [sessions EXCEPT ![n] = closed] /\ closed.status = V!Closing(c)
  <2>1. sessions[n] \in SessionRow
    BY <1>2
  <2> QED
    BY <1>3, <2>1 DEF SessionRow
<1> HIDE DEF entry, closed
<1>7. Len(sessions') = Len(sessions) /\ DOMAIN sessions' = DOMAIN sessions
      /\ sessions'[n].status # "started"
      /\ \A i \in DOMAIN sessions : i # n => sessions'[i] = sessions[i]
  BY <1>2, <1>5, <1>6
<1>8. rows \in [Completions -> {None} \union CompletionRow]
      /\ report \in [Workers -> [completion : Completions \union {None}, session : Nat]]
  BY DEF SurveyInv, SurveyTypes
<1>9. UsedFor(n)' = UsedFor(n) \cup {c}
  <2>1. \A x \in Completions : rows'[x] = IF x = c THEN entry ELSE rows[x]
    BY <1>3, <1>8
  <2>2. \A x \in Completions : rows'[x] # None /\ rows'[x].session = n <=>
                               (rows[x] # None /\ rows[x].session = n) \/ x = c
    BY <1>4, <2>1
  <2>3. UsedFor(n)' = {x \in Completions : rows'[x] # None /\ rows'[x].session = n}
    BY DEF UsedFor
  <2> QED
    BY <1>1, <2>2, <2>3 DEF UsedFor
<1>10. UsedBy(n)' = UsedBy(n) \ {w} /\ w \in UsedBy(n)
  <2>1. \A x \in Workers : report'[x] = IF x = w THEN V!Idle ELSE report[x]
    BY <1>3, <1>8
  <2>2. UsedBy(n)' = {x \in Workers : report'[x] # V!Idle /\ report'[x].session = n}
    BY DEF UsedBy
  <2> QED
    BY <1>1, <2>1, <2>2 DEF UsedBy
<1>11. c \notin UsedFor(n)
  BY <1>1 DEF UsedFor
<1>12. \A i : i # n => UsedFor(i)' = UsedFor(i) /\ UsedBy(i)' = UsedBy(i)
  <2>1. ASSUME NEW i, i # n PROVE UsedFor(i)' = UsedFor(i)
    BY <1>1, <1>3, <1>4, <1>8, <2>1 DEF UsedFor
  <2>2. ASSUME NEW i, i # n PROVE UsedBy(i)' = UsedBy(i)
    BY <1>1, <1>3, <1>8, <2>2 DEF UsedBy
  <2> QED
    BY <2>1, <2>2
<1>13. IsFiniteSet(UsedFor(n)')
       /\ Cardinality(UsedFor(n)') + Cardinality(UsedBy(n)') <= Cardinality(Workers)
  <2>1. IsFiniteSet(UsedBy(n))
    BY FS_Subset, SurveyConstants DEF UsedBy
  <2>2. IsFiniteSet(UsedFor(n))
        /\ Cardinality(UsedFor(n)) + Cardinality(UsedBy(n)) <= Cardinality(Workers)
    BY <1>1 DEF UseInv
  <2>3. Cardinality(UsedFor(n)') = Cardinality(UsedFor(n)) + 1 /\ IsFiniteSet(UsedFor(n)')
    BY <1>9, <1>11, <2>2, FS_AddElement
  <2>4. Cardinality(UsedBy(n)') = Cardinality(UsedBy(n)) - 1
    BY <1>10, <2>1, FS_RemoveElement
  <2>5. Cardinality(UsedFor(n)) \in Nat /\ Cardinality(UsedBy(n)) \in Nat
        /\ Cardinality(Workers) \in Nat
    BY <2>1, <2>2, FS_CardinalityType, SurveyConstants
  <2> QED
    BY <2>2, <2>3, <2>4, <2>5
<1>14. ASSUME NEW i \in DOMAIN sessions'
       PROVE  /\ sessions'[i].status = "started" => UsedFor(i)' = {}
              /\ IsFiniteSet(UsedFor(i)')
              /\ Cardinality(UsedFor(i)') + Cardinality(UsedBy(i)') <= Cardinality(Workers)
  <2>1. CASE i = n
    BY ONLY <1>7, <1>13, <2>1
  <2>2. CASE i # n
    <3>1. UsedFor(i)' = UsedFor(i) /\ UsedBy(i)' = UsedBy(i)
          /\ i \in DOMAIN sessions /\ sessions'[i] = sessions[i]
      BY <1>7, <1>12, <2>2
    <3>2. /\ sessions[i].status = "started" => UsedFor(i) = {}
          /\ IsFiniteSet(UsedFor(i))
          /\ Cardinality(UsedFor(i)) + Cardinality(UsedBy(i)) <= Cardinality(Workers)
      BY <3>1 DEF UseInv
    <3> QED
      BY <3>1, <3>2
  <2> QED
    BY <2>1, <2>2
<1>15. \A x \in Workers : report'[x] = V!Idle \/ report'[x].session \in DOMAIN sessions'
  BY <1>3, <1>7, <1>8 DEF UseInv
<1>16. reports' \in 0..MaxReports /\ Len(sessions') <= MaxSessions
  BY <1>3, <1>7 DEF UseInv
<1> QED
  BY <1>14, <1>15, <1>16 DEF UseInv, UsedFor, UsedBy

LEMMA UseInit == V!Init => UseInv
<1> SUFFICES ASSUME V!Init PROVE UseInv
  OBVIOUS
<1>1. sessions = << >> /\ reports = 0 /\ \A w \in Workers : report[w] = V!Idle
  BY DEF V!Init
<1> QED
  BY <1>1, SurveyConstants DEF UseInv

LEMMA UseNext == SurveyInv /\ UseInv /\ [V!Next]_(V!vars) => UseInv'
<1> SUFFICES ASSUME SurveyInv, UseInv, [V!Next]_(V!vars) PROVE UseInv'
  OBVIOUS
<1> USE DEF SurveyInv
<1>1. SurveyInv' /\ sessions \in Seq(SessionRow) /\ reports \in 0..MaxReports
      /\ Len(sessions) <= MaxSessions
      /\ report \in [Workers -> [completion : Completions \union {None}, session : Nat]]
  BY SurveyNext DEF SurveyTypes, UseInv
<1>2. ASSUME UNCHANGED <<sessions, rows, report, reports>> PROVE UseInv'
  <2>1. \A i \in DOMAIN sessions' : sessions'[i].status = sessions[i].status
    BY <1>2
  <2>2. \A w \in Workers : report'[w] \in {report[w], V!Idle}
    BY <1>2
  <2> QED
    BY <1>1, <1>2, <2>1, <2>2, QuietUse
<1>3. ASSUME NEW u \in Users, NEW s \in SurveyIds, V!Start(u, s) PROVE UseInv'
  <2> DEFINE new == [user |-> u, survey |-> s, status |-> "started"]
  <2>1. /\ sessions' = Append(sessions, new) /\ Len(sessions) < MaxSessions
        /\ UNCHANGED <<rows, report, reports>>
    BY <1>3 DEF V!Start
  <2> HIDE DEF new
  <2>2. Len(sessions') <= MaxSessions
    BY <1>1, <2>1, SurveyConstants
  <2>3. \A i \in DOMAIN sessions : sessions'[i].status = sessions[i].status
    BY <1>1, <2>1
  <2>4. \A w \in Workers : report'[w] \in {report[w], V!Idle}
    BY <2>1
  <2> QED
    BY <1>1, <2>1, <2>2, <2>3, <2>4, QuietUse
<1>4. ASSUME NEW w \in Workers, NEW c \in Completions, V!Receive(w, c) PROVE UseInv'
  <2>1. UNCHANGED <<sessions, rows>> /\ reports' = reports + 1 /\ reports < MaxReports
    BY <1>4 DEF V!Receive
  <2>2. reports' \in 0..MaxReports /\ Len(sessions') <= MaxSessions
        /\ \A i \in DOMAIN sessions' : sessions'[i].status = sessions[i].status
    BY <1>1, <2>1, SurveyConstants
  <2>3. ASSUME NEW x \in Workers
        PROVE  \/ report'[x] \in {report[x], V!Idle}
               \/ /\ report'[x].session \in DOMAIN sessions
                  /\ sessions[report'[x].session].status = "started"
    <3>1. CASE rows[c] # None \/ V!Matching(c) = {}
      BY <1>4, <3>1 DEF V!Receive
    <3>2. CASE ~ (rows[c] # None \/ V!Matching(c) = {})
      <4>1. report' = [report EXCEPT ![w] = [completion |-> c, session |-> V!Newest(V!Matching(c))]]
        BY <1>4, <3>2 DEF V!Receive
      <4>2. V!Newest(V!Matching(c)) \in V!Matching(c)
        <5>1. Len(sessions) \in Nat /\ V!Matching(c) \in SUBSET (1..Len(sessions))
          BY <1>1 DEF V!Matching
        <5> QED
          BY <3>2, <5>1, NewestIsOne
      <4>3. report'[x] = report[x] \/ report'[x].session = V!Newest(V!Matching(c))
        BY <1>1, <4>1
      <4> QED
        BY <4>2, <4>3 DEF V!Matching
    <3> QED
      BY <3>1, <3>2
  <2> QED
    BY <1>1, <2>1, <2>2, <2>3, QuietUse
<1>5. ASSUME NEW w \in Workers, V!Fail(w) PROVE UseInv'
  <2>1. UNCHANGED <<sessions, rows, reports>> /\ report' = [report EXCEPT ![w] = V!Idle]
    BY <1>5 DEF V!Fail
  <2>2. \A x \in Workers : report'[x] \in {report[x], V!Idle}
    BY <1>1, <2>1
  <2>3. \A i \in DOMAIN sessions' : sessions'[i].status = sessions[i].status
    BY <2>1
  <2> QED
    BY <1>1, <2>1, <2>2, <2>3, QuietUse
<1>6. CASE UNCHANGED V!vars
  BY <1>2, <1>6 DEF V!vars
<1>7. ASSUME NEW s \in SurveyIds, V!Toggle(s) PROVE UseInv'
  BY <1>2, <1>7 DEF V!Toggle
<1>8. ASSUME NEW c \in Completions, NEW i \in DOMAIN sessions, NEW b \in BOOLEAN, V!Finish(c, i, b)
      PROVE  UseInv'
  BY <1>2, <1>8 DEF V!Finish
<1> QED
  BY <1>3, <1>4, <1>5, <1>6, <1>7, <1>8, RecordKeepsUse DEF V!Next

\* A session is used for no more completions than there are workers, and all
\* that CreditIsEarned says, in every state of the surveys.
THEOREM SurveysAreSound == V!Spec => []V!SurveysSound
<1>1. V!Init => offered \subseteq SurveyIds
  BY DEF V!Init
<1>2. offered \subseteq SurveyIds /\ [V!Next]_(V!vars) => (offered \subseteq SurveyIds)'
  BY DEF V!Next, V!vars, V!Start, V!Toggle, V!Finish, V!Receive, V!Record, V!Fail
<1>3. SurveyInv /\ UseInv /\ offered \subseteq SurveyIds => V!TypeOK
  <2> SUFFICES ASSUME SurveyInv, UseInv, offered \subseteq SurveyIds PROVE V!TypeOK
    OBVIOUS
  <2>1. sessions \in Seq(SessionRow) /\ finished \in [Completions -> {None} \union V!Known]
        /\ rows \in [Completions -> {None} \union CompletionRow]
        /\ credited \in [Completions -> Nat]
        /\ report \in [Workers -> [completion : Completions \union {None}, session : Nat]]
        /\ reports \in 0..MaxReports /\ Len(sessions) <= MaxSessions
    BY DEF SurveyInv, SurveyTypes, UseInv
  <2>2. \A i \in DOMAIN sessions : i \in 1..MaxSessions
                                   /\ sessions[i] \in SessionRow
    BY <2>1, SurveyConstants
  <2>3. \A c \in Completions : rows[c] \in {None} \union
          [user : Users, session : 1..MaxSessions, status : {"approved", "rejected"}]
    <3> SUFFICES ASSUME NEW c \in Completions, rows[c] # None
                 PROVE  rows[c] \in [user : Users, session : 1..MaxSessions,
                                     status : {"approved", "rejected"}]
      OBVIOUS
    <3>1. rows[c] \in CompletionRow /\ rows[c].session \in 1..MaxSessions
      BY <2>1, <2>2 DEF SurveyInv, RowsFit, Fits
    <3> QED
      BY <3>1 DEF CompletionRow
  <2>4. \A w \in Workers : report[w] \in [completion : Completions \union {None}, session : 0..MaxSessions]
    <3> SUFFICES ASSUME NEW w \in Workers PROVE report[w].session \in 0..MaxSessions
      BY <2>1
    <3>1. CASE report[w] = V!Idle
      BY <3>1, SurveyConstants DEF V!Idle
    <3>2. CASE report[w] # V!Idle
      BY <2>2, <3>2, SurveyConstants DEF UseInv
    <3> QED
      BY <3>1, <3>2
  <2> QED
    BY <2>1, <2>2, <2>3, <2>4 DEF V!TypeOK, SessionRow
<1>4. SurveyInv /\ UseInv => V!SessionReuseBounded
  <2> SUFFICES ASSUME SurveyInv, UseInv, NEW i \in DOMAIN sessions
               PROVE  Cardinality(UsedFor(i)) <= Cardinality(Workers)
    BY SameSurveyCount DEF V!SessionReuseBounded, UsedFor
  <2>1. IsFiniteSet(UsedFor(i)) /\ IsFiniteSet(UsedBy(i))
        /\ Cardinality(UsedFor(i)) + Cardinality(UsedBy(i)) <= Cardinality(Workers)
    BY FS_Subset, SurveyConstants DEF UseInv, UsedBy
  <2>2. Cardinality(UsedFor(i)) \in Nat /\ Cardinality(UsedBy(i)) \in Nat
        /\ Cardinality(Workers) \in Nat
    BY <2>1, FS_CardinalityType, SurveyConstants
  <2> QED
    BY <2>1, <2>2
<1> QED
  BY <1>1, <1>2, <1>3, <1>4, UseInit, UseNext, SurveyInvariant, CreditIsEarned, PTL
     DEF V!Spec, V!SurveysSound

-----------------------------------------------------------------------------
(* Rounding                                                                *)

Positive == Nat \ {0}

LEMMA ProductIsNat == \A a, b \in Nat : a * b \in Nat
OBVIOUS

\* A quotient and a remainder are the only ones.
LEMMA QuotientIsOne ==
  ASSUME NEW d \in Positive, NEW q \in Nat, NEW r \in 0 .. d - 1
  PROVE  (d * q + r) \div d = q /\ (d * q + r) % d = r
<1> DEFINE n == d * q + r
           p == n \div d
           s == n % d
<1>1. n \in Nat
  BY ProductIsNat DEF Positive
<1> HIDE DEF n
<1>2. p \in Nat /\ s \in 0 .. d - 1 /\ n = d * p + s
  BY <1>1 DEF Positive
<1> HIDE DEF p, s
<1>3. n = d * q + r
  BY DEF n
<1>4. ASSUME p < q PROVE FALSE
  <2>1. PICK k \in Nat : q = p + 1 + k
    <3>1. q - p - 1 \in Nat /\ q = p + 1 + (q - p - 1)
      BY <1>2, <1>4
    <3> QED
      BY <3>1
  <2>2. d * q = d * p + d + d * k /\ d * k \in Nat /\ d * p \in Nat
    BY <1>2, <2>1 DEF Positive
  <2> QED
    BY <1>2, <1>3, <2>2 DEF Positive
<1>5. ASSUME q < p PROVE FALSE
  <2>1. PICK k \in Nat : p = q + 1 + k
    <3>1. p - q - 1 \in Nat /\ p = q + 1 + (p - q - 1)
      BY <1>2, <1>5
    <3> QED
      BY <3>1
  <2>2. d * p = d * q + d + d * k /\ d * k \in Nat /\ d * q \in Nat
    BY <1>2, <2>1 DEF Positive
  <2> QED
    BY <1>2, <1>3, <2>2 DEF Positive
<1>6. p = q
  BY <1>2, <1>4, <1>5
<1>7. d * p = d * q /\ d * q \in Nat
  BY <1>6 DEF Positive
<1>8. s = r
  BY <1>2, <1>3, <1>7 DEF Positive
<1> QED
  BY <1>6, <1>8 DEF p, s, n

\* Whether a remainder of r after q is rounded up.
GoesUp(q, r, d) == 2 * r > d \/ (2 * r = d /\ q % 2 = 1)

\* What Rounded is, for a quotient and a remainder.
LEMMA RoundedForm ==
  ASSUME NEW d \in Positive, NEW q \in Nat, NEW r \in 0 .. d - 1
  PROVE  P!Rounded(d * q + r, d) = IF GoesUp(q, r, d) THEN q + 1 ELSE q
<1>1. (d * q + r) \div d = q /\ (d * q + r) % d = r
  BY QuotientIsOne
<1> QED
  BY <1>1 DEF P!Rounded, GoesUp

LEMMA Division ==
  ASSUME NEW n \in Nat, NEW d \in Positive
  PROVE  \E q \in Nat, r \in 0 .. d - 1 : n = d * q + r
<1>1. n \div d \in Nat /\ n % d \in 0 .. d - 1 /\ n = d * (n \div d) + (n % d)
  BY DEF Positive
<1> QED
  BY <1>1, Zenon

\* Rounding is off by half of the denominator at most.
LEMMA RoundedNear ==
  ASSUME NEW n \in Nat, NEW d \in Positive
  PROVE  /\ P!Rounded(n, d) \in Nat
         /\ 2 * (d * P!Rounded(n, d)) <= 2 * n + d
         /\ 2 * n <= 2 * (d * P!Rounded(n, d)) + d
<1>1. PICK q \in Nat, r \in 0 .. d - 1 : n = d * q + r
  BY Division
<1>2. P!Rounded(n, d) = IF GoesUp(q, r, d) THEN q + 1 ELSE q
  BY <1>1, RoundedForm
<1>3. d * (q + 1) = d * q + d /\ d * q \in Nat /\ d \in Nat
  BY DEF Positive
<1>4. CASE GoesUp(q, r, d)
  <2>1. P!Rounded(n, d) = q + 1 /\ 2 * r >= d
    BY <1>2, <1>4 DEF GoesUp, Positive
  <2>2. d * P!Rounded(n, d) = d * q + d
    BY <1>3, <2>1
  <2> QED
    BY <1>1, <1>3, <2>1, <2>2
<1>5. CASE ~ GoesUp(q, r, d)
  <2>1. P!Rounded(n, d) = q /\ 2 * r <= d
    BY <1>2, <1>5 DEF GoesUp, Positive
  <2> QED
    BY <1>1, <1>3, <2>1
<1> QED
  BY <1>4, <1>5

\* More is not rounded to less.
LEMMA RoundedMonotone ==
  ASSUME NEW m \in Nat, NEW n \in Nat, NEW d \in Positive, m <= n
  PROVE  P!Rounded(m, d) <= P!Rounded(n, d)
<1>1. PICK p \in Nat, s \in 0 .. d - 1 : m = d * p + s
  BY Division
<1>2. PICK q \in Nat, r \in 0 .. d - 1 : n = d * q + r
  BY Division
<1>3. P!Rounded(m, d) = IF GoesUp(p, s, d) THEN p + 1 ELSE p
  BY <1>1, RoundedForm
<1>4. P!Rounded(n, d) = IF GoesUp(q, r, d) THEN q + 1 ELSE q
  BY <1>2, RoundedForm
<1>5. CASE p < q
  BY <1>3, <1>4, <1>5
<1>6. CASE p = q
  <2>1. s <= r
    <3>1. d * p = d * q /\ d * q \in Nat
      BY <1>6 DEF Positive
    <3> QED
      BY <1>1, <1>2, <3>1 DEF Positive
  <2>2. GoesUp(p, s, d) => GoesUp(q, r, d)
    BY <1>6, <2>1 DEF GoesUp, Positive
  <2> QED
    BY <1>3, <1>4, <1>6, <2>2
<1>7. CASE q < p
  <2>1. PICK k \in Nat : p = q + 1 + k
    <3>1. p - q - 1 \in Nat /\ p = q + 1 + (p - q - 1)
      BY <1>7
    <3> QED
      BY <3>1
  <2>2. d * p = d * q + d + d * k /\ d * k \in Nat /\ d * q \in Nat
    BY <2>1 DEF Positive
  <2> QED
    BY <1>1, <1>2, <2>2 DEF Positive
<1> QED
  BY <1>5, <1>6, <1>7

\* A fraction is rounded the same after both of its parts are multiplied.
LEMMA RoundedScaled ==
  ASSUME NEW n \in Nat, NEW d \in Positive, NEW k \in Positive
  PROVE  P!Rounded(n * k, d * k) = P!Rounded(n, d)
<1>1. PICK q \in Nat, r \in 0 .. d - 1 : n = d * q + r
  BY Division
<1>2. d * k \in Positive
  <2>1. k >= 1 /\ d >= 1 /\ k \in Nat /\ d \in Nat
    BY DEF Positive
  <2>2. PICK j \in Nat : k = 1 + j
    <3>1. k - 1 \in Nat /\ k = 1 + (k - 1)
      BY <2>1
    <3> QED
      BY <3>1
  <2>3. d * k = d + d * j /\ d * j \in Nat
    BY <2>1, <2>2
  <2> QED
    BY <2>1, <2>3 DEF Positive
<1>3. r * k \in 0 .. d * k - 1
  <2>1. PICK j \in Nat : d = r + 1 + j
    <3>1. d - r - 1 \in Nat /\ d = r + 1 + (d - r - 1)
      BY DEF Positive
    <3> QED
      BY <3>1
  <2>2. d * k = r * k + k + j * k /\ j * k \in Nat /\ r * k \in Nat
    BY <2>1 DEF Positive
  <2> QED
    BY <2>2 DEF Positive
<1>4. n * k = (d * k) * q + r * k
  BY <1>1 DEF Positive
<1>5. P!Rounded(n * k, d * k) = IF GoesUp(q, r * k, d * k) THEN q + 1 ELSE q
  BY <1>2, <1>3, <1>4, RoundedForm
<1>6. P!Rounded(n, d) = IF GoesUp(q, r, d) THEN q + 1 ELSE q
  BY <1>1, RoundedForm
<1>7. (2 * (r * k) > d * k <=> 2 * r > d) /\ (2 * (r * k) = d * k <=> 2 * r = d)
  <2>1. CASE 2 * r > d
    <3>1. PICK j \in Nat : 2 * r = d + 1 + j
      <4>1. 2 * r - d - 1 \in Nat /\ 2 * r = d + 1 + (2 * r - d - 1)
        BY <2>1 DEF Positive
      <4> QED
        BY <4>1
    <3>2. 2 * (r * k) = d * k + k + j * k /\ j * k \in Nat /\ d * k \in Nat /\ r * k \in Nat
      <4>1. 2 * (r * k) = (2 * r) * k
        BY DEF Positive
      <4>2. (2 * r) * k = (d + 1 + j) * k
        BY <3>1
      <4>3. (d + 1 + j) * k = d * k + k + j * k
        BY DEF Positive
      <4> QED
        BY <4>1, <4>2, <4>3, ProductIsNat DEF Positive
    <3> QED
      BY <2>1, <3>2 DEF Positive
  <2>2. CASE 2 * r = d
    <3>1. 2 * (r * k) = (2 * r) * k
      BY DEF Positive
    <3>2. 2 * (r * k) = d * k /\ d * k \in Nat
      BY <2>2, <3>1, ProductIsNat DEF Positive
    <3> QED
      BY <2>2, <3>2 DEF Positive
  <2>3. CASE 2 * r < d
    <3>1. PICK j \in Nat : d = 2 * r + 1 + j
      <4>1. d - 2 * r - 1 \in Nat /\ d = 2 * r + 1 + (d - 2 * r - 1)
        BY <2>3 DEF Positive
      <4> QED
        BY <4>1
    <3>2. d * k = 2 * (r * k) + k + j * k /\ j * k \in Nat /\ r * k \in Nat
      <4>1. 2 * (r * k) = (2 * r) * k
        BY DEF Positive
      <4>2. d * k = (2 * r + 1 + j) * k
        BY <3>1
      <4>3. (2 * r + 1 + j) * k = (2 * r) * k + k + j * k
        BY DEF Positive
      <4> QED
        BY <4>1, <4>2, <4>3, ProductIsNat DEF Positive
    <3> QED
      BY <2>3, <3>2 DEF Positive
  <2> QED
    BY <2>1, <2>2, <2>3 DEF Positive
<1>8. GoesUp(q, r * k, d * k) <=> GoesUp(q, r, d)
  BY <1>7, Zenon DEF GoesUp
<1>9. CASE GoesUp(q, r, d)
  BY <1>5, <1>6, <1>8, <1>9, Zenon
<1>10. CASE ~ GoesUp(q, r, d)
  BY <1>5, <1>6, <1>8, <1>10, Zenon
<1> QED
  BY <1>9, <1>10

\* What needs no rounding stays what it is.
LEMMA RoundedExact ==
  ASSUME NEW x \in Nat, NEW d \in Positive
  PROVE  P!Rounded(x * d, d) = x
<1>1. x * d = d * x + 0 /\ 0 \in 0 .. d - 1
  BY DEF Positive
<1>2. ~ GoesUp(x, 0, d)
  BY DEF GoesUp, Positive
<1> QED
  BY <1>1, <1>2, RoundedForm

-----------------------------------------------------------------------------
(* Pricing                                                                 *)

\* What a rule takes of a revenue, as a numerator over Hundred * Thousand,
\* and what it adds, over Thousand.
Taken(rule, gross) == (IF gross = None THEN 0 ELSE gross) * rule.percentage * P!Factor(rule)
Added(rule) == rule.fixed * P!Factor(rule)

RuleType(rule) ==
  /\ rule.percentage \in Nat /\ rule.fixed \in Nat
  /\ rule.pointsPercentage \in Nat /\ rule.fixedPoints \in Nat
  /\ rule.multiplier \in Nat /\ rule.cap \in Nat \union {None}
  /\ rule.currency \in {"USD", "PKR"}

LEMMA WholeIsPositive ==
  ASSUME NEW a \in Positive, NEW b \in Positive
  PROVE  a * b \in Positive
<1>1. a \in Nat /\ b \in Nat /\ a >= 1 /\ b >= 1
  BY DEF Positive
<1>2. PICK k \in Nat : b = 1 + k
  <2>1. b - 1 \in Nat /\ b = 1 + (b - 1)
    BY <1>1
  <2> QED
    BY <2>1
<1>3. a * b = a + a * k /\ a * k \in Nat
  BY <1>1, <1>2
<1> QED
  BY <1>1, <1>3 DEF Positive

LEMMA ZeroProduct ==
  ASSUME NEW a \in Nat, NEW b \in Nat, a = 0 \/ b = 0
  PROVE  a * b = 0
OBVIOUS

LEMMA PartsType ==
  ASSUME NEW rule, RuleType(rule), NEW gross \in Nat \union {None}
  PROVE  /\ Taken(rule, gross) \in Nat /\ Added(rule) \in Nat /\ P!Factor(rule) \in Positive
         /\ P!Parts(rule, gross).percentage = Taken(rule, gross)
         /\ P!Parts(rule, gross).fixed = Added(rule)
         /\ P!Parts(rule, gross).points \in Nat
<1> USE PricingConstants DEF RuleType
<1> DEFINE payout == IF gross = None THEN 0 ELSE gross
<1>1. P!Factor(rule) \in Positive /\ P!Factor(rule) \in Nat
  BY DEF P!Factor, Positive
<1>2. payout \in Nat
  OBVIOUS
<1> HIDE DEF payout
<1>3. payout * rule.percentage \in Nat
  BY <1>2
<1>4. payout * rule.percentage * P!Factor(rule) \in Nat /\ rule.fixed * P!Factor(rule) \in Nat
  BY <1>1, <1>3
<1> DEFINE n == payout * rule.pointsPercentage + rule.fixedPoints * Hundred * PerPoint
<1>5. n \in Nat
  <2>1. payout * rule.pointsPercentage \in Nat /\ rule.fixedPoints * Hundred \in Nat
    BY <1>2
  <2>2. (rule.fixedPoints * Hundred) * PerPoint \in Nat
    BY <2>1
  <2> QED
    BY <2>1, <2>2
<1> HIDE DEF n
<1>6. n * P!Factor(rule) \in Nat
  BY <1>1, <1>5
<1>7. (Hundred * Thousand) * PerPoint \in Positive
  BY WholeIsPositive DEF Positive
<1>8. P!Rounded(n * P!Factor(rule), Hundred * Thousand * PerPoint) \in Nat
  BY <1>6, <1>7, RoundedNear
<1> QED
  BY <1>1, <1>4, <1>8 DEF P!Parts, Taken, Added, payout, n

\* The cash before a cap, by the currency of the rule.
LEMMA CashForm ==
  ASSUME NEW n \in Nat, NEW f \in Nat, NEW currency \in {"USD", "PKR"}, rate \in Rates,
         NEW parts, parts.percentage = n, parts.fixed = f
  PROVE  P!Cash(parts, "USD", currency) =
           IF currency = "USD" \/ n = 0
           THEN P!Rounded(n + f * Hundred, Hundred * Thousand)
           ELSE P!Rounded(P!Rounded(n * rate, (Hundred * Thousand) * RateScale) * Thousand + f,
                          Thousand)
BY DEF P!Cash, P!Convert

\* What is awarded before a cap: at least the fixed part, exactly that when
\* nothing is taken of the revenue, and only the percentage without one.
LEMMA CashIs ==
  ASSUME NEW n \in Nat, NEW f \in Nat, NEW currency \in {"USD", "PKR"}, rate \in Rates,
         NEW parts, parts.percentage = n, parts.fixed = f
  PROVE  LET cash == P!Cash(parts, "USD", currency)
         IN /\ cash \in Nat
            /\ cash >= P!Rounded(f, Thousand)
            /\ n = 0 => cash = P!Rounded(f, Thousand)
            /\ f = 0 => cash = IF currency = "USD" THEN P!Rounded(n, Hundred * Thousand)
                              ELSE P!Rounded(n * rate, (Hundred * Thousand) * RateScale)
<1> USE PricingConstants
<1> DEFINE cash == P!Cash(parts, "USD", currency)
           whole == Hundred * Thousand
<1>1. Hundred \in Positive /\ Thousand \in Positive /\ whole \in Positive
      /\ RateScale \in Positive /\ whole * RateScale \in Positive /\ rate \in Positive /\ rate \in Nat /\ Thousand \in Nat /\ Hundred \in Nat
  BY WholeIsPositive DEF Positive
<1>2. cash = IF currency = "USD" \/ n = 0 THEN P!Rounded(n + f * Hundred, whole)
             ELSE P!Rounded(P!Rounded(n * rate, whole * RateScale) * Thousand + f, Thousand)
  BY CashForm
<1>3. f * Hundred \in Nat /\ n * rate \in Nat
  BY <1>1, ProductIsNat
<1>4. P!Rounded(f * Hundred, whole) = P!Rounded(f, Thousand)
  <2>1. whole = Thousand * Hundred
    BY <1>1
  <2>2. P!Rounded(f * Hundred, Thousand * Hundred) = P!Rounded(f, Thousand)
    BY <1>1, RoundedScaled
  <2> QED
    BY <2>1, <2>2
<1> HIDE DEF cash, whole
<1>5. CASE currency = "USD" \/ n = 0
  <2>1. cash = P!Rounded(n + f * Hundred, whole)
    BY <1>2, <1>5
  <2>2. n + f * Hundred \in Nat /\ f * Hundred <= n + f * Hundred
    BY <1>3
  <2>3. cash \in Nat /\ cash >= P!Rounded(f, Thousand)
    <3>1. P!Rounded(f * Hundred, whole) <= P!Rounded(n + f * Hundred, whole)
      BY <1>1, <1>3, <2>2, RoundedMonotone
    <3>2. P!Rounded(n + f * Hundred, whole) \in Nat /\ P!Rounded(f, Thousand) \in Nat
      BY <1>1, <2>2, RoundedNear
    <3> QED
      BY <1>4, <2>1, <3>1, <3>2
  <2>4. n = 0 => cash = P!Rounded(f, Thousand)
    <3>1. n = 0 => n + f * Hundred = f * Hundred
      BY <1>3
    <3> QED
      BY <1>4, <2>1, <3>1
  <2>5. ASSUME f = 0
        PROVE  cash = IF currency = "USD" THEN P!Rounded(n, whole)
                      ELSE P!Rounded(n * rate, whole * RateScale)
    <3>1. n + f * Hundred = n
      BY <1>1, <1>3, <2>5
    <3>2. ASSUME n = 0
          PROVE  P!Rounded(n * rate, whole * RateScale) = P!Rounded(n, whole)
      <4>1. /\ n * rate = 0 /\ 0 = 0 * (whole * RateScale) /\ 0 = 0 * whole
            /\ 0 \in Nat
        BY <1>1, <3>2, ZeroProduct DEF Positive
      <4>2. P!Rounded(0 * (whole * RateScale), whole * RateScale) = 0
            /\ P!Rounded(0 * whole, whole) = 0
        BY <1>1, <4>1, RoundedExact
      <4> QED
        BY <3>2, <4>1, <4>2
    <3> QED
      BY <1>5, <2>1, <3>1, <3>2
  <2> QED
    BY <2>3, <2>4, <2>5 DEF cash, whole
<1>6. CASE ~ (currency = "USD" \/ n = 0)
  <2> DEFINE converted == P!Rounded(n * rate, whole * RateScale)
  <2>1. cash = P!Rounded(converted * Thousand + f, Thousand)
    BY <1>2, <1>6
  <2>2. converted \in Nat
    BY <1>1, <1>3, RoundedNear
  <2>3. converted * Thousand \in Nat /\ converted * Thousand + f \in Nat
        /\ f <= converted * Thousand + f
    BY <1>1, <2>2, ProductIsNat
  <2>4. cash \in Nat /\ cash >= P!Rounded(f, Thousand)
    <3>1. P!Rounded(f, Thousand) <= P!Rounded(converted * Thousand + f, Thousand)
      BY <1>1, <2>3, RoundedMonotone
    <3>2. P!Rounded(converted * Thousand + f, Thousand) \in Nat /\ P!Rounded(f, Thousand) \in Nat
      BY <1>1, <2>3, RoundedNear
    <3> QED
      BY <2>1, <3>1, <3>2
  <2>5. f = 0 => cash = converted
    <3>1. f = 0 => converted * Thousand + f = converted * Thousand
      BY <2>3
    <3>2. P!Rounded(converted * Thousand, Thousand) = converted
      BY <1>1, <2>2, RoundedExact
    <3> QED
      BY <2>1, <3>1, <3>2
  <2> QED
    BY <1>6, <2>4, <2>5 DEF cash, whole
<1> QED
  BY <1>5, <1>6

\* What the platform keeps of g, after n over w went into the cash: without a
\* conversion ...
LEMMA KeptInDollars ==
  ASSUME NEW g \in Nat, NEW k \in Nat, NEW w \in Positive, NEW n \in Nat, n = g * k
  PROVE  P!HalfApart((g - P!Rounded(n, w)) * w, g * (w - k), w)
<1> DEFINE x == P!Rounded(n, w)
<1>1. x \in Nat /\ 2 * (w * x) <= 2 * n + w /\ 2 * n <= 2 * (w * x) + w
  BY RoundedNear
<1> HIDE DEF x
<1>2. w \in Nat
  BY DEF Positive
<1>3. (g - x) * w = g * w - w * x /\ g * (w - k) = g * w - n
  BY <1>1, <1>2
<1>4. g * w \in Nat /\ w * x \in Nat
  BY <1>1, <1>2, ProductIsNat
<1>5. P!HalfApart(g * w - w * x, g * w - n, w)
  BY <1>1, <1>2, <1>4 DEF P!HalfApart
<1> QED
  BY <1>3, <1>5 DEF x

\* ... and with one there and back, at r over c.
LEMMA KeptOverConversions ==
  ASSUME NEW g \in Nat, NEW k \in Nat, NEW w \in Positive, NEW n \in Nat, n = g * k,
         NEW r \in Positive, NEW c \in Positive, NEW paid, paid = P!Rounded(n * r, w * c)
  PROVE  P!HalfApart((g - P!Rounded(paid * c, r)) * w * r, g * (w - k) * r, (r + c) * w)
<1> DEFINE x == P!Rounded(paid * c, r)
           cash == paid * c
<1>1. w \in Nat /\ r \in Nat /\ c \in Nat /\ n * r \in Nat /\ w * c \in Nat /\ w * c \in Positive
  BY ProductIsNat, WholeIsPositive DEF Positive
<1>2. cash \in Nat /\ 2 * (w * cash) <= 2 * (n * r) + w * c
      /\ 2 * (n * r) <= 2 * (w * cash) + w * c
  <2>1. /\ paid \in Nat /\ 2 * ((w * c) * paid) <= 2 * (n * r) + w * c
        /\ 2 * (n * r) <= 2 * ((w * c) * paid) + w * c
    BY <1>1, RoundedNear
  <2>2. cash \in Nat /\ (w * c) * paid = w * cash
    BY <1>1, <2>1, ProductIsNat
  <2> QED
    BY <2>1, <2>2
<1>3. x \in Nat /\ 2 * (r * x) <= 2 * cash + r /\ 2 * cash <= 2 * (r * x) + r
  BY <1>2, RoundedNear
<1> HIDE DEF x, cash
<1>4. r * x \in Nat /\ w * (r * x) \in Nat /\ w * cash \in Nat /\ g * w \in Nat /\ w * r \in Nat
  BY <1>1, <1>2, <1>3, ProductIsNat
<1>5. 2 * (w * (r * x)) <= 2 * (w * cash) + w * r
  <2>1. PICK j \in Nat : 2 * cash + r = 2 * (r * x) + j
    <3>1. 2 * cash + r - 2 * (r * x) \in Nat
          /\ 2 * cash + r = 2 * (r * x) + (2 * cash + r - 2 * (r * x))
      BY <1>1, <1>2, <1>3, <1>4
    <3> QED
      BY <3>1
  <2> DEFINE y == r * x
  <2>2. y \in Nat /\ 2 * cash + r = 2 * y + j
    BY <1>4, <2>1
  <2> HIDE DEF y
  <2>3. w * (2 * cash + r) = w * (2 * y + j)
    BY <2>2
  <2>4. w * (2 * cash + r) = 2 * (w * cash) + w * r /\ w * (2 * y + j) = 2 * (w * y) + w * j
    BY <1>1, <1>2, <2>2
  <2>5. w * j \in Nat /\ w * y \in Nat
    BY <1>1, <2>2, ProductIsNat
  <2>6. 2 * (w * y) <= 2 * (w * cash) + w * r
    BY <1>4, <2>3, <2>4, <2>5
  <2> QED
    BY <2>6 DEF y
<1>6. 2 * (w * cash) <= 2 * (w * (r * x)) + w * r
  <2>1. PICK j \in Nat : 2 * (r * x) + r = 2 * cash + j
    <3>1. 2 * (r * x) + r - 2 * cash \in Nat
          /\ 2 * (r * x) + r = 2 * cash + (2 * (r * x) + r - 2 * cash)
      BY <1>1, <1>2, <1>3, <1>4
    <3> QED
      BY <3>1
  <2> DEFINE y == r * x
  <2>2. y \in Nat /\ 2 * y + r = 2 * cash + j
    BY <1>4, <2>1
  <2> HIDE DEF y
  <2>3. w * (2 * y + r) = w * (2 * cash + j)
    BY <2>2
  <2>4. w * (2 * y + r) = 2 * (w * y) + w * r /\ w * (2 * cash + j) = 2 * (w * cash) + w * j
    BY <1>1, <1>2, <2>2
  <2>5. w * j \in Nat /\ w * y \in Nat
    BY <1>1, <2>2, ProductIsNat
  <2>6. 2 * (w * cash) <= 2 * (w * y) + w * r
    BY <1>4, <2>3, <2>4, <2>5
  <2> QED
    BY <2>6 DEF y
<1>7. (g - x) * w * r = (g * w) * r - w * (r * x)
  <2>1. (g - x) * w = g * w - x * w
    BY <1>1, <1>3
  <2>2. (g * w - x * w) * r = (g * w) * r - (x * w) * r
    <3>1. x * w \in Nat
      BY <1>1, <1>3, ProductIsNat
    <3> QED
      BY <1>1, <1>4, <3>1
  <2>3. (x * w) * r = w * (r * x)
    BY <1>1, <1>3
  <2> QED
    BY <2>1, <2>2, <2>3
<1>8. g * (w - k) * r = (g * w) * r - n * r
  <2>1. g * (w - k) = g * w - n
    BY <1>1
  <2>2. (g * w - n) * r = (g * w) * r - n * r
    BY <1>1, <1>4
  <2> QED
    BY <2>1, <2>2
<1>9. (r + c) * w = w * r + w * c
  BY <1>1
<1>10. (g * w) * r \in Nat
  BY <1>1, <1>4, ProductIsNat
<1> DEFINE a == (g * w) * r
           b == w * (r * x)
           t == n * r
           e == w * r
           f == w * cash
           u == w * c
<1>11. /\ a \in Nat /\ b \in Nat /\ t \in Nat /\ e \in Nat /\ f \in Nat /\ u \in Nat
       /\ 2 * b <= 2 * f + e /\ 2 * f <= 2 * b + e
       /\ 2 * f <= 2 * t + u /\ 2 * t <= 2 * f + u
  BY <1>1, <1>2, <1>4, <1>5, <1>6, <1>10
<1> HIDE DEF a, b, t, e, f, u
<1>12. 2 * ((a - b) - (a - t)) <= e + u /\ 2 * ((a - t) - (a - b)) <= e + u
  BY <1>11
<1>13. /\ (g - x) * w * r = a - b /\ g * (w - k) * r = a - t /\ (r + c) * w = e + u
  BY <1>7, <1>8, <1>9 DEF a, b, t, e, u
<1>14. P!HalfApart((g - x) * w * r, g * (w - k) * r, (r + c) * w)
  BY <1>12, <1>13, Zenon DEF P!HalfApart
<1> QED
  BY <1>14, Zenon DEF x, cash

\* g dollars in the other currency, rounded, do not come back as more, at a
\* rate of r over c that is 1 at least.
LEMMA NoneComesBack ==
  ASSUME NEW g \in Nat, NEW r \in Positive, NEW c \in Positive, c <= r
  PROVE  P!Rounded(P!Rounded(g * r, c) * c, r) <= g
<1>1. r \in Nat /\ c \in Nat /\ r > 0 /\ c > 0 /\ g * r \in Nat
  BY ProductIsNat DEF Positive
<1>2. PICK q \in Nat, e \in 0 .. c - 1 : g * r = c * q + e
  BY <1>1, Division
<1> DEFINE y == P!Rounded(g * r, c)
<1>3. y = IF GoesUp(q, e, c) THEN q + 1 ELSE q
  BY <1>2, RoundedForm
<1>4. e \in Nat /\ e < c /\ c * q \in Nat
  BY <1>1, <1>2, ProductIsNat
<1> HIDE DEF y
<1>5. CASE ~ GoesUp(q, e, c)
  <2>1. y * c = c * q /\ y * c \in Nat /\ y * c <= g * r
    BY <1>1, <1>2, <1>3, <1>4, <1>5
  <2>2. P!Rounded(y * c, r) <= P!Rounded(g * r, r)
    BY <1>1, <2>1, RoundedMonotone
  <2>3. P!Rounded(g * r, r) = g
    BY RoundedExact
  <2> QED
    BY <2>2, <2>3 DEF y
<1>6. CASE GoesUp(q, e, c)
  <2> DEFINE t == c - e
  <2>1. t \in Nat /\ t > 0 /\ 2 * e >= c /\ 2 * t <= c
    BY <1>1, <1>4, <1>6 DEF GoesUp
  <2>2. c # r
    <3> SUFFICES ASSUME c = r PROVE FALSE
      OBVIOUS
    <3>1. (c * g + 0) % c = 0 /\ (c * q + e) % c = e
      BY <1>1, QuotientIsOne
    <3>2. c * g + 0 = c * q + e
      BY <1>1, <1>2
    <3> QED
      BY <1>1, <2>1, <3>1, <3>2
  <2>3. 2 * t < r /\ t \in 0 .. r - 1
    BY <1>1, <2>1, <2>2
  <2>4. y * c = r * g + t
    <3>1. y = q + 1
      BY <1>3, <1>6
    <3>2. (q + 1) * c = c * q + c /\ g * r = r * g
      BY <1>1
    <3> QED
      BY <1>1, <1>2, <1>4, <3>1, <3>2
  <2>5. ~ GoesUp(g, t, r)
    BY <1>1, <2>1, <2>3 DEF GoesUp
  <2> HIDE DEF t
  <2>6. P!Rounded(r * g + t, r) = g
    BY <2>3, <2>5, RoundedForm
  <2> QED
    BY <2>4, <2>6 DEF y
<1> QED
  BY <1>5, <1>6

\* No more than all of g is taken, and none of it comes back as more.
LEMMA NoMoreThanAll ==
  ASSUME NEW g \in Nat, NEW k \in Nat, NEW w \in Positive, NEW n \in Nat, n = g * k, k <= w,
         NEW r \in Positive, NEW c \in Positive
  PROVE  /\ P!Rounded(n, w) <= g
         /\ c <= r => \A cash \in Nat : cash <= P!Rounded(n * r, w * c)
                                        => P!Rounded(cash * c, r) <= g
<1>1. w \in Nat /\ r \in Nat /\ c \in Nat /\ n * r \in Nat /\ g * w \in Nat /\ g * r \in Nat
      /\ (g * r) * w \in Nat /\ w * c \in Positive
  BY ProductIsNat, WholeIsPositive DEF Positive
<1>2. PICK j \in Nat : w = k + j
  <2>1. w - k \in Nat /\ w = k + (w - k)
    BY <1>1
  <2> QED
    BY <2>1
<1>3. g * w = n + g * j /\ g * j \in Nat
  BY <1>1, <1>2
<1>4. n <= g * w
  BY <1>1, <1>3
<1>5. P!Rounded(n, w) <= g
  <2>1. P!Rounded(n, w) <= P!Rounded(g * w, w)
    BY <1>1, <1>4, RoundedMonotone
  <2>2. P!Rounded(g * w, w) = g
    BY RoundedExact
  <2> QED
    BY <2>1, <2>2
<1>6. n * r <= (g * r) * w
  <2>1. (g * r) * w = (g * w) * r
    BY <1>1
  <2>2. (g * w) * r = (n + g * j) * r
    BY <1>3
  <2>3. (n + g * j) * r = n * r + (g * j) * r
    BY <1>1, <1>3
  <2>4. (g * j) * r \in Nat
    BY <1>1, <1>3, ProductIsNat
  <2> QED
    BY <1>1, <2>1, <2>2, <2>3, <2>4
<1> DEFINE all == P!Rounded(g * r, c)
<1>7. P!Rounded(n * r, w * c) <= all /\ P!Rounded(n * r, w * c) \in Nat /\ all \in Nat
  <2>1. P!Rounded(n * r, w * c) <= P!Rounded((g * r) * w, w * c)
    BY <1>1, <1>6, RoundedMonotone
  <2>2. P!Rounded((g * r) * w, c * w) = all /\ c * w = w * c
    BY <1>1, RoundedScaled
  <2>3. P!Rounded(n * r, w * c) \in Nat /\ all \in Nat
    BY <1>1, RoundedNear
  <2> QED
    BY <2>1, <2>2, <2>3
<1> HIDE DEF all
<1>8. ASSUME c <= r, NEW cash \in Nat, cash <= P!Rounded(n * r, w * c)
      PROVE  P!Rounded(cash * c, r) <= g
  <2>1. PICK more \in Nat : all = cash + more
    <3>1. all - cash \in Nat /\ all = cash + (all - cash)
      BY <1>7, <1>8
    <3> QED
      BY <3>1
  <2>2. all * c = cash * c + more * c /\ cash * c \in Nat /\ more * c \in Nat
    BY <1>1, <2>1, ProductIsNat
  <2>3. cash * c <= all * c /\ all * c \in Nat
    BY <2>2
  <2>4. P!Rounded(cash * c, r) <= P!Rounded(all * c, r)
    BY <2>2, <2>3, RoundedMonotone
  <2>5. P!Rounded(all * c, r) <= g
    BY <1>8, NoneComesBack DEF all
  <2>6. P!Rounded(cash * c, r) \in Nat /\ P!Rounded(all * c, r) \in Nat
    BY <2>2, <2>3, RoundedNear
  <2> QED
    BY <2>4, <2>5, <2>6
<1> QED
  BY <1>5, <1>8

\* The rule resolved is one of the table's.
LEMMA ResolvedType ==
  ASSUME P!TypeOK, NEW event
  PROVE  P!Resolved(event) = None \/ RuleType(P!Resolved(event))
<1> DEFINE matching == {i \in activeRules : P!Matches(Rules[i], event)}
<1>1. activeRules \subseteq DOMAIN Rules /\ DOMAIN Rules \subseteq Nat
  BY PricingConstants DEF P!TypeOK
<1>2. CASE matching = {}
  BY <1>2 DEF P!Resolved
<1>3. CASE matching # {}
  <2>1. matching \in SUBSET DOMAIN Rules /\ matching \in SUBSET Nat
    BY <1>1
  <2>2. \E i \in matching : \A j \in matching : i <= j
    <3> HIDE DEF matching
    <3> DEFINE R == OpToRel(<, Nat)
    <3>1. IsWellFoundedOn(R, Nat)
      BY NatLessThanWellFounded DEF R
    <3> HIDE DEF R
    <3>2. PICK i \in matching : \A j \in matching : ~ (<<j, i>> \in R)
      BY <1>3, <2>1, <3>1, WFMin
    <3>3. \A j \in matching : ~ (j < i)
      BY <2>1, <3>2 DEF OpToRel, R
    <3> QED
      BY <2>1, <3>3
  <2>3. \E i \in matching : P!Resolved(event) = Rules[i]
    <3>1. P!Resolved(event) = Rules[CHOOSE i \in matching : \A j \in matching : i <= j]
      BY <1>3 DEF P!Resolved
    <3>2. (CHOOSE i \in matching : \A j \in matching : i <= j) \in matching
      <4> HIDE DEF matching
      <4> QED
        BY <2>2
    <3> QED
      BY <3>1, <3>2
  <2> QED
    BY <2>1, <2>3, PricingConstants DEF RuleType
<1> QED
  BY <1>2, <1>3

\* A cap bounds cash that is a number, and leaves a number.
LEMMA CappedIs ==
  ASSUME NEW rule, rule # None => RuleType(rule), NEW cash \in Nat
  PROVE  /\ P!Capped(rule, cash) \in Nat /\ P!Capped(rule, cash) <= cash
         /\ (rule # None /\ rule.cap # None) => P!Capped(rule, cash) <= rule.cap
         /\ rule = None \/ rule.cap = None => P!Capped(rule, cash) = cash
BY DEF P!Capped, RuleType

LEMMA BackInDollars ==
  ASSUME NEW cash \in Nat, rate \in Positive
  PROVE  /\ P!Convert(cash, 1, "USD", "USD") = cash
         /\ P!Convert(cash, 1, "PKR", "USD") = P!Rounded(cash * RateScale, rate)
<1>1. P!Convert(cash, 1, "USD", "USD") = P!Rounded(cash, 1)
      /\ P!Convert(cash, 1, "PKR", "USD") = P!Rounded(cash * RateScale, 1 * rate)
  BY DEF P!Convert
<1>2. cash * 1 = cash /\ 1 \in Positive /\ 1 * rate = rate
  BY DEF Positive
<1>3. P!Rounded(cash * 1, 1) = cash
  BY <1>2, RoundedExact
<1> QED
  BY <1>1, <1>2, <1>3

\* What is kept of gross after cash was paid out in a currency.
LeftOf(gross, cash, currency, r) ==
  IF gross = None THEN None
  ELSE gross - (IF currency = "USD" THEN cash ELSE P!Rounded(cash * RateScale, r))

\* An event that no rule matches earns nothing, and nothing is not issued ...
LEMMA UnmatchedStep ==
  ASSUME P!TypeOK, NEW event \in Events, P!Resolved(event) = None
  PROVE  ~ P!Award(event)
<1> USE PricingConstants
<1>1. event.currency = "USD" /\ rate \in Positive /\ rate \in Rates
  BY DEF P!TypeOK, Positive
<1> DEFINE cash == P!Capped(None, P!Cash(P!NoParts, "USD", "PKR"))
<1>2. P!Award(event) => cash > 0 \/ P!NoParts.points > 0
  BY <1>1 DEF P!Award
<1>3. P!NoParts.percentage = 0 /\ P!NoParts.fixed = 0 /\ P!NoParts.points = 0
  BY DEF P!NoParts
<1>4. P!Rounded(0, Thousand) = 0
  <2>1. 0 * Thousand = 0 /\ Thousand \in Positive
    BY DEF Positive
  <2>2. P!Rounded(0 * Thousand, Thousand) = 0
    BY <2>1, RoundedExact
  <2> QED
    BY <2>1, <2>2
<1>5. P!Cash(P!NoParts, "USD", "PKR") = 0
  BY <1>1, <1>3, <1>4, CashIs
<1>6. cash = 0
  BY <1>5, CappedIs
<1> HIDE DEF cash
<1> QED
  BY <1>2, <1>3, <1>6

\* A reward l issued for an event under a rule, at rate r.
Issued(l, event, rule, before, cash, r) ==
  /\ RuleType(rule)
  /\ l.event = event /\ l.rule = rule /\ l.rate = r
  /\ l.points \in Nat
  /\ l.cash = cash /\ cash = P!Capped(rule, before)
  /\ l.share = LeftOf(event.gross, cash, rule.currency, r)
  /\ before >= P!Rounded(Added(rule), Thousand)
  /\ Taken(rule, event.gross) = 0 => before = P!Rounded(Added(rule), Thousand)
  /\ Added(rule) = 0 =>
       before = IF rule.currency = "USD"
                THEN P!Rounded(Taken(rule, event.gross), Hundred * Thousand)
                ELSE P!Rounded(Taken(rule, event.gross) * r, (Hundred * Thousand) * RateScale)

\* ... and what Award leaves for one that a rule does.
LEMMA MatchedStep ==
  ASSUME P!TypeOK, NEW event \in Events, P!Award(event),
         NEW rule, rule = P!Resolved(event), rule # None
  PROVE  \E before \in Nat, cash \in Nat, r \in Positive :
           r = rate /\ Issued(last', event, rule, before, cash, r)
<1> USE PricingConstants
<1>1. event.currency = "USD" /\ event.gross \in Nat \union {None}
      /\ rate \in Positive /\ rate \in Rates
  BY DEF P!TypeOK, Positive
<1>2. RuleType(rule)
  BY ResolvedType
<1> DEFINE parts == P!Parts(rule, event.gross)
           n == Taken(rule, event.gross)
           f == Added(rule)
           before == P!Cash(parts, "USD", rule.currency)
           cash == P!Capped(rule, before)
<1>3. last' = [event |-> event, rule |-> rule, rate |-> rate, cash |-> cash, points |-> parts.points,
               share |-> IF event.gross = None THEN None
                         ELSE event.gross - P!Convert(cash, 1, rule.currency, "USD")]
  BY <1>1 DEF P!Award
<1>4. n \in Nat /\ f \in Nat /\ parts.percentage = n /\ parts.fixed = f /\ parts.points \in Nat
  BY <1>1, <1>2, PartsType
<1>5. rule.currency \in {"USD", "PKR"}
  BY <1>2 DEF RuleType
<1> HIDE DEF parts, n, f
<1>6. /\ before \in Nat
      /\ before >= P!Rounded(f, Thousand)
      /\ n = 0 => before = P!Rounded(f, Thousand)
      /\ f = 0 => before = IF rule.currency = "USD" THEN P!Rounded(n, Hundred * Thousand)
                          ELSE P!Rounded(n * rate, (Hundred * Thousand) * RateScale)
  BY <1>1, <1>4, <1>5, CashIs
<1> HIDE DEF before
<1>7. cash \in Nat
  BY <1>2, <1>6, CappedIs
<1> HIDE DEF cash
<1>8. P!Convert(cash, 1, rule.currency, "USD")
        = IF rule.currency = "USD" THEN cash ELSE P!Rounded(cash * RateScale, rate)
  BY <1>1, <1>5, <1>7, BackInDollars
<1>9. /\ last'.event = event /\ last'.rule = rule /\ last'.rate = rate
      /\ last'.points = parts.points /\ last'.cash = cash
      /\ last'.share = LeftOf(event.gross, cash, rule.currency, rate)
  BY <1>3, <1>8 DEF LeftOf
<1>10. /\ last'.points \in Nat /\ cash = P!Capped(rule, before)
  BY <1>4, <1>9 DEF cash
<1>11. Issued(last', event, rule, before, cash, rate)
  BY <1>2, <1>6, <1>9, <1>10 DEF Issued, n, f
<1> QED
  BY <1>1, <1>6, <1>7, <1>11

LEMMA AwardKeepsSound ==
  ASSUME P!TypeOK, NEW event \in Events, P!Award(event)
  PROVE  P!PricingSound'
<1> USE PricingConstants
<1>1. UNCHANGED <<activeRules, rate>>
  BY DEF P!Award
<1>2. event.gross \in Nat \union {None}
  OBVIOUS
<1>3. CASE P!Resolved(event) = None
  BY <1>3, UnmatchedStep
<1>4. CASE P!Resolved(event) # None
  <2> DEFINE whole == Hundred * Thousand
  <2>1. PICK rule : rule = P!Resolved(event) /\ rule # None
    BY <1>4
  <2> DEFINE n == Taken(rule, event.gross)
             f == Added(rule)
             k == rule.percentage * P!Factor(rule)
  <2>2. PICK before \in Nat, cash \in Nat, r \in Positive :
           r = rate /\ Issued(last', event, rule, before, cash, r)
    BY <2>1, MatchedStep
  <2>3. /\ RuleType(rule) /\ r = rate
        /\ last'.event = event /\ last'.rule = rule /\ last'.rate = r
        /\ last'.points \in Nat
        /\ last'.cash = cash /\ cash = P!Capped(rule, before)
        /\ last'.share = LeftOf(event.gross, cash, rule.currency, r)
        /\ before >= P!Rounded(f, Thousand)
        /\ n = 0 => before = P!Rounded(f, Thousand)
        /\ f = 0 => before = IF rule.currency = "USD" THEN P!Rounded(n, whole)
                            ELSE P!Rounded(n * r, whole * RateScale)
    BY <2>2 DEF Issued
  <2>4. RuleType(rule)
    BY <2>3
  <2>5. n \in Nat /\ f \in Nat /\ P!Factor(rule) \in Nat /\ P!Factor(rule) > 0
    <3>1. /\ Taken(rule, event.gross) \in Nat /\ Added(rule) \in Nat
          /\ P!Factor(rule) \in Positive
      BY <1>2, <2>4, PartsType
    <3> QED
      BY <3>1 DEF Positive
  <2>6. whole \in Positive /\ Thousand \in Positive /\ RateScale \in Positive
    BY WholeIsPositive DEF Positive
  <2>7. rule.percentage \in Nat /\ rule.fixed \in Nat /\ rule.cap \in Nat \union {None}
        /\ rule.currency \in {"USD", "PKR"}
    BY <2>3 DEF RuleType
  <2>8. k \in Nat
    BY <2>5, <2>7, ProductIsNat
  <2>9. event.gross # None => n = event.gross * k
    BY <1>2, <2>5, <2>7 DEF Taken
  <2>10. rule.fixed = 0 => f = 0
    BY <2>5, <2>7, ZeroProduct DEF Added
  <2>11. rule.percentage = 0 \/ event.gross \in {None, 0} => n = 0
    BY <1>2, <2>5, <2>7 DEF Taken
  <2>12. /\ cash <= before /\ (rule.cap = None => cash = before)
         /\ (rule.cap # None => cash <= rule.cap)
    BY <2>1, <2>3, CappedIs
  <2> HIDE DEF n, f, k, whole
  <2>13. P!TypeOK'
    BY <1>1, <2>3 DEF P!TypeOK
  <2>14. P!SharesAddUp'
    <3> SUFFICES ASSUME rule.fixed = 0, rule.cap = None, event.gross # None
                 PROVE  IF rule.currency = "USD"
                        THEN P!HalfApart(last'.share * whole, event.gross * (whole - k), whole)
                        ELSE P!HalfApart(last'.share * whole * r, event.gross * (whole - k) * r,
                                         (r + RateScale) * whole)
      BY <2>3 DEF P!SharesAddUp, whole, k
    <3>1. event.gross \in Nat /\ n = event.gross * k /\ f = 0 /\ cash = before
      BY <1>2, <2>9, <2>10, <2>12
    <3>2. CASE rule.currency = "USD"
      <4>1. last'.share = event.gross - P!Rounded(n, whole)
        BY <2>3, <3>1, <3>2 DEF LeftOf
      <4>2. P!HalfApart((event.gross - P!Rounded(n, whole)) * whole, event.gross * (whole - k), whole)
        BY <2>5, <2>6, <2>8, <3>1, KeptInDollars
      <4> QED
        BY <3>2, <4>1, <4>2, Zenon
    <3>3. CASE rule.currency # "USD"
      <4>1. last'.share = event.gross - P!Rounded(cash * RateScale, r)
            /\ cash = P!Rounded(n * r, whole * RateScale)
        BY <2>3, <3>1, <3>3 DEF LeftOf
      <4>2. P!HalfApart((event.gross - P!Rounded(cash * RateScale, r)) * whole * r,
                        event.gross * (whole - k) * r, (r + RateScale) * whole)
        BY <2>5, <2>6, <2>8, <3>1, <4>1, KeptOverConversions
      <4> QED
        BY <3>3, <4>1, <4>2, Zenon
    <3> QED
      BY <3>2, <3>3
  <2>15. P!FixedIsFixed'
    <3> SUFFICES ASSUME rule.cap = None
                 PROVE  /\ cash >= P!Rounded(f, Thousand)
                        /\ (rule.percentage = 0 \/ event.gross \in {None, 0})
                             => cash = P!Rounded(f, Thousand)
      BY <2>3 DEF P!FixedIsFixed, f, Added
    <3> QED
      BY <2>3, <2>11, <2>12
  <2>16. P!GuardRails'
    <3>1. ASSUME last'.share # None, last'.share < 0
          PROVE  rule.fixed > 0 \/ k > whole \/ (rule.currency = "PKR" /\ r < RateScale)
      <4> SUFFICES ASSUME ~ (rule.fixed > 0), ~ (k > whole),
                          ~ (rule.currency = "PKR" /\ r < RateScale)
                   PROVE  FALSE
        OBVIOUS
      <4>1. f = 0 /\ k <= whole
        BY <2>6, <2>7, <2>8, <2>10 DEF Positive
      <4>2. event.gross # None
        BY <2>3, <3>1 DEF LeftOf
      <4>3. event.gross \in Nat /\ n = event.gross * k
        BY <1>2, <2>9, <4>2
      <4>4. /\ P!Rounded(n, whole) <= event.gross
            /\ RateScale <= r => \A x \in Nat : x <= P!Rounded(n * r, whole * RateScale)
                                              => P!Rounded(x * RateScale, r) <= event.gross
        BY <2>5, <2>6, <2>8, <4>1, <4>3, NoMoreThanAll
      <4>5. CASE rule.currency = "USD"
        <5>1. last'.share = event.gross - cash /\ before = P!Rounded(n, whole)
          BY <2>3, <4>1, <4>2, <4>5 DEF LeftOf
        <5>2. cash <= event.gross
          BY <2>12, <4>3, <4>4, <5>1
        <5> QED
          BY <3>1, <4>3, <5>1, <5>2
      <4>6. CASE rule.currency # "USD"
        <5>1. last'.share = event.gross - P!Rounded(cash * RateScale, r)
              /\ before = P!Rounded(n * r, whole * RateScale)
          BY <2>3, <4>1, <4>2, <4>6 DEF LeftOf
        <5>2. RateScale <= r
          BY <2>7, <4>6 DEF Positive
        <5>3. cash * RateScale \in Nat
          BY ProductIsNat
        <5>4. P!Rounded(cash * RateScale, r) <= event.gross /\ P!Rounded(cash * RateScale, r) \in Nat
          BY <2>12, <4>4, <5>1, <5>2, <5>3, RoundedNear
        <5> QED
          BY <3>1, <4>3, <5>1, <5>4
      <4> QED
        BY <4>5, <4>6
    <3> QED
      BY <2>1, <2>3, <2>12, <3>1 DEF P!GuardRails, whole, k
  <2> QED
    BY <2>13, <2>14, <2>15, <2>16 DEF P!PricingSound
<1> QED
  BY <1>3, <1>4

\* Whatever the rules and the revenues are, at any positive rate: shares add up
\* but for the rounding, fixed parts are fixed, and caps and the revenue are
\* limits.
THEOREM PricesAreSound == P!Spec => []P!PricingSound
<1>1. P!Init => P!PricingSound
  BY DEF P!Init, P!PricingSound, P!TypeOK, P!SharesAddUp, P!FixedIsFixed, P!GuardRails
<1>2. P!PricingSound /\ [P!Next]_(P!vars) => P!PricingSound'
  <2> SUFFICES ASSUME P!PricingSound, [P!Next]_(P!vars) PROVE P!PricingSound'
    OBVIOUS
  <2>1. ASSUME last' = last, activeRules' \subseteq DOMAIN Rules, rate' \in Rates
        PROVE  P!PricingSound'
    <3>1. P!TypeOK'
      BY <2>1 DEF P!PricingSound, P!TypeOK
    <3>2. P!SharesAddUp' /\ P!FixedIsFixed' /\ P!GuardRails'
      BY <2>1, Zenon DEF P!PricingSound, P!SharesAddUp, P!FixedIsFixed, P!GuardRails
    <3> QED
      BY <3>1, <3>2 DEF P!PricingSound
  <2>2. P!TypeOK
    BY DEF P!PricingSound
  <2>3. ASSUME NEW i \in DOMAIN Rules, P!ToggleRule(i) PROVE P!PricingSound'
    BY <2>1, <2>2, <2>3 DEF P!ToggleRule, P!TypeOK
  <2>4. ASSUME NEW r \in Rates, P!SetRate(r) PROVE P!PricingSound'
    BY <2>1, <2>2, <2>4 DEF P!SetRate, P!TypeOK
  <2>5. CASE UNCHANGED P!vars
    BY <2>1, <2>2, <2>5 DEF P!vars, P!TypeOK
  <2> QED
    BY <2>2, <2>3, <2>4, <2>5, AwardKeepsSound DEF P!Next
<1> QED
  BY <1>1, <1>2, PTL DEF P!Spec

-----------------------------------------------------------------------------
(* Advertisements                                                          *)

LEMMA SameAdCount == \A X : A!Cardinality(X) = Cardinality(X)
BY DEF A!Cardinality, Cardinality

Impression ==
  [campaign : Campaigns, user : Visitors \union {None}, created : 0..AdMaxTime,
   clicked : BOOLEAN]

\* What a request has picked and not yet shown.
AdCall ==
  {A!Idle} \union [at : {"selected"}, campaign : Campaigns, user : Visitors \union {None}]
           \union [at : {"recorded"}, campaign : Campaigns, user : Visitors \union {None},
                   created : 0..AdMaxTime]

AdTypes ==
  /\ campaigns \subseteq Campaigns /\ providerOn \in BOOLEAN /\ adClock \in 0..AdMaxTime
  /\ shown \in Seq(Impression)
  /\ request \in [AdRequests -> AdCall]

\* Nothing was created in the future.
CreatedBefore ==
  /\ \A i \in DOMAIN shown : shown[i].created <= adClock
  /\ \A r \in AdRequests : request[r].at = "recorded" => request[r].created <= adClock

\* The times that a cap is about, with the cap: any hour, day or interval.
Windows ==
  {[from |-> t, to |-> t + Hour, max |-> max_per_hour] : t \in Nat}
    \union {[from |-> Day * t, to |-> Day * t + Day - 1, max |-> max_per_day] : t \in Nat}
    \union {[from |-> t, to |-> t + min_interval - 1, max |-> 1] :
              t \in {s \in Nat : min_interval > 0}}

\* What u was shown of c at those times, and the requests that may yet add to it.
ShownIn(c, u, v) ==
  {i \in DOMAIN shown : /\ shown[i].campaign = c /\ shown[i].user = u
                        /\ shown[i].created \in v.from .. v.to}

MayAdd(c, u, v, r) ==
  \/ /\ request[r].at = "selected" /\ request[r].campaign = c /\ request[r].user = u
     /\ adClock <= v.to
  \/ /\ request[r].at = "recorded" /\ request[r].campaign = c /\ request[r].user = u
     /\ request[r].created \in v.from .. v.to

HeldFor(c, u, v) == {r \in AdRequests : MayAdd(c, u, v, r)}

\* A cap of p shown and q held, by n requests.
Fitting(p, q, max, n) == p + q <= max + n - 1

Within(c, u, v) ==
  \/ ShownIn(c, u, v) = {} /\ HeldFor(c, u, v) = {}
  \/ Fitting(Cardinality(ShownIn(c, u, v)), Cardinality(HeldFor(c, u, v)), v.max,
             Cardinality(AdRequests))

AdInv ==
  /\ AdTypes /\ CreatedBefore
  /\ \A c \in Campaigns, u \in Visitors, v \in Windows : Within(c, u, v)

LEMMA WindowType ==
  ASSUME NEW v \in Windows
  PROVE  v.from \in Nat /\ v.to \in Int /\ v.max \in Nat
<1> USE AdsConstants
<1>1. CASE v \in {[from |-> t, to |-> t + Hour, max |-> max_per_hour] : t \in Nat}
  BY <1>1
<1>2. CASE v \in {[from |-> Day * t, to |-> Day * t + Day - 1, max |-> max_per_day] : t \in Nat}
  <2>1. PICK t \in Nat : v = [from |-> Day * t, to |-> Day * t + Day - 1, max |-> max_per_day]
    BY <1>2
  <2>2. Day * t \in Nat
    OBVIOUS
  <2> QED
    BY <2>1, <2>2
<1>3. CASE v \in {[from |-> t, to |-> t + min_interval - 1, max |-> 1] :
                    t \in {s \in Nat : min_interval > 0}}
  BY <1>3
<1> QED
  BY <1>1, <1>2, <1>3 DEF Windows

\* The day a moment is in is its only one.
LEMMA DayIsOne ==
  ASSUME NEW t \in Nat, NEW a \in Day * t .. Day * t + Day - 1
  PROVE  a \div Day = t
<1>1. Day \in Positive /\ Day \in Nat
  BY AdsConstants DEF Positive
<1>2. Day * t \in Nat
  BY <1>1
<1>3. a - Day * t \in 0 .. Day - 1 /\ a = Day * t + (a - Day * t)
  BY <1>1, <1>2
<1>4. (Day * t + (a - Day * t)) \div Day = t
  BY <1>1, <1>3, QuotientIsOne
<1> QED
  BY <1>3, <1>4

LEMMA ShownFinite ==
  ASSUME AdTypes, NEW c, NEW u, NEW v
  PROVE  IsFiniteSet(ShownIn(c, u, v)) /\ Cardinality(ShownIn(c, u, v)) \in Nat
<1>1. shown \in Seq(Impression)
  BY DEF AdTypes
<1>2. IsFiniteSet(DOMAIN shown)
  BY <1>1, FS_Interval
<1>3. ShownIn(c, u, v) \in SUBSET DOMAIN shown
  BY DEF ShownIn
<1> QED
  BY <1>2, <1>3, FS_Subset, FS_CardinalityType

LEMMA HeldFinite ==
  ASSUME NEW X \in SUBSET AdRequests
  PROVE  /\ IsFiniteSet(X) /\ Cardinality(X) \in Nat /\ Cardinality(AdRequests) \in Nat
         /\ Cardinality(X) <= Cardinality(AdRequests)
BY FS_Subset, FS_CardinalityType, AdsConstants

\* A window that a campaign is shown in has a check that sees all of it there
\* is so far.
LEMMA CheckSees ==
  ASSUME AdInv, NEW c \in Campaigns, NEW u \in Visitors, NEW v \in Windows, A!FrequencyOk(c, u)
  PROVE  /\ v.max >= 1
         /\ adClock \in v.from .. v.to => Cardinality(ShownIn(c, u, v)) < v.max
<1> USE AdsConstants
<1> DEFINE At(times) == {i \in DOMAIN shown :
             shown[i].campaign = c /\ shown[i].user = u /\ shown[i].created \in times}
<1>1. \A times : A!Shown(c, u, times) = Cardinality(At(times))
  BY SameAdCount DEF A!Shown
<1>2. shown \in Seq(Impression) /\ adClock \in Nat
      /\ \A i \in DOMAIN shown : shown[i].created \in Nat /\ shown[i].created <= adClock
  <2>1. shown \in Seq(Impression) /\ adClock \in 0..AdMaxTime
        /\ \A i \in DOMAIN shown : shown[i].created <= adClock
    BY DEF AdInv, AdTypes, CreatedBefore
  <2>2. \A i \in DOMAIN shown : shown[i] \in Impression
    BY <2>1
  <2> QED
    BY <2>1, <2>2 DEF Impression
<1>3. \A times : IsFiniteSet(At(times)) /\ Cardinality(At(times)) \in Nat
  <2> SUFFICES ASSUME NEW times PROVE IsFiniteSet(At(times)) /\ Cardinality(At(times)) \in Nat
    OBVIOUS
  <2>1. IsFiniteSet(DOMAIN shown)
    BY <1>2, FS_Interval
  <2>2. At(times) \in SUBSET DOMAIN shown
    OBVIOUS
  <2> HIDE DEF At
  <2> QED
    BY <2>1, <2>2, FS_Subset, FS_CardinalityType
<1>4. /\ Cardinality(At(adClock - Hour .. adClock)) < max_per_hour
      /\ Cardinality(At(A!DayOf(adClock \div Day))) < max_per_day
      /\ Cardinality(At(adClock - min_interval + 1 .. adClock)) = 0
  BY <1>1 DEF A!FrequencyOk
\* Whatever the check counts in a superset of the window so far.
<1>5. ASSUME NEW times, \A x \in Nat : x \in v.from .. v.to /\ x <= adClock => x \in times
      PROVE  Cardinality(ShownIn(c, u, v)) <= Cardinality(At(times))
             /\ Cardinality(ShownIn(c, u, v)) \in Nat
  <2>1. ShownIn(c, u, v) \in SUBSET At(times)
    BY <1>2, <1>5 DEF ShownIn
  <2>2. IsFiniteSet(At(times))
    BY <1>3
  <2> HIDE DEF At
  <2> QED
    BY <2>1, <2>2, FS_Subset, FS_CardinalityType
<1> HIDE DEF At
<1>6. CASE v \in {[from |-> t, to |-> t + Hour, max |-> max_per_hour] : t \in Nat}
  <2>1. PICK t \in Nat : v.from = t /\ v.to = t + Hour /\ v.max = max_per_hour
    BY <1>6
  <2>2. max_per_hour >= 1
    BY <1>3, <1>4
  <2>3. ASSUME adClock \in v.from .. v.to
        PROVE  Cardinality(ShownIn(c, u, v)) <= Cardinality(At(adClock - Hour .. adClock))
               /\ Cardinality(ShownIn(c, u, v)) \in Nat
    <3>1. \A x \in Nat : x \in v.from .. v.to /\ x <= adClock => x \in adClock - Hour .. adClock
      BY <1>2, <2>1, <2>3
    <3> QED
      BY <1>5, <3>1
  <2> QED
    BY <1>3, <1>4, <2>1, <2>2, <2>3
<1>7. CASE v \in {[from |-> Day * t, to |-> Day * t + Day - 1, max |-> max_per_day] : t \in Nat}
  <2>1. PICK t \in Nat : v.from = Day * t /\ v.to = Day * t + Day - 1 /\ v.max = max_per_day
    BY <1>7
  <2>2. max_per_day >= 1
    BY <1>3, <1>4
  <2>3. ASSUME adClock \in v.from .. v.to
        PROVE  Cardinality(ShownIn(c, u, v)) <= Cardinality(At(A!DayOf(adClock \div Day)))
               /\ Cardinality(ShownIn(c, u, v)) \in Nat
    <3>1. A!DayOf(adClock \div Day) = v.from .. v.to
      BY <2>1, <2>3, DayIsOne DEF A!DayOf
    <3> QED
      BY <1>5, <3>1
  <2> QED
    BY <1>3, <1>4, <2>1, <2>2, <2>3
<1>8. CASE v \in {[from |-> t, to |-> t + min_interval - 1, max |-> 1] :
                    t \in {s \in Nat : min_interval > 0}}
  <2>1. PICK t \in Nat : v.from = t /\ v.to = t + min_interval - 1 /\ v.max = 1
    BY <1>8
  <2>2. ASSUME adClock \in v.from .. v.to
        PROVE  Cardinality(ShownIn(c, u, v))
                 <= Cardinality(At(adClock - min_interval + 1 .. adClock))
               /\ Cardinality(ShownIn(c, u, v)) \in Nat
    <3>1. \A x \in Nat : x \in v.from .. v.to /\ x <= adClock
                           => x \in adClock - min_interval + 1 .. adClock
      BY <1>2, <2>1, <2>2
    <3> QED
      BY <1>5, <3>1
  <2> QED
    BY <1>3, <1>4, <2>1, <2>2
<1> QED
  BY <1>6, <1>7, <1>8 DEF Windows

-----------------------------------------------------------------------------
(* The steps                                                               *)

LEMMA AdsInit == A!Init => AdInv
<1> SUFFICES ASSUME A!Init PROVE AdInv
  OBVIOUS
<1>1. campaigns = Campaigns /\ providerOn = TRUE /\ shown = << >> /\ adClock = 0
      /\ request = [r \in AdRequests |-> A!Idle]
  BY DEF A!Init
<1>2. AdTypes /\ CreatedBefore
  BY <1>1, AdsConstants DEF AdTypes, CreatedBefore, AdCall, A!Idle
<1>3. \A c, u, v : ShownIn(c, u, v) = {} /\ HeldFor(c, u, v) = {}
  BY <1>1 DEF ShownIn, HeldFor, MayAdd, A!Idle
<1> QED
  BY <1>2, <1>3 DEF AdInv, Within

\* A cap that is kept stays kept while no more is shown or held.
LEMMA StaysWithin ==
  ASSUME AdTypes, NEW c, NEW u, NEW v \in Windows, Within(c, u, v),
         ShownIn(c, u, v)' = ShownIn(c, u, v),
         HeldFor(c, u, v)' \subseteq HeldFor(c, u, v)
  PROVE  Within(c, u, v)'
<1>1. CASE ShownIn(c, u, v) = {} /\ HeldFor(c, u, v) = {}
  BY <1>1 DEF Within
<1>2. CASE Fitting(Cardinality(ShownIn(c, u, v)), Cardinality(HeldFor(c, u, v)), v.max,
                   Cardinality(AdRequests))
  <2>1. HeldFor(c, u, v) \in SUBSET AdRequests
    BY DEF HeldFor
  <2>2. IsFiniteSet(HeldFor(c, u, v)) /\ Cardinality(AdRequests) \in Nat
    BY <2>1, HeldFinite
  <2>3. Cardinality(HeldFor(c, u, v)') <= Cardinality(HeldFor(c, u, v))
        /\ Cardinality(HeldFor(c, u, v)') \in Nat /\ Cardinality(HeldFor(c, u, v)) \in Nat
    BY <2>2, FS_Subset, FS_CardinalityType
  <2>4. Cardinality(ShownIn(c, u, v)) \in Nat /\ v.max \in Nat
    BY ShownFinite, WindowType
  <2>5. Fitting(Cardinality(ShownIn(c, u, v)), Cardinality(HeldFor(c, u, v)'), v.max,
                Cardinality(AdRequests))
    BY <1>2, <2>2, <2>3, <2>4 DEF Fitting
  <2>6. Fitting(Cardinality(ShownIn(c, u, v)'), Cardinality(HeldFor(c, u, v)'), v.max,
                Cardinality(AdRequests))
    BY <2>5, Zenon
  <2> QED
    BY <2>6 DEF Within
<1> QED
  BY <1>1, <1>2 DEF Within

\* The campaigns, the provider and the clicks are nothing to the caps.
LEMMA AdsQuiet ==
  ASSUME AdInv, AdTypes',
         DOMAIN shown' = DOMAIN shown,
         \A i \in DOMAIN shown : /\ shown'[i].campaign = shown[i].campaign
                                 /\ shown'[i].user = shown[i].user
                                 /\ shown'[i].created = shown[i].created,
         \A r \in AdRequests : request'[r] \in {request[r], A!Idle},
         adClock' >= adClock
  PROVE  AdInv'
<1> USE DEF AdInv
<1>1. /\ adClock \in Nat /\ adClock' \in Nat
      /\ \A i \in DOMAIN shown : shown[i].created \in Nat
      /\ \A r \in AdRequests : request[r].at = "recorded" => request[r].created \in Nat
  <2>1. \A i \in DOMAIN shown : shown[i] \in Impression
    BY DEF AdTypes
  <2>2. \A r \in AdRequests : request[r] \in AdCall
    BY DEF AdTypes
  <2>3. \A r \in AdRequests : request[r].at = "recorded" => request[r].created \in 0..AdMaxTime
    BY <2>2 DEF AdCall, A!Idle
  <2> QED
    BY <2>1, <2>3 DEF AdTypes, Impression
<1>2. CreatedBefore'
  <2>1. \A i \in DOMAIN shown' : shown'[i].created <= adClock'
    BY <1>1 DEF CreatedBefore
  <2>2. \A r \in AdRequests : request'[r].at = "recorded" => request'[r].created <= adClock'
    <3> SUFFICES ASSUME NEW r \in AdRequests, request'[r].at = "recorded"
                 PROVE  request'[r].created <= adClock'
      OBVIOUS
    <3>1. request'[r] = request[r]
      BY DEF A!Idle
    <3>2. request[r].at = "recorded"
      BY <3>1
    <3>3. request[r].created <= adClock /\ request[r].created \in Nat
      BY <1>1, <3>2 DEF CreatedBefore
    <3> QED
      BY <1>1, <3>1, <3>3
  <2> QED
    BY <2>1, <2>2 DEF CreatedBefore
<1>3. ASSUME NEW c \in Campaigns, NEW u \in Visitors, NEW v \in Windows
      PROVE  Within(c, u, v)'
  <2>1. ShownIn(c, u, v)' = ShownIn(c, u, v)
    BY DEF ShownIn
  <2>2. ASSUME NEW r \in AdRequests, MayAdd(c, u, v, r)' PROVE MayAdd(c, u, v, r)
    <3>1. request'[r] = request[r]
      BY <2>2 DEF MayAdd, A!Idle
    <3>2. v.to \in Int
      BY WindowType
    <3> QED
      BY <1>1, <2>2, <3>1, <3>2 DEF MayAdd
  <2>3. HeldFor(c, u, v)' \subseteq HeldFor(c, u, v)
    BY <2>2 DEF HeldFor
  <2> QED
    BY <2>1, <2>3, StaysWithin
<1> QED
  BY <1>2, <1>3

LEMMA SelectKeepsInv ==
  ASSUME AdInv, NEW r \in AdRequests, NEW u \in Visitors \union {None}, A!Select(r, u)
  PROVE  AdInv'
<1> USE DEF AdInv
<1>1. PICK c \in campaigns :
        /\ A!FrequencyOk(c, u)
        /\ request' = [request EXCEPT ![r] = [at |-> "selected", campaign |-> c, user |-> u]]
        /\ UNCHANGED <<campaigns, providerOn, shown, adClock>>
  BY DEF A!Select, A!Eligible
<1> DEFINE new == [at |-> "selected", campaign |-> c, user |-> u]
<1>2. c \in Campaigns
  BY DEF AdTypes
<1>3. new \in AdCall /\ new.at = "selected" /\ new.campaign = c /\ new.user = u
  BY <1>2 DEF AdCall
<1> HIDE DEF new
<1>4. request' = [request EXCEPT ![r] = new] /\ request \in [AdRequests -> AdCall]
  BY <1>1 DEF AdTypes, new
<1>5. \A x \in AdRequests : request'[x] = IF x = r THEN new ELSE request[x]
  BY <1>4
<1>6. AdTypes'
  BY <1>1, <1>3, <1>4 DEF AdTypes
<1>7. CreatedBefore'
  BY <1>1, <1>3, <1>5 DEF CreatedBefore
<1>8. ASSUME NEW d \in Campaigns, NEW w \in Visitors, NEW v \in Windows
      PROVE  Within(d, w, v)'
  <2>1. ShownIn(d, w, v)' = ShownIn(d, w, v)
    BY <1>1 DEF ShownIn
  <2>2. CASE ~ (d = c /\ w = u /\ adClock <= v.to)
    <3>1. HeldFor(d, w, v)' \subseteq HeldFor(d, w, v)
      BY <1>1, <1>3, <1>5, <2>2 DEF HeldFor, MayAdd
    <3> QED
      BY <2>1, <3>1, StaysWithin
  <2>3. CASE d = c /\ w = u /\ adClock <= v.to
    <3>1. A!FrequencyOk(d, w)
      BY <1>1, <2>3
    <3>2. v.max >= 1 /\ v.max \in Nat /\ v.from \in Nat /\ v.to \in Int
          /\ (adClock \in v.from .. v.to => Cardinality(ShownIn(d, w, v)) < v.max)
      BY <3>1, CheckSees, WindowType
    <3>3. adClock \in Nat /\ \A i \in DOMAIN shown : shown[i].created \in Nat
                                                /\ shown[i].created <= adClock
      <4>1. \A i \in DOMAIN shown : shown[i] \in Impression
        BY DEF AdTypes
      <4> QED
        BY <4>1 DEF AdTypes, Impression, CreatedBefore
    <3>4. Cardinality(ShownIn(d, w, v)) <= v.max - 1
      <4>1. CASE adClock >= v.from
        BY <2>3, <3>2, <3>3, <4>1, ShownFinite
      <4>2. CASE ~ (adClock >= v.from)
        <5>1. ShownIn(d, w, v) = {}
          BY <3>2, <3>3, <4>2 DEF ShownIn
        <5> QED
          BY <3>2, <5>1, FS_EmptySet
      <4> QED
        BY <4>1, <4>2
    <3>5. HeldFor(d, w, v)' \in SUBSET AdRequests
      BY DEF HeldFor
    <3>6. Cardinality(HeldFor(d, w, v)') <= Cardinality(AdRequests)
          /\ Cardinality(HeldFor(d, w, v)') \in Nat /\ Cardinality(AdRequests) \in Nat
      BY <3>5, HeldFinite
    <3>7. Fitting(Cardinality(ShownIn(d, w, v)), Cardinality(HeldFor(d, w, v)'), v.max,
                  Cardinality(AdRequests))
      BY <3>2, <3>4, <3>6, ShownFinite DEF Fitting
    <3>8. Fitting(Cardinality(ShownIn(d, w, v)'), Cardinality(HeldFor(d, w, v)'), v.max,
                  Cardinality(AdRequests))
      BY <2>1, <3>7, Zenon
    <3> QED
      BY <3>8 DEF Within
  <2> QED
    BY <2>2, <2>3
<1> QED
  BY <1>6, <1>7, <1>8

LEMMA RecordAdKeepsInv ==
  ASSUME AdInv, NEW r \in AdRequests, A!Record(r)
  PROVE  AdInv'
<1> USE DEF AdInv
<1> DEFINE new == [at |-> "recorded", campaign |-> request[r].campaign, user |-> request[r].user,
                   created |-> adClock]
<1>1. /\ request[r].at = "selected"
      /\ request' = [request EXCEPT ![r] = new]
      /\ UNCHANGED <<campaigns, providerOn, shown, adClock>>
  BY DEF A!Record
<1>2. request[r] \in [at : {"selected"}, campaign : Campaigns, user : Visitors \union {None}]
      /\ adClock \in 0..AdMaxTime /\ request \in [AdRequests -> AdCall]
  BY <1>1 DEF AdTypes, AdCall, A!Idle
<1>3. /\ new \in AdCall /\ new.at = "recorded" /\ new.campaign = request[r].campaign
      /\ new.user = request[r].user /\ new.created = adClock
  BY <1>2 DEF AdCall
<1> HIDE DEF new
<1>4. \A x \in AdRequests : request'[x] = IF x = r THEN new ELSE request[x]
  BY <1>1, <1>2
<1>5. AdTypes'
  BY <1>1, <1>2, <1>3 DEF AdTypes
<1>6. CreatedBefore'
  BY <1>1, <1>2, <1>3, <1>4 DEF CreatedBefore
<1>7. ASSUME NEW d \in Campaigns, NEW w \in Visitors, NEW v \in Windows
      PROVE  Within(d, w, v)'
  <2>1. ShownIn(d, w, v)' = ShownIn(d, w, v)
    BY <1>1 DEF ShownIn
  <2>2. ASSUME NEW x \in AdRequests, MayAdd(d, w, v, x)' PROVE MayAdd(d, w, v, x)
    <3>1. CASE x = r
      <4>1. v.from \in Nat /\ v.to \in Int /\ adClock \in Nat
        BY <1>2, WindowType
      <4> QED
        BY <1>1, <1>3, <1>4, <2>2, <3>1, <4>1 DEF MayAdd
    <3>2. CASE x # r
      BY <1>1, <1>4, <2>2, <3>2 DEF MayAdd
    <3> QED
      BY <3>1, <3>2
  <2>3. HeldFor(d, w, v)' \subseteq HeldFor(d, w, v)
    BY <2>2 DEF HeldFor
  <2> QED
    BY <2>1, <2>3, StaysWithin
<1> QED
  BY <1>5, <1>6, <1>7

LEMMA CommitAdKeepsInv ==
  ASSUME AdInv, NEW r \in AdRequests, A!Commit(r)
  PROVE  AdInv'
<1> USE DEF AdInv
<1> DEFINE new == [campaign |-> request[r].campaign, user |-> request[r].user,
                   created |-> request[r].created, clicked |-> FALSE]
           n == Len(shown) + 1
<1>1. /\ request[r].at = "recorded"
      /\ shown' = Append(shown, new)
      /\ request' = [request EXCEPT ![r] = A!Idle]
      /\ UNCHANGED <<campaigns, providerOn, adClock>>
  BY DEF A!Commit
<1>2. /\ request[r] \in [at : {"recorded"}, campaign : Campaigns, user : Visitors \union {None},
                         created : 0..AdMaxTime]
      /\ adClock \in 0..AdMaxTime /\ request \in [AdRequests -> AdCall]
      /\ shown \in Seq(Impression)
  BY <1>1 DEF AdTypes, AdCall, A!Idle
<1>3. /\ new \in Impression /\ new.campaign = request[r].campaign
      /\ new.user = request[r].user /\ new.created = request[r].created
  BY <1>2 DEF Impression
<1> HIDE DEF new
<1>4. /\ shown' \in Seq(Impression) /\ DOMAIN shown' = DOMAIN shown \cup {n}
      /\ n \notin DOMAIN shown /\ shown'[n] = new
      /\ \A i \in DOMAIN shown : shown'[i] = shown[i]
  BY <1>1, <1>2, <1>3
<1> HIDE DEF n
<1>5. \A x \in AdRequests : request'[x] = IF x = r THEN A!Idle ELSE request[x]
  BY <1>1, <1>2
<1>6. AdTypes'
  <2>1. A!Idle \in AdCall
    BY DEF AdCall
  <2> QED
    BY <1>1, <1>2, <1>4, <2>1 DEF AdTypes
<1>7. CreatedBefore'
  <2>1. \A i \in DOMAIN shown' : shown'[i].created <= adClock'
    BY <1>1, <1>3, <1>4 DEF CreatedBefore
  <2>2. \A x \in AdRequests : request'[x].at = "recorded" => request'[x].created <= adClock'
    BY <1>1, <1>5 DEF CreatedBefore, A!Idle
  <2> QED
    BY <2>1, <2>2 DEF CreatedBefore
<1>8. ASSUME NEW d \in Campaigns, NEW w \in Visitors, NEW v \in Windows
      PROVE  Within(d, w, v)'
  <2>1. HeldFor(d, w, v)' = HeldFor(d, w, v) \ {r}
    <3>1. ASSUME NEW x \in AdRequests
          PROVE  MayAdd(d, w, v, x)' <=> (MayAdd(d, w, v, x) /\ x # r)
      BY <1>1, <1>5 DEF MayAdd, A!Idle
    <3> QED
      BY <3>1 DEF HeldFor
  <2>2. CASE ~ MayAdd(d, w, v, r)
    <3>1. ShownIn(d, w, v)' = ShownIn(d, w, v)
      <4>1. ~ (new.campaign = d /\ new.user = w /\ new.created \in v.from .. v.to)
        BY <1>1, <1>3, <2>2 DEF MayAdd
      <4> QED
        BY <1>4, <4>1 DEF ShownIn
    <3> QED
      BY <2>1, <3>1, StaysWithin
  <2>3. CASE MayAdd(d, w, v, r)
    <3>1. ShownIn(d, w, v)' = ShownIn(d, w, v) \cup {n} /\ n \notin ShownIn(d, w, v)
      <4>1. new.campaign = d /\ new.user = w /\ new.created \in v.from .. v.to
        BY <1>1, <1>3, <2>3 DEF MayAdd
      <4> QED
        BY <1>4, <4>1 DEF ShownIn
    <3>2. r \in HeldFor(d, w, v) /\ HeldFor(d, w, v) \in SUBSET AdRequests
      BY <2>3 DEF HeldFor
    <3>3. IsFiniteSet(HeldFor(d, w, v)) /\ Cardinality(AdRequests) \in Nat
          /\ Cardinality(HeldFor(d, w, v)) \in Nat
      BY <3>2, HeldFinite
    <3>4. IsFiniteSet(ShownIn(d, w, v)) /\ Cardinality(ShownIn(d, w, v)) \in Nat
          /\ v.max \in Nat
      BY ShownFinite, WindowType
    <3>5. Cardinality(ShownIn(d, w, v)') = Cardinality(ShownIn(d, w, v)) + 1
      BY <3>1, <3>4, FS_AddElement
    <3>6. Cardinality(HeldFor(d, w, v)') = Cardinality(HeldFor(d, w, v)) - 1
      <4>1. Cardinality(HeldFor(d, w, v) \ {r}) = Cardinality(HeldFor(d, w, v)) - 1
        BY <3>2, <3>3, FS_RemoveElement
      <4> QED
        BY <2>1, <4>1
    <3>7. Fitting(Cardinality(ShownIn(d, w, v)), Cardinality(HeldFor(d, w, v)), v.max,
                  Cardinality(AdRequests))
      BY <3>2 DEF Within
    <3>8. Fitting(Cardinality(ShownIn(d, w, v)'), Cardinality(HeldFor(d, w, v)'), v.max,
                  Cardinality(AdRequests))
      BY <3>3, <3>4, <3>5, <3>6, <3>7 DEF Fitting
    <3> QED
      BY <3>8 DEF Within
  <2> QED
    BY <2>2, <2>3
<1> QED
  BY <1>6, <1>7, <1>8

LEMMA AdsNext == AdInv /\ [A!Next]_(A!vars) => AdInv'
<1> SUFFICES ASSUME AdInv, [A!Next]_(A!vars) PROVE AdInv'
  OBVIOUS
<1>1. /\ campaigns \subseteq Campaigns /\ providerOn \in BOOLEAN /\ adClock \in 0..AdMaxTime
      /\ shown \in Seq(Impression) /\ request \in [AdRequests -> AdCall] /\ AdTypes
  BY DEF AdInv, AdTypes
<1>2. ASSUME NEW r \in AdRequests, A!Abort(r) PROVE AdInv'
  <2>1. request' = [request EXCEPT ![r] = A!Idle] /\ A!Idle \in AdCall
        /\ UNCHANGED <<campaigns, providerOn, shown, adClock>>
    BY <1>2 DEF A!Abort, AdCall
  <2>2. AdTypes' /\ \A x \in AdRequests : request'[x] \in {request[x], A!Idle}
    BY <1>1, <2>1 DEF AdTypes
  <2> QED
    BY <1>1, <2>1, <2>2, AdsQuiet
<1>3. ASSUME NEW i \in DOMAIN shown, A!Click(i) PROVE AdInv'
  <2> DEFINE new == [shown[i] EXCEPT !.clicked = TRUE]
  <2>1. shown[i] \in Impression
    BY <1>1
  <2>2. /\ new \in Impression /\ new.campaign = shown[i].campaign /\ new.user = shown[i].user
        /\ new.created = shown[i].created
    BY <2>1 DEF Impression
  <2>3. shown' = [shown EXCEPT ![i] = new] /\ UNCHANGED <<campaigns, providerOn, request, adClock>>
    BY <1>3 DEF A!Click
  <2> HIDE DEF new
  <2>4. shown' \in Seq(Impression) /\ DOMAIN shown' = DOMAIN shown
        /\ \A j \in DOMAIN shown : shown'[j] = IF j = i THEN new ELSE shown[j]
    BY <1>1, <2>2, <2>3
  <2>5. AdTypes'
    BY <1>1, <2>3, <2>4 DEF AdTypes
  <2>6. \A j \in DOMAIN shown : /\ shown'[j].campaign = shown[j].campaign
                                /\ shown'[j].user = shown[j].user
                                /\ shown'[j].created = shown[j].created
    BY <2>2, <2>4
  <2> QED
    BY <1>1, <2>3, <2>4, <2>5, <2>6, AdsQuiet
<1>4. ASSUME UNCHANGED <<shown, request>>, campaigns' \subseteq Campaigns,
             providerOn' \in BOOLEAN, adClock' \in adClock..AdMaxTime
      PROVE  AdInv'
  <2>1. adClock' \in 0..AdMaxTime /\ adClock' >= adClock
    BY <1>1, <1>4, AdsConstants
  <2>2. AdTypes'
    BY <1>1, <1>4, <2>1 DEF AdTypes
  <2> QED
    BY <1>4, <2>1, <2>2, AdsQuiet
<1>5. adClock \in adClock..AdMaxTime
  BY <1>1, AdsConstants
<1>6. ASSUME NEW c \in Campaigns, A!ToggleCampaign(c) PROVE AdInv'
  BY <1>1, <1>4, <1>5, <1>6 DEF A!ToggleCampaign
<1>7. ASSUME A!ToggleProvider PROVE AdInv'
  BY <1>1, <1>4, <1>5, <1>7 DEF A!ToggleProvider
<1>8. ASSUME A!Tick PROVE AdInv'
  <2>1. adClock' \in adClock..AdMaxTime
    BY <1>1, <1>8, AdsConstants DEF A!Tick
  <2> QED
    BY <1>1, <1>4, <1>8, <2>1 DEF A!Tick
<1>9. CASE UNCHANGED A!vars
  BY <1>1, <1>4, <1>5, <1>9 DEF A!vars
<1> QED
  BY <1>2, <1>3, <1>6, <1>7, <1>8, <1>9, SelectKeepsInv, RecordAdKeepsInv, CommitAdKeepsInv
     DEF A!Next

\* Over any hour, day or interval, whenever it begins, a user is shown a
\* campaign no more often than its cap says and the other requests that are
\* served at the same time add.
THEOREM AdsAreSound == A!Spec => []A!AdsSound
<1> USE AdsConstants
<1>1. AdInv => A!TypeOK
  <2> SUFFICES ASSUME AdInv PROVE A!TypeOK
    OBVIOUS
  <2>1. AdTypes /\ shown \in Seq(Impression)
    BY DEF AdInv, AdTypes
  <2>2. \A i \in DOMAIN shown : shown[i] \in Impression
    BY <2>1
  <2>3. \A r \in AdRequests : request[r].at \in {"idle", "selected", "recorded"}
    BY <2>1 DEF AdTypes, AdCall, A!Idle
  <2> QED
    BY <2>1, <2>2, <2>3 DEF AdTypes, A!TypeOK, Impression
<1>2. AdInv => A!CapsOvershootBounded
  <2> SUFFICES ASSUME AdInv PROVE A!CapsOvershootBounded
    OBVIOUS
  <2>1. ASSUME NEW c \in Campaigns, NEW u \in Visitors, NEW v \in Windows
        PROVE  A!Shown(c, u, v.from .. v.to) <= v.max + A!Overshoot
    <3>1. A!Shown(c, u, v.from .. v.to) = Cardinality(ShownIn(c, u, v))
      BY SameAdCount DEF A!Shown, ShownIn
    <3>2. HeldFor(c, u, v) \in SUBSET AdRequests
      BY DEF HeldFor
    <3>3. Cardinality(HeldFor(c, u, v)) \in Nat /\ Cardinality(AdRequests) \in Nat
      BY <3>2, HeldFinite
    <3>4. Cardinality(AdRequests) >= 1
      BY <3>3, FS_EmptySet
    <3>5. Cardinality(ShownIn(c, u, v)) \in Nat /\ v.max \in Nat
      BY ShownFinite, WindowType DEF AdInv
    <3>6. Cardinality(ShownIn(c, u, v)) <= v.max + (Cardinality(AdRequests) - 1)
      <4>1. CASE ShownIn(c, u, v) = {}
        BY <3>3, <3>4, <3>5, <4>1, FS_EmptySet
      <4>2. CASE Fitting(Cardinality(ShownIn(c, u, v)), Cardinality(HeldFor(c, u, v)), v.max,
                         Cardinality(AdRequests))
        BY <3>3, <3>4, <3>5, <4>2 DEF Fitting
      <4> QED
        BY <4>1, <4>2 DEF AdInv, Within
    <3>7. A!Overshoot = Cardinality(AdRequests) - 1
      BY SameAdCount DEF A!Overshoot
    <3> QED
      BY <3>1, <3>6, <3>7
  <2>2. ASSUME NEW c \in Campaigns, NEW u \in Visitors, NEW t \in 0..AdMaxTime
        PROVE  /\ A!Shown(c, u, t .. t + Hour) <= max_per_hour + A!Overshoot
               /\ A!Shown(c, u, A!DayOf(t)) <= max_per_day + A!Overshoot
               /\ min_interval > 0 =>
                    A!Shown(c, u, t .. t + min_interval - 1) <= 1 + A!Overshoot
    <3>1. t \in Nat
      OBVIOUS
    <3>2. A!Shown(c, u, t .. t + Hour) <= max_per_hour + A!Overshoot
      <4> DEFINE v == [from |-> t, to |-> t + Hour, max |-> max_per_hour]
      <4>1. v \in Windows /\ v.from = t /\ v.to = t + Hour /\ v.max = max_per_hour
        BY <3>1 DEF Windows
      <4> HIDE DEF v
      <4> QED
        BY <2>1, <4>1
    <3>3. A!Shown(c, u, A!DayOf(t)) <= max_per_day + A!Overshoot
      <4> DEFINE v == [from |-> Day * t, to |-> Day * t + Day - 1, max |-> max_per_day]
      <4>1. v \in Windows /\ v.from = Day * t /\ v.to = Day * t + Day - 1 /\ v.max = max_per_day
        BY <3>1 DEF Windows
      <4>2. A!DayOf(t) = v.from .. v.to
        BY DEF A!DayOf
      <4> HIDE DEF v
      <4> QED
        BY <2>1, <4>1, <4>2
    <3>4. ASSUME min_interval > 0
          PROVE  A!Shown(c, u, t .. t + min_interval - 1) <= 1 + A!Overshoot
      <4> DEFINE v == [from |-> t, to |-> t + min_interval - 1, max |-> 1]
      <4>1. v \in Windows /\ v.from = t /\ v.to = t + min_interval - 1 /\ v.max = 1
        BY <3>1, <3>4 DEF Windows
      <4> HIDE DEF v
      <4> QED
        BY <2>1, <4>1
    <3> QED
      BY <3>2, <3>3, <3>4
  <2> QED
    BY <2>2 DEF A!CapsOvershootBounded
<1> QED
  BY <1>1, <1>2, AdsInit, AdsNext, PTL DEF A!Spec, A!AdsSound

-----------------------------------------------------------------------------
(* Settings                                                                *)

\* What a process is doing: reading, saving the setting, or switching.
SettingsCall ==
  {S!Idle} \union [at : {"read"}, value : Values, since : Nat]
           \union [at : {"loaded", "saved", "cleared"}, old : Values \union {None},
                   new : Values, since : Nat]
           \union [at : {"toggling", "toggled"}, new : BOOLEAN, since : Nat]

SettingsTypes ==
  /\ row \in Values \union {None} /\ flag \in BOOLEAN
  /\ versions \in Seq([old : Values \union {None}, new : Values])
  /\ audit \in Seq(BOOLEAN)
  /\ cache \in [S!Caches -> {None} \union [value : Values, expires : Nat]]
  /\ locked \in [{"row", "flag"} -> Processes \union {None}]
  /\ process \in [Processes -> SettingsCall]
  /\ heldUntil \in [Values -> Nat]
  /\ clock \in 0..MaxTime /\ edits \in 0..MaxEdits

\* A request that goes on began at most Timeout ago, ...
CallsAreYoung ==
  \A p \in Processes : process[p] # S!Idle =>
    process[p].since <= clock /\ clock <= process[p].since + Timeout

\* ... what it read was in force at that moment or later, ...
ReadsWereInForce ==
  \A p \in Processes : process[p].at = "read" =>
    process[p].value = S!Stored \/ process[p].since <= heldUntil[process[p].value]

\* ... and so what it cached expires a lifetime and a timeout after that.
EntriesWereInForce ==
  \A c \in S!Caches : cache[c] # None =>
    /\ cache[c].expires <= clock + CACHE_TTL
    /\ \/ cache[c].value = S!Stored
       \/ cache[c].expires <= heldUntil[cache[c].value] + CACHE_TTL + Timeout

SettingsInv ==
  /\ SettingsTypes /\ S!HistoryEndsAtValue
  /\ CallsAreYoung /\ ReadsWereInForce /\ EntriesWereInForce

LEMMA SettingsInit == S!Init => SettingsInv
<1> SUFFICES ASSUME S!Init PROVE SettingsInv
  OBVIOUS
<1>1. SettingsTypes
  <2>1. process \in [Processes -> SettingsCall]
    BY DEF S!Init, SettingsCall
  <2>2. versions \in Seq([old : Values \union {None}, new : Values]) /\ audit \in Seq(BOOLEAN)
    BY DEF S!Init
  <2>3. clock \in 0..MaxTime /\ edits \in 0..MaxEdits
    BY SettingsConstants DEF S!Init
  <2>4. heldUntil \in [Values -> Nat] /\ row \in Values \union {None} /\ flag \in BOOLEAN
    BY DEF S!Init
  <2>5. cache \in [S!Caches -> {None} \union [value : Values, expires : Nat]]
    BY DEF S!Init
  <2>6. locked \in [{"row", "flag"} -> Processes \union {None}]
    BY DEF S!Init
  <2> QED
    BY <2>1, <2>2, <2>3, <2>4, <2>5, <2>6 DEF SettingsTypes
<1>2. S!HistoryEndsAtValue
  BY DEF S!Init, S!HistoryEndsAtValue
<1>3. CallsAreYoung /\ EntriesWereInForce
  BY DEF S!Init, CallsAreYoung, EntriesWereInForce
<1>4. ReadsWereInForce
  BY DEF S!Init, ReadsWereInForce, S!Idle
<1> QED
  BY <1>1, <1>2, <1>3, <1>4 DEF SettingsInv

LEMMA StoredIsValue == SettingsTypes => S!Stored \in Values
BY SettingsConstants DEF SettingsTypes, S!Stored

\* Steps that leave the setting, its caches and the clock alone: what they do
\* to one process is all there is to look at.
LEMMA SettingsCallStep ==
  ASSUME SettingsInv, NEW p \in Processes, NEW next \in SettingsCall,
         process' = [process EXCEPT ![p] = next],
         next # S!Idle => next.since <= clock /\ clock <= next.since + Timeout,
         next.at = "read" => next.value = S!Stored,
         UNCHANGED <<row, cache, heldUntil, clock>>
  PROVE  CallsAreYoung' /\ ReadsWereInForce' /\ EntriesWereInForce'
<1>1. \A x \in Processes : process'[x] = IF x = p THEN next ELSE process[x]
  BY DEF SettingsInv, SettingsTypes
<1>2. S!Stored' = S!Stored
  BY DEF S!Stored
<1> QED
  BY <1>1, <1>2 DEF SettingsInv, CallsAreYoung, ReadsWereInForce, EntriesWereInForce, S!Idle

\* What each kind of call looks like.
LEMMA SettingsCallForms ==
  ASSUME NEW x \in SettingsCall
  PROVE  /\ x.at = "read" => x.value \in Values
         /\ x.at \in {"loaded", "saved", "cleared"} =>
              x \in [at : {"loaded", "saved", "cleared"}, old : Values \union {None},
                     new : Values, since : Nat]
         /\ x.at \in {"toggling", "toggled"} =>
              x \in [at : {"toggling", "toggled"}, new : BOOLEAN, since : Nat]
         /\ x # S!Idle => x.since \in Nat
BY DEF SettingsCall, S!Idle

\* Requests that do not touch the setting or its caches yet, or end.
LEMMA QuietSettings ==
  ASSUME SettingsInv, NEW p \in Processes,
         \/ S!ReadRow(p) \/ (\E v \in Values : S!LoadRow(p, v)) \/ S!SaveRow(p)
         \/ S!ReadFlag(p) \/ S!SaveFlag(p) \/ S!CommitFlag(p) \/ S!Abort(p)
  PROVE  SettingsInv'
<1> DEFINE Fine(next) ==
      /\ next \in SettingsCall
      /\ next # S!Idle => next.since <= clock /\ clock <= next.since + Timeout
      /\ next.at = "read" => next.value = S!Stored
<1>1. SettingsTypes /\ S!HistoryEndsAtValue /\ CallsAreYoung /\ clock \in Nat /\ Timeout \in Nat
  BY SettingsConstants DEF SettingsInv, SettingsTypes
<1>2. process[p] \in SettingsCall
  BY <1>1 DEF SettingsTypes
<1>3. Fine(S!Idle)
  BY DEF S!Idle, SettingsCall
<1>4. ASSUME NEW next, Fine(next), process' = [process EXCEPT ![p] = next],
             UNCHANGED <<row, cache, heldUntil, clock>>,
             \/ UNCHANGED <<versions, flag, audit>>
             \/ /\ UNCHANGED versions /\ flag' \in BOOLEAN
                /\ audit' = Append(audit, flag'),
             locked' \in [{"row", "flag"} -> Processes \union {None}], edits' \in 0..MaxEdits
      PROVE  SettingsInv'
  <2>1. SettingsTypes'
    <3>1. audit' \in Seq(BOOLEAN) /\ flag' \in BOOLEAN
      <4>1. audit \in Seq(BOOLEAN) /\ flag \in BOOLEAN
        BY <1>1 DEF SettingsTypes
      <4>2. CASE UNCHANGED <<versions, flag, audit>>
        BY <4>1, <4>2
      <4>3. CASE flag' \in BOOLEAN /\ audit' = Append(audit, flag')
        BY <4>1, <4>3, AppendProperties, Zenon
      <4> QED
        BY <1>4, <4>2, <4>3
    <3>2. process' \in [Processes -> SettingsCall]
      BY <1>1, <1>4 DEF SettingsTypes
    <3> QED
      BY <1>1, <1>4, <3>1, <3>2 DEF SettingsTypes
  <2>2. S!HistoryEndsAtValue'
    BY <1>1, <1>4 DEF SettingsTypes, S!HistoryEndsAtValue
  <2>3. CallsAreYoung' /\ ReadsWereInForce' /\ EntriesWereInForce'
    BY <1>4, SettingsCallStep
  <2> QED
    BY <2>1, <2>2, <2>3 DEF SettingsInv
<1>5. locked \in [{"row", "flag"} -> Processes \union {None}] /\ edits \in 0..MaxEdits
      /\ MaxEdits \in Nat /\ flag \in BOOLEAN /\ row \in Values \union {None}
  BY <1>1, SettingsConstants DEF SettingsTypes
<1>6. CASE S!ReadRow(p)
  <2> DEFINE next == [at |-> "read", value |-> S!Stored, since |-> clock]
  <2>1. Fine(next)
    BY <1>1, StoredIsValue DEF SettingsCall
  <2>2. process' = [process EXCEPT ![p] = next]
        /\ UNCHANGED <<row, versions, flag, audit, cache, locked, heldUntil, clock, edits>>
    BY <1>6 DEF S!ReadRow
  <2> HIDE DEF next, Fine
  <2> QED
    BY <1>4, <1>5, <2>1, <2>2
<1>7. ASSUME NEW v \in Values, S!LoadRow(p, v) PROVE SettingsInv'
  <2> DEFINE next == [at |-> "loaded", old |-> row, new |-> v, since |-> clock]
  <2>1. Fine(next)
    BY <1>1, <1>5 DEF SettingsCall
  <2>2. process' = [process EXCEPT ![p] = next] /\ edits' \in 0..MaxEdits
        /\ UNCHANGED <<row, versions, flag, audit, cache, heldUntil, clock>>
    BY <1>5, <1>7 DEF S!LoadRow
  <2>3. locked' \in [{"row", "flag"} -> Processes \union {None}]
    BY <1>5, <1>7 DEF S!LoadRow
  <2> HIDE DEF next, Fine
  <2> QED
    BY <1>4, <2>1, <2>2, <2>3
<1>8. CASE S!SaveRow(p)
  <2> DEFINE next == [process[p] EXCEPT !.at = "saved"]
  <2>1. process[p] \in [at : {"loaded", "saved", "cleared"}, old : Values \union {None},
                         new : Values, since : Nat] /\ process[p] # S!Idle
    BY <1>2, <1>8, SettingsCallForms DEF S!SaveRow, S!Idle
  <2>2. next \in [at : {"loaded", "saved", "cleared"}, old : Values \union {None},
                  new : Values, since : Nat] /\ next.since = process[p].since /\ next.at = "saved"
    BY <2>1
  <2>3. Fine(next)
    BY <1>1, <2>1, <2>2 DEF SettingsCall, CallsAreYoung
  <2>4. process' = [process EXCEPT ![p] = next]
        /\ UNCHANGED <<row, versions, flag, audit, cache, heldUntil, clock, edits>>
        /\ locked' \in [{"row", "flag"} -> Processes \union {None}]
    BY <1>5, <1>8 DEF S!SaveRow
  <2> HIDE DEF next, Fine
  <2> QED
    BY <1>4, <1>5, <2>3, <2>4
<1>9. CASE S!ReadFlag(p)
  <2> DEFINE next == [at |-> "toggling", new |-> ~flag, since |-> clock]
  <2>1. Fine(next)
    BY <1>1, <1>5 DEF SettingsCall
  <2>2. process' = [process EXCEPT ![p] = next] /\ edits' \in 0..MaxEdits
        /\ UNCHANGED <<row, versions, flag, audit, cache, locked, heldUntil, clock>>
    BY <1>5, <1>9 DEF S!ReadFlag
  <2> HIDE DEF next, Fine
  <2> QED
    BY <1>4, <1>5, <2>1, <2>2
<1>10. CASE S!SaveFlag(p)
  <2> DEFINE next == [process[p] EXCEPT !.at = "toggled"]
  <2>1. process[p] \in [at : {"toggling", "toggled"}, new : BOOLEAN, since : Nat]
        /\ process[p] # S!Idle
    BY <1>2, <1>10, SettingsCallForms DEF S!SaveFlag, S!Idle
  <2>2. next \in [at : {"toggling", "toggled"}, new : BOOLEAN, since : Nat]
        /\ next.since = process[p].since /\ next.at = "toggled"
    BY <2>1
  <2>3. Fine(next)
    BY <1>1, <2>1, <2>2 DEF SettingsCall, CallsAreYoung
  <2>4. process' = [process EXCEPT ![p] = next]
        /\ UNCHANGED <<row, versions, flag, audit, cache, heldUntil, clock, edits>>
        /\ locked' \in [{"row", "flag"} -> Processes \union {None}]
    BY <1>5, <1>10 DEF S!SaveFlag
  <2> HIDE DEF next, Fine
  <2> QED
    BY <1>4, <1>5, <2>3, <2>4
<1>11. CASE S!CommitFlag(p)
  <2>1. process[p].new \in BOOLEAN
    BY <1>2, <1>11, SettingsCallForms DEF S!CommitFlag
  <2>2. process' = [process EXCEPT ![p] = S!Idle] /\ flag' \in BOOLEAN
        /\ audit' = Append(audit, flag')
        /\ UNCHANGED <<row, versions, cache, heldUntil, clock, edits>>
        /\ locked' \in [{"row", "flag"} -> Processes \union {None}]
    BY <1>5, <1>11, <2>1 DEF S!CommitFlag
  <2> HIDE DEF Fine
  <2> QED
    BY <1>3, <1>4, <1>5, <2>2
<1>12. CASE S!Abort(p)
  <2>1. process' = [process EXCEPT ![p] = S!Idle]
        /\ UNCHANGED <<row, versions, flag, audit, cache, heldUntil, clock, edits>>
        /\ locked' \in [{"row", "flag"} -> Processes \union {None}]
    BY <1>5, <1>12 DEF S!Abort
  <2> HIDE DEF Fine
  <2> QED
    BY <1>3, <1>4, <1>5, <2>1
<1> QED
  BY <1>6, <1>7, <1>8, <1>9, <1>10, <1>11, <1>12

LEMMA FillCacheKeepsInv ==
  ASSUME SettingsInv, NEW p \in Processes, S!FillCache(p)
  PROVE  SettingsInv'
<1> DEFINE entry == [value |-> process[p].value, expires |-> clock + CACHE_TTL]
<1>1. /\ process[p].at = "read" /\ process' = [process EXCEPT ![p] = S!Idle]
      /\ cache' = [cache EXCEPT ![CacheOf[p]] = entry]
      /\ UNCHANGED <<row, versions, flag, audit, locked, heldUntil, clock, edits>>
  BY DEF S!FillCache, S!Entry
<1>2. SettingsTypes /\ process[p] \in SettingsCall /\ process[p] # S!Idle
      /\ clock \in Nat /\ CACHE_TTL \in Nat /\ Timeout \in Nat
  BY <1>1, SettingsConstants DEF SettingsInv, SettingsTypes, S!Idle
<1>3. process[p].value \in Values /\ process[p].since \in Nat
  BY <1>1, <1>2, SettingsCallForms
<1>4. entry \in [value : Values, expires : Nat] /\ entry.expires = clock + CACHE_TTL
      /\ entry.value = process[p].value
  BY <1>2, <1>3
<1>5. heldUntil[process[p].value] \in Nat
  BY <1>2, <1>3 DEF SettingsTypes
<1>6. entry.value = S!Stored \/ entry.expires <= heldUntil[entry.value] + CACHE_TTL + Timeout
  <2>1. process[p].value = S!Stored \/ process[p].since <= heldUntil[process[p].value]
    BY <1>1 DEF SettingsInv, ReadsWereInForce
  <2>2. clock <= process[p].since + Timeout
    BY <1>2 DEF SettingsInv, CallsAreYoung
  <2> QED
    BY <1>2, <1>3, <1>4, <1>5, <2>1, <2>2
<1> HIDE DEF entry
<1>7. S!Idle \in SettingsCall
  BY DEF SettingsCall
<1>8. SettingsTypes'
  BY <1>1, <1>2, <1>4, <1>7 DEF SettingsTypes
<1>9. S!HistoryEndsAtValue' /\ S!Stored' = S!Stored
  BY <1>1 DEF SettingsInv, S!HistoryEndsAtValue, S!Stored
<1>10. CallsAreYoung' /\ ReadsWereInForce'
  <2>1. \A x \in Processes : process'[x] = IF x = p THEN S!Idle ELSE process[x]
    BY <1>1, <1>2 DEF SettingsTypes
  <2> QED
    BY <1>1, <1>9, <2>1 DEF SettingsInv, CallsAreYoung, ReadsWereInForce, S!Idle
<1>11. EntriesWereInForce'
  <2>1. \A c \in S!Caches : cache'[c] = IF c = CacheOf[p] THEN entry ELSE cache[c]
    BY <1>1, <1>2 DEF SettingsTypes
  <2> QED
    BY <1>1, <1>2, <1>4, <1>6, <1>9, <2>1 DEF SettingsInv, EntriesWereInForce
<1> QED
  BY <1>8, <1>9, <1>10, <1>11 DEF SettingsInv

LEMMA ClearCacheKeepsInv ==
  ASSUME SettingsInv, NEW p \in Processes, S!ClearCache(p)
  PROVE  SettingsInv'
<1> DEFINE next == [process[p] EXCEPT !.at = "cleared"]
<1>1. /\ process[p].at = "saved" /\ process' = [process EXCEPT ![p] = next]
      /\ cache' = [cache EXCEPT ![CacheOf[p]] = None]
      /\ UNCHANGED <<row, versions, flag, audit, locked, heldUntil, clock, edits>>
  BY DEF S!ClearCache
<1>2. SettingsTypes
  BY DEF SettingsInv
<1>3. process[p] \in [at : {"loaded", "saved", "cleared"}, old : Values \union {None},
                       new : Values, since : Nat] /\ process[p] # S!Idle
  BY <1>1, <1>2, SettingsCallForms DEF SettingsTypes, S!Idle
<1>4. next \in [at : {"loaded", "saved", "cleared"}, old : Values \union {None},
                new : Values, since : Nat] /\ next.since = process[p].since /\ next.at = "cleared"
  BY <1>3
<1>5. next \in SettingsCall
  BY <1>4 DEF SettingsCall
<1> HIDE DEF next
<1>6. SettingsTypes'
  BY <1>1, <1>2, <1>5 DEF SettingsTypes
<1>7. S!HistoryEndsAtValue' /\ S!Stored' = S!Stored
  BY <1>1 DEF SettingsInv, S!HistoryEndsAtValue, S!Stored
<1>8. CallsAreYoung' /\ ReadsWereInForce'
  <2>1. \A x \in Processes : process'[x] = IF x = p THEN next ELSE process[x]
    BY <1>1, <1>2 DEF SettingsTypes
  <2> QED
    BY <1>1, <1>3, <1>4, <1>7, <2>1 DEF SettingsInv, CallsAreYoung, ReadsWereInForce
<1>9. EntriesWereInForce'
  <2>1. \A c \in S!Caches : cache'[c] = IF c = CacheOf[p] THEN None ELSE cache[c]
    BY <1>1, <1>2 DEF SettingsTypes
  <2> QED
    BY <1>1, <1>7, <2>1 DEF SettingsInv, EntriesWereInForce
<1> QED
  BY <1>6, <1>7, <1>8, <1>9 DEF SettingsInv

\* The value that was in force is marked as replaced now: what was read of it
\* is not older, and what is cached of it expires a lifetime from now.
LEMMA CommitRowKeepsInv ==
  ASSUME SettingsInv, NEW p \in Processes, S!CommitRow(p)
  PROVE  SettingsInv'
<1> DEFINE version == [old |-> process[p].old, new |-> process[p].new]
<1>1. /\ process[p].at = "cleared" /\ process' = [process EXCEPT ![p] = S!Idle]
      /\ heldUntil' = [heldUntil EXCEPT ![S!Stored] = clock]
      /\ row' = process[p].new /\ versions' = Append(versions, version)
      /\ locked' = [locked EXCEPT !["row"] = None]
      /\ UNCHANGED <<flag, audit, cache, clock, edits>>
  BY DEF S!CommitRow
<1>2. SettingsTypes /\ clock \in Nat /\ CACHE_TTL \in Nat /\ Timeout \in Nat
      /\ S!Stored \in Values
  BY SettingsConstants, StoredIsValue DEF SettingsInv, SettingsTypes
<1>3. process[p] \in [at : {"loaded", "saved", "cleared"}, old : Values \union {None},
                       new : Values, since : Nat]
  BY <1>1, <1>2, SettingsCallForms DEF SettingsTypes
<1>4. version \in [old : Values \union {None}, new : Values] /\ version.new = row'
      /\ row' \in Values
  BY <1>1, <1>3
<1> HIDE DEF version
<1>5. S!Idle \in SettingsCall
  BY DEF SettingsCall
<1>6. SettingsTypes'
  <2>1. versions' \in Seq([old : Values \union {None}, new : Values])
    BY <1>1, <1>2, <1>4 DEF SettingsTypes
  <2>2. process' \in [Processes -> SettingsCall]
    BY <1>1, <1>2, <1>5 DEF SettingsTypes
  <2>3. locked' \in [{"row", "flag"} -> Processes \union {None}]
    BY <1>1, <1>2 DEF SettingsTypes
  <2> QED
    BY <1>1, <1>2, <1>4, <2>1, <2>2, <2>3 DEF SettingsTypes
<1>7. S!HistoryEndsAtValue'
  <2>1. Len(versions') > 0 /\ versions'[Len(versions')] = version
    BY <1>1, <1>2, <1>4 DEF SettingsTypes
  <2> QED
    BY <1>1, <1>4, <2>1 DEF SettingsInv, S!HistoryEndsAtValue
<1>8. \A x \in Processes : process'[x] = IF x = p THEN S!Idle ELSE process[x]
  BY <1>1, <1>2 DEF SettingsTypes
<1>9. \A v \in Values : /\ heldUntil'[v] = IF v = S!Stored THEN clock ELSE heldUntil[v]
                        /\ heldUntil[v] \in Nat
  BY <1>1, <1>2 DEF SettingsTypes
<1>10. CallsAreYoung'
  BY <1>1, <1>8 DEF SettingsInv, CallsAreYoung
<1>11. ReadsWereInForce'
  <2> SUFFICES ASSUME NEW x \in Processes, process'[x].at = "read"
               PROVE  process'[x].since <= heldUntil'[process'[x].value]
    BY DEF ReadsWereInForce
  <2>1. process'[x] = process[x] /\ process[x].at = "read" /\ process[x] # S!Idle
    BY <1>8 DEF S!Idle
  <2>2. process[x].value \in Values /\ process[x].since \in Nat
    BY <1>2, <2>1, SettingsCallForms DEF SettingsTypes
  <2>3. process[x].since <= clock
    BY <2>1 DEF SettingsInv, CallsAreYoung
  <2>4. process[x].value = S!Stored \/ process[x].since <= heldUntil[process[x].value]
    BY <2>1 DEF SettingsInv, ReadsWereInForce
  <2> QED
    BY <1>9, <2>1, <2>2, <2>3, <2>4
<1>12. EntriesWereInForce'
  <2> SUFFICES ASSUME NEW c \in S!Caches, cache[c] # None
               PROVE  /\ cache[c].expires <= clock + CACHE_TTL
                      /\ cache[c].expires <= heldUntil'[cache[c].value] + CACHE_TTL + Timeout
    BY <1>1 DEF EntriesWereInForce
  <2>1. cache[c].value \in Values /\ cache[c].expires \in Nat
    BY <1>2 DEF SettingsTypes
  <2>2. /\ cache[c].expires <= clock + CACHE_TTL
        /\ \/ cache[c].value = S!Stored
           \/ cache[c].expires <= heldUntil[cache[c].value] + CACHE_TTL + Timeout
    BY DEF SettingsInv, EntriesWereInForce
  <2> QED
    BY <1>2, <1>9, <2>1, <2>2
<1> QED
  BY <1>6, <1>7, <1>10, <1>11, <1>12 DEF SettingsInv

LEMMA SettingsTickKeepsInv ==
  ASSUME SettingsInv, S!Tick
  PROVE  SettingsInv'
<1>1. /\ clock < MaxTime /\ clock' = clock + 1 /\ clock \in Nat /\ CACHE_TTL \in Nat
      /\ \A p \in Processes : process[p] # S!Idle => clock < process[p].since + Timeout
      /\ UNCHANGED <<row, versions, flag, audit, cache, locked, process, heldUntil, edits>>
  BY SettingsConstants DEF S!Tick, SettingsInv, SettingsTypes
<1>2. SettingsTypes /\ MaxTime \in Nat /\ Timeout \in Nat
  BY SettingsConstants DEF SettingsInv
<1>3. SettingsTypes' /\ S!HistoryEndsAtValue' /\ S!Stored' = S!Stored
  BY <1>1, <1>2 DEF SettingsInv, SettingsTypes, S!HistoryEndsAtValue, S!Stored
<1>4. CallsAreYoung'
  <2> SUFFICES ASSUME NEW p \in Processes, process[p] # S!Idle
               PROVE  process[p].since <= clock + 1 /\ clock + 1 <= process[p].since + Timeout
    BY <1>1 DEF CallsAreYoung
  <2>1. process[p].since \in Nat
    BY <1>2, SettingsCallForms DEF SettingsTypes
  <2>2. process[p].since <= clock /\ clock < process[p].since + Timeout
    BY <1>1 DEF SettingsInv, CallsAreYoung
  <2> QED
    BY <1>1, <1>2, <2>1, <2>2
<1>5. ReadsWereInForce'
  BY <1>1, <1>3 DEF SettingsInv, ReadsWereInForce
<1>6. EntriesWereInForce'
  <2> SUFFICES ASSUME NEW c \in S!Caches, cache[c] # None
               PROVE  cache[c].expires <= clock + 1 + CACHE_TTL
    BY <1>1, <1>3 DEF SettingsInv, EntriesWereInForce
  <2>1. cache[c].expires \in Nat /\ cache[c].expires <= clock + CACHE_TTL
    BY <1>2 DEF SettingsTypes, SettingsInv, EntriesWereInForce
  <2> QED
    BY <1>1, <2>1
<1> QED
  BY <1>3, <1>4, <1>5, <1>6 DEF SettingsInv

LEMMA SettingsNext == SettingsInv /\ [S!Next]_(S!vars) => SettingsInv'
<1> SUFFICES ASSUME SettingsInv, [S!Next]_(S!vars) PROVE SettingsInv'
  OBVIOUS
<1>1. CASE UNCHANGED S!vars
  BY <1>1 DEF S!vars, SettingsInv, SettingsTypes, S!HistoryEndsAtValue, CallsAreYoung,
     ReadsWereInForce, EntriesWereInForce, S!Stored
<1> QED
  BY <1>1, QuietSettings, FillCacheKeepsInv, ClearCacheKeepsInv, CommitRowKeepsInv,
     SettingsTickKeepsInv DEF S!Next

\* For any processes, caches, lifetimes and timeouts: no process acts on a
\* value longer than CACHE_TTL and one request's time after it was replaced,
\* and the history ends at what is in force.
THEOREM SettingsAreFresh == S!Spec => []S!SettingsSound
<1>1. SettingsInv => S!TypeOK
  <2> SUFFICES ASSUME SettingsInv PROVE S!TypeOK
    OBVIOUS
  <2>1. \A p \in Processes : process[p].at \in S!Phases
    BY DEF SettingsInv, SettingsTypes, SettingsCall, S!Phases, S!Idle
  <2>2. \A i \in DOMAIN versions : versions[i].new \in Values
    <3>1. versions \in Seq([old : Values \union {None}, new : Values])
      BY DEF SettingsInv, SettingsTypes
    <3>2. ASSUME NEW i \in DOMAIN versions PROVE versions[i].new \in Values
      <4>1. versions[i] \in [old : Values \union {None}, new : Values]
        BY <3>1, ElementOfSeq, LenProperties, Zenon
      <4> QED
        BY <4>1
    <3> QED
      BY <3>2
  <2> QED
    BY <2>1, <2>2 DEF SettingsInv, SettingsTypes, S!TypeOK
<1>2. SettingsInv => S!StalenessBounded
  <2> SUFFICES ASSUME SettingsInv, NEW c \in S!Caches, S!Live(cache[c])
               PROVE  \/ cache[c].value = S!Stored
                      \/ clock <= heldUntil[cache[c].value] + CACHE_TTL + Timeout
    BY DEF S!StalenessBounded
  <2>1. cache[c] # None /\ clock < cache[c].expires
    BY DEF S!Live
  <2>2. cache[c].value \in Values /\ cache[c].expires \in Nat /\ clock \in Nat
    BY <2>1 DEF SettingsInv, SettingsTypes
  <2>3. heldUntil[cache[c].value] \in Nat /\ CACHE_TTL \in Nat /\ Timeout \in Nat
    BY <2>2, SettingsConstants DEF SettingsInv, SettingsTypes
  <2> QED
    BY <2>1, <2>2, <2>3 DEF SettingsInv, EntriesWereInForce
<1>3. SettingsInv => S!SettingsSound
  BY <1>1, <1>2 DEF SettingsInv, S!SettingsSound
<1> QED
  BY <1>3, SettingsInit, SettingsNext, PTL DEF S!Spec

-----------------------------------------------------------------------------
(* Statistics                                                              *)

\* A figure of a day is not more than happened on it, nor less than what
\* committed before it had ended.
Near(k, d, v) == v <= dated[k][d] /\ D!Due(k, d) <= v

\* Rows that committed on their day have committed, and only rewards there
\* are have been rejected.
RowsAreDated ==
  /\ \A k \in D!KeySet, d \in D!Days : onTime[k][d] <= dated[k][d]
  /\ "user_cost" \in D!KeySet => \A d \in D!Days : rejected[d] <= dated["user_cost"][d]

\* A run is about a day that is over, has stored the keys before its own, and
\* what it has counted and not stored is near.
RunsAreNear ==
  \A r \in Runners : run[r].at # "idle" =>
    /\ run[r].day < today
    /\ \A i \in DOMAIN Keys : i < run[r].key => statistics[run[r].day][Keys[i]] # None
    /\ run[r].at = "stores" =>
         run[r].key \in DOMAIN Keys /\ Near(Keys[run[r].key], run[r].day, run[r].value)

StoredAreNear ==
  \A d \in D!Days, k \in D!KeySet : statistics[d][k] # None =>
    d < today /\ Near(k, d, statistics[d][k])

StatisticsInv ==
  D!TypeOK /\ RowsAreDated /\ RunsAreNear /\ StoredAreNear /\ D!LastKeyMeansAll

LEMMA NoRowsAreCounts ==
  /\ D!NoRows \in [D!KeySet -> [D!Days -> Nat]]
  /\ \A k \in D!KeySet, d \in D!Days : D!NoRows[k][d] = 0
BY DEF D!NoRows

LEMMA StatisticsInit == D!Init => StatisticsInv
<1> SUFFICES ASSUME D!Init PROVE StatisticsInv
  OBVIOUS
<1>1. D!TypeOK
  <2>1. /\ dated \in [D!KeySet -> [D!Days -> Nat]] /\ onTime \in [D!KeySet -> [D!Days -> Nat]]
        /\ rejected \in [D!Days -> Nat]
        /\ pending \in [Writers -> [D!KeySet -> [D!Days -> Nat]]]
    BY NoRowsAreCounts DEF D!Init
  <2>2. statistics \in [D!Days -> [D!KeySet -> Nat \union {None}]]
    BY DEF D!Init
  <2>3. run \in [Runners -> [at : {"idle", "counts", "stores"}, day : D!Days,
                            key : Nat \ {0}, value : Nat]]
    BY StatisticsConstants DEF D!Init, D!NotRunning, D!Days
  <2>4. today \in D!Days /\ runs \in Nat
    BY StatisticsConstants DEF D!Init, D!Days
  <2> QED
    BY <2>1, <2>2, <2>3, <2>4 DEF D!TypeOK
<1>2. RowsAreDated
  BY NoRowsAreCounts DEF D!Init, RowsAreDated
<1>3. RunsAreNear
  BY DEF D!Init, RunsAreNear, D!NotRunning
<1>4. StoredAreNear
  BY DEF D!Init, StoredAreNear
<1>5. D!LastKeyMeansAll
  <2>1. \A d \in D!Days, j \in DOMAIN Keys : statistics[d][Keys[j]] = None
    BY DEF D!Init, D!KeySet
  <2> QED
    BY <2>1 DEF D!LastKeyMeansAll
<1> QED
  BY <1>1, <1>2, <1>3, <1>4, <1>5 DEF StatisticsInv

LEMMA FiguresAreNumbers ==
  ASSUME D!TypeOK, RowsAreDated, NEW k \in D!KeySet, NEW d \in D!Days
  PROVE  /\ dated[k][d] \in Nat /\ D!Figure(k, d) \in Nat /\ D!Due(k, d) \in Int
         /\ Near(k, d, D!Figure(k, d))
<1>1. dated[k][d] \in Nat /\ rejected[d] \in Nat /\ onTime[k][d] \in Nat
  BY DEF D!TypeOK
<1>2. onTime[k][d] <= dated[k][d] /\ (k = "user_cost" => rejected[d] <= dated[k][d])
  BY DEF RowsAreDated
<1> QED
  BY <1>1, <1>2 DEF D!Figure, D!Due, Near

\* Requests and rejections: of days that are over there are more rows at
\* most, and less that is due.
LEMMA RowStep ==
  ASSUME StatisticsInv, D!TypeOK', RowsAreDated', UNCHANGED <<statistics, run, today, runs>>,
         \A k \in D!KeySet, d \in D!Days : d < today =>
           dated[k][d] <= dated'[k][d] /\ D!Due(k, d)' <= D!Due(k, d)
  PROVE  StatisticsInv'
<1>1. ASSUME NEW k \in D!KeySet, NEW d \in D!Days, NEW v \in Nat, d < today, Near(k, d, v)
      PROVE  Near(k, d, v)'
  <2>1. dated[k][d] \in Nat /\ D!Due(k, d) \in Int
    BY FiguresAreNumbers DEF StatisticsInv
  <2>2. dated'[k][d] \in Nat /\ D!Due(k, d)' \in Int
    BY DEF D!TypeOK, D!Due
  <2> QED
    BY <1>1, <2>1, <2>2 DEF Near
<1>2. RunsAreNear'
  <2> SUFFICES ASSUME NEW r \in Runners, run[r].at = "stores"
               PROVE  Near(Keys[run[r].key], run[r].day, run[r].value)'
    BY DEF StatisticsInv, RunsAreNear, Near, D!Due
  <2>1. /\ run[r].day < today /\ run[r].key \in DOMAIN Keys
        /\ Near(Keys[run[r].key], run[r].day, run[r].value)
    BY DEF StatisticsInv, RunsAreNear
  <2>2. run[r].day \in D!Days /\ run[r].value \in Nat /\ Keys[run[r].key] \in D!KeySet
    BY <2>1 DEF StatisticsInv, D!TypeOK, D!KeySet
  <2> QED
    BY <1>1, <2>1, <2>2
<1>3. StoredAreNear'
  <2> SUFFICES ASSUME NEW d \in D!Days, NEW k \in D!KeySet, statistics[d][k] # None
               PROVE  d < today /\ Near(k, d, statistics[d][k])'
    BY DEF StoredAreNear, Near, D!Due
  <2>1. d < today /\ Near(k, d, statistics[d][k])
    BY DEF StatisticsInv, StoredAreNear
  <2>2. statistics[d][k] \in Nat
    BY DEF StatisticsInv, D!TypeOK
  <2> QED
    BY <1>1, <2>1, <2>2
<1>4. D!LastKeyMeansAll'
  BY DEF StatisticsInv, D!LastKeyMeansAll
<1> QED
  BY <1>2, <1>3, <1>4 DEF StatisticsInv

\* What a transaction holds is in no figure and due in none.
LEMMA PendingKeepsStatistics ==
  ASSUME StatisticsInv, NEW w \in Writers, NEW held \in [D!KeySet -> [D!Days -> Nat]],
         pending' = [pending EXCEPT ![w] = held],
         UNCHANGED <<dated, onTime, rejected, statistics, run, today, runs>>
  PROVE  StatisticsInv'
<1>1. D!TypeOK' /\ RowsAreDated'
  BY DEF StatisticsInv, D!TypeOK, RowsAreDated
<1>2. \A k \in D!KeySet, d \in D!Days :
        dated[k][d] <= dated'[k][d] /\ D!Due(k, d)' <= D!Due(k, d)
  <2> SUFFICES ASSUME NEW k \in D!KeySet, NEW d \in D!Days
               PROVE  dated[k][d] <= dated'[k][d] /\ D!Due(k, d)' <= D!Due(k, d)
    OBVIOUS
  <2>1. dated[k][d] \in Nat /\ D!Due(k, d) \in Int
    BY FiguresAreNumbers DEF StatisticsInv
  <2>2. D!Due(k, d)' = D!Due(k, d)
    BY DEF D!Due
  <2> QED
    BY <2>1, <2>2
<1> QED
  BY <1>1, <1>2, RowStep

LEMMA WriteKeepsInv ==
  ASSUME StatisticsInv, NEW w \in Writers, NEW k \in D!KeySet, D!Write(w, k)
  PROVE  StatisticsInv'
<1> DEFINE held == [pending[w] EXCEPT ![k][today] = @ + 1]
<1>1. /\ pending' = [pending EXCEPT ![w] = held]
      /\ UNCHANGED <<dated, onTime, rejected, statistics, run, today, runs>>
  BY DEF D!Write
<1>2. held \in [D!KeySet -> [D!Days -> Nat]]
  BY DEF StatisticsInv, D!TypeOK
<1> HIDE DEF held
<1> QED
  BY <1>1, <1>2, PendingKeepsStatistics

LEMMA AbortRowsKeepsInv ==
  ASSUME StatisticsInv, NEW w \in Writers, D!AbortRows(w)
  PROVE  StatisticsInv'
BY NoRowsAreCounts, PendingKeepsStatistics DEF D!AbortRows

LEMMA CommitRowsKeepsInv ==
  ASSUME StatisticsInv, NEW w \in Writers, D!CommitRows(w)
  PROVE  StatisticsInv'
<1>1. /\ dated' = [k \in D!KeySet |-> [d \in D!Days |-> dated[k][d] + pending[w][k][d]]]
      /\ onTime' = [k \in D!KeySet |->
                      [onTime[k] EXCEPT ![today] = @ + pending[w][k][today]]]
      /\ pending' = [pending EXCEPT ![w] = D!NoRows]
      /\ UNCHANGED <<rejected, statistics, run, today, runs>>
  BY DEF D!CommitRows
<1>2. D!TypeOK /\ RowsAreDated /\ today \in D!Days /\ D!Days \subseteq Int
  BY DEF StatisticsInv, D!TypeOK, D!Days
<1>3. \A k \in D!KeySet, d \in D!Days :
        /\ dated[k][d] \in Nat /\ onTime[k][d] \in Nat /\ pending[w][k][d] \in Nat
        /\ rejected[d] \in Nat
  BY <1>2 DEF D!TypeOK
<1>4. \A k \in D!KeySet, d \in D!Days :
        /\ dated'[k][d] = dated[k][d] + pending[w][k][d]
        /\ onTime'[k][d] = IF d = today THEN onTime[k][d] + pending[w][k][d] ELSE onTime[k][d]
  BY <1>1, <1>2 DEF D!TypeOK
<1>5. D!TypeOK'
  <2>1. dated' \in [D!KeySet -> [D!Days -> Nat]]
    BY <1>1, <1>3
  <2>2. onTime' \in [D!KeySet -> [D!Days -> Nat]]
    <3>1. \A k \in D!KeySet :
            [onTime[k] EXCEPT ![today] = @ + pending[w][k][today]] \in [D!Days -> Nat]
      BY <1>2, <1>3 DEF D!TypeOK
    <3> QED
      BY <1>1, <3>1
  <2>3. pending' \in [Writers -> [D!KeySet -> [D!Days -> Nat]]]
    BY <1>1, <1>2, NoRowsAreCounts DEF D!TypeOK
  <2> QED
    BY <1>1, <1>2, <2>1, <2>2, <2>3 DEF D!TypeOK
<1>6. RowsAreDated'
  <2>1. \A k \in D!KeySet, d \in D!Days : onTime'[k][d] <= dated'[k][d]
    BY <1>2, <1>3, <1>4 DEF RowsAreDated
  <2>2. ASSUME "user_cost" \in D!KeySet, NEW d \in D!Days
        PROVE  rejected[d] <= dated'["user_cost"][d]
    BY <1>2, <1>3, <1>4, <2>2 DEF RowsAreDated
  <2> QED
    BY <1>1, <2>1, <2>2 DEF RowsAreDated
<1>7. \A k \in D!KeySet, d \in D!Days : d < today =>
        dated[k][d] <= dated'[k][d] /\ D!Due(k, d)' <= D!Due(k, d)
  <2> SUFFICES ASSUME NEW k \in D!KeySet, NEW d \in D!Days, d < today
               PROVE  dated[k][d] <= dated'[k][d] /\ D!Due(k, d)' <= D!Due(k, d)
    OBVIOUS
  <2>1. onTime'[k][d] = onTime[k][d] /\ D!Due(k, d) \in Int
    BY <1>2, <1>3, <1>4, FiguresAreNumbers
  <2>2. D!Due(k, d)' = D!Due(k, d)
    BY <1>1, <2>1 DEF D!Due
  <2> QED
    BY <1>3, <1>4, <2>1, <2>2
<1> QED
  BY <1>1, <1>5, <1>6, <1>7, RowStep

LEMMA RejectRewardKeepsStatistics ==
  ASSUME StatisticsInv, NEW e \in D!Days, D!RejectReward(e)
  PROVE  StatisticsInv'
<1>1. /\ "user_cost" \in D!KeySet /\ rejected[e] < dated["user_cost"][e]
      /\ rejected' = [rejected EXCEPT ![e] = @ + 1]
      /\ UNCHANGED <<dated, onTime, pending, statistics, run, today, runs>>
  BY DEF D!RejectReward
<1>2. \A d \in D!Days : /\ rejected[d] \in Nat
                        /\ rejected'[d] = IF d = e THEN rejected[d] + 1 ELSE rejected[d]
  BY <1>1 DEF StatisticsInv, D!TypeOK
<1>3. D!TypeOK'
  BY <1>1, <1>2 DEF StatisticsInv, D!TypeOK
<1>4. RowsAreDated'
  <2>1. \A d \in D!Days : dated["user_cost"][d] \in Nat /\ rejected[d] <= dated["user_cost"][d]
    BY <1>1 DEF StatisticsInv, D!TypeOK, RowsAreDated
  <2> QED
    BY <1>1, <1>2, <2>1 DEF StatisticsInv, RowsAreDated
<1>5. \A k \in D!KeySet, d \in D!Days :
        dated[k][d] <= dated'[k][d] /\ D!Due(k, d)' <= D!Due(k, d)
  <2> SUFFICES ASSUME NEW k \in D!KeySet, NEW d \in D!Days
               PROVE  dated[k][d] <= dated'[k][d] /\ D!Due(k, d)' <= D!Due(k, d)
    OBVIOUS
  <2>1. dated[k][d] \in Nat /\ onTime[k][d] \in Nat
    BY DEF StatisticsInv, D!TypeOK
  <2>2. D!Due(k, d)' <= D!Due(k, d)
    BY <1>1, <1>2, <2>1 DEF D!Due
  <2> QED
    BY <1>1, <2>1, <2>2
<1> QED
  BY <1>1, <1>3, <1>4, <1>5, RowStep

\* Steps of a run leave the rows alone, and what is near stays near.
LEMMA RunLeavesNear ==
  ASSUME UNCHANGED <<dated, onTime, rejected, pending>>, NEW k, NEW d, NEW v
  PROVE  Near(k, d, v)' <=> Near(k, d, v)
BY DEF Near, D!Due

LEMMA RunKeepsStatistics ==
  ASSUME StatisticsInv, NEW r \in Runners,
         D!StartRun(r) \/ D!CountKey(r) \/ D!EndRun(r)
  PROVE  StatisticsInv'
<1>1. D!TypeOK /\ RunsAreNear /\ UNCHANGED <<dated, onTime, rejected, pending, statistics, today>>
  BY DEF StatisticsInv, D!StartRun, D!CountKey, D!EndRun
<1>2. RowsAreDated' /\ D!LastKeyMeansAll'
  BY <1>1 DEF StatisticsInv, RowsAreDated, D!LastKeyMeansAll
<1>3. StoredAreNear'
  BY <1>1, RunLeavesNear DEF StatisticsInv, StoredAreNear
<1> DEFINE Fine(next) ==
      next.at # "idle" =>
        /\ next.day < today
        /\ \A i \in DOMAIN Keys : i < next.key => statistics[next.day][Keys[i]] # None
        /\ next.at = "stores" =>
             next.key \in DOMAIN Keys /\ Near(Keys[next.key], next.day, next.value)
<1>4. ASSUME NEW next \in [at : {"idle", "counts", "stores"}, day : D!Days,
                          key : Nat \ {0}, value : Nat],
             Fine(next), run' = [run EXCEPT ![r] = next], runs' \in Nat
      PROVE  StatisticsInv'
  <2>1. \A x \in Runners : run'[x] = IF x = r THEN next ELSE run[x]
    BY <1>1, <1>4 DEF D!TypeOK
  <2>2. D!TypeOK'
    BY <1>1, <1>4 DEF D!TypeOK
  <2>3. RunsAreNear'
    BY <1>1, <1>4, <2>1, RunLeavesNear DEF RunsAreNear
  <2> QED
    BY <1>2, <1>3, <2>2, <2>3 DEF StatisticsInv
<1>5. today \in D!Days /\ today \in Int /\ runs \in Nat /\ Len(Keys) \in Nat
  BY <1>1, StatisticsConstants DEF D!TypeOK, D!Days
<1>6. CASE D!StartRun(r)
  <2> DEFINE next == [D!NotRunning EXCEPT !.at = "counts", !.day = today - 1]
  <2>1. /\ today > 0 /\ run' = [run EXCEPT ![r] = next] /\ runs' = runs + 1
    BY <1>6 DEF D!StartRun
  <2>2. today - 1 \in D!Days /\ runs' \in Nat
    BY <1>5, <2>1, StatisticsConstants DEF D!Days
  <2>3. next = [at |-> "counts", day |-> today - 1, key |-> 1, value |-> 0]
    <3>1. next.at = "counts" /\ next.day = today - 1 /\ next.key = 1 /\ next.value = 0
      BY DEF D!NotRunning
    <3>2. D!NotRunning \in [at : {"idle"}, day : Int, key : Nat, value : Nat]
      BY DEF D!NotRunning
    <3>3. next \in [at : {"counts"}, day : {today - 1}, key : Nat, value : Nat]
      BY <3>2
    <3> HIDE DEF next
    <3> QED
      BY <3>1, <3>3
  <2> HIDE DEF next
  <2>4. next \in [at : {"idle", "counts", "stores"}, day : D!Days, key : Nat \ {0}, value : Nat]
    BY <2>2, <2>3
  <2>5. Fine(next)
    BY <1>5, <2>3, StatisticsConstants
  <2> HIDE DEF Fine
  <2> QED
    BY <1>4, <2>1, <2>2, <2>4, <2>5
<1>7. CASE D!CountKey(r)
  <2> DEFINE k == Keys[run[r].key]
             d == run[r].day
             next == [run[r] EXCEPT !.at = "stores", !.value = D!Figure(k, d)]
  <2>1. /\ run[r].at = "counts" /\ run[r].key <= Len(Keys) /\ runs' = runs
        /\ run' = [run EXCEPT ![r] = next]
    BY <1>7 DEF D!CountKey
  <2>2. run[r] \in [at : {"idle", "counts", "stores"}, day : D!Days,
                    key : Nat \ {0}, value : Nat]
    BY <1>1 DEF D!TypeOK
  <2>3. run[r].key \in DOMAIN Keys /\ k \in D!KeySet /\ d \in D!Days
    <3>1. run[r].key \in DOMAIN Keys
      BY <1>5, <2>1, <2>2, StatisticsConstants
    <3> QED
      BY <2>2, <3>1 DEF D!KeySet
  <2>4. D!Figure(k, d) \in Nat /\ Near(k, d, D!Figure(k, d))
    BY <2>3, FiguresAreNumbers DEF StatisticsInv
  <2>6. next \in [at : {"idle", "counts", "stores"}, day : D!Days, key : Nat \ {0}, value : Nat]
        /\ next.at = "stores" /\ next.day = run[r].day /\ next.key = run[r].key
        /\ next.value = D!Figure(k, d)
    BY <2>2, <2>4
  <2> HIDE DEF next
  <2>7. Fine(next)
    BY <1>1, <2>1, <2>3, <2>4, <2>6 DEF RunsAreNear
  <2> HIDE DEF Fine
  <2> QED
    BY <1>4, <1>5, <2>1, <2>6, <2>7
<1>8. CASE D!EndRun(r)
  <2>1. run' = [run EXCEPT ![r] = D!NotRunning] /\ runs' = runs
    BY <1>8 DEF D!EndRun
  <2>2. 0 \in D!Days
    BY StatisticsConstants DEF D!Days
  <2>3. D!NotRunning \in [at : {"idle", "counts", "stores"}, day : D!Days,
                          key : Nat \ {0}, value : Nat]
        /\ Fine(D!NotRunning)
    BY <2>2 DEF D!NotRunning
  <2> HIDE DEF Fine
  <2> QED
    BY <1>4, <1>5, <2>1, <2>3
<1> QED
  BY <1>6, <1>7, <1>8

LEMMA StoreKeyKeepsStatistics ==
  ASSUME StatisticsInv, NEW r \in Runners, D!StoreKey(r)
  PROVE  StatisticsInv'
<1> DEFINE k == Keys[run[r].key]
           d == run[r].day
           v == run[r].value
           next == [run[r] EXCEPT !.at = "counts", !.key = @ + 1]
<1>1. /\ run[r].at = "stores"
      /\ statistics' = [statistics EXCEPT ![d][k] = v] /\ run' = [run EXCEPT ![r] = next]
      /\ UNCHANGED <<dated, onTime, rejected, pending, today, runs>>
  BY DEF D!StoreKey
<1>2. D!TypeOK
  BY DEF StatisticsInv
<1>3. run[r] \in [at : {"idle", "counts", "stores"}, day : D!Days, key : Nat \ {0}, value : Nat]
  BY <1>2 DEF D!TypeOK
<1>4. /\ d < today /\ run[r].key \in DOMAIN Keys /\ Near(k, d, v)
      /\ \A i \in DOMAIN Keys : i < run[r].key => statistics[d][Keys[i]] # None
  BY <1>1 DEF StatisticsInv, RunsAreNear
<1>5. k \in D!KeySet /\ d \in D!Days /\ v \in Nat /\ v # None
  BY <1>3, <1>4, StatisticsConstants DEF D!KeySet
<1>6. next \in [at : {"idle", "counts", "stores"}, day : D!Days, key : Nat \ {0}, value : Nat]
      /\ next.at = "counts" /\ next.day = d /\ next.key = run[r].key + 1
  <2>1. run[r].key + 1 \in Nat \ {0}
    BY <1>3
  <2>2. next.at = "counts" /\ next.day = d /\ next.key = run[r].key + 1
    BY <1>3, Zenon
  <2> QED
    BY <1>3, <2>1, <2>2, Zenon
<1> HIDE DEF next, k, d, v
<1>7. \A e \in D!Days, x \in D!KeySet :
        statistics'[e][x] = IF e = d /\ x = k THEN v ELSE statistics[e][x]
  BY <1>1, <1>2, <1>5 DEF D!TypeOK
<1>8. \A x \in Runners : run'[x] = IF x = r THEN next ELSE run[x]
  BY <1>1, <1>2, <1>6 DEF D!TypeOK
<1>9. D!TypeOK'
  <2>1. statistics' \in [D!Days -> [D!KeySet -> Nat \union {None}]]
    BY <1>1, <1>2, <1>5 DEF D!TypeOK
  <2> QED
    BY <1>1, <1>2, <1>6, <2>1 DEF D!TypeOK
<1>10. \A e \in D!Days, i \in DOMAIN Keys : statistics[e][Keys[i]] # None =>
         statistics'[e][Keys[i]] # None
  BY <1>5, <1>7 DEF D!KeySet
<1>11. RowsAreDated'
  BY <1>1 DEF StatisticsInv, RowsAreDated
<1>12. ASSUME NEW i \in DOMAIN Keys, i < run[r].key + 1 PROVE statistics'[d][Keys[i]] # None
  <2>1. DOMAIN Keys \subseteq Nat /\ Keys[i] \in D!KeySet
    BY StatisticsConstants DEF D!KeySet
  <2>2. CASE i = run[r].key
    BY <1>5, <1>7, <2>2 DEF k
  <2>3. CASE i # run[r].key
    <3>1. i < run[r].key
      BY <1>3, <1>12, <2>1, <2>3
    <3> QED
      BY <1>4, <1>5, <1>10, <3>1
  <2> QED
    BY <2>2, <2>3
<1>13. RunsAreNear'
  <2> SUFFICES ASSUME NEW x \in Runners, run'[x].at # "idle"
               PROVE  /\ run'[x].day < today
                      /\ \A i \in DOMAIN Keys : i < run'[x].key =>
                           statistics'[run'[x].day][Keys[i]] # None
                      /\ run'[x].at = "stores" => run'[x].key \in DOMAIN Keys
                           /\ Near(Keys[run'[x].key], run'[x].day, run'[x].value)
    BY <1>1, RunLeavesNear DEF RunsAreNear
  <2>1. CASE x = r
    BY <1>4, <1>6, <1>8, <1>12, <2>1
  <2>2. CASE x # r
    <3>1. run'[x] = run[x] /\ run[x].day \in D!Days
      BY <1>2, <1>8, <2>2 DEF D!TypeOK
    <3> QED
      BY <1>10, <3>1 DEF StatisticsInv, RunsAreNear
  <2> QED
    BY <2>1, <2>2
<1>14. StoredAreNear'
  <2> SUFFICES ASSUME NEW e \in D!Days, NEW x \in D!KeySet, statistics'[e][x] # None
               PROVE  e < today /\ Near(x, e, statistics'[e][x])
    BY <1>1, RunLeavesNear DEF StoredAreNear
  <2>1. CASE e = d /\ x = k
    BY <1>4, <1>7, <2>1
  <2>2. CASE ~ (e = d /\ x = k)
    <3>1. statistics'[e][x] = statistics[e][x]
      BY <1>7, <2>2
    <3> QED
      BY <3>1 DEF StatisticsInv, StoredAreNear
  <2> QED
    BY <2>1, <2>2
<1>15. D!LastKeyMeansAll'
  <2> SUFFICES ASSUME NEW e \in D!Days, NEW i \in DOMAIN Keys, NEW j \in DOMAIN Keys,
                      i < j, statistics'[e][Keys[j]] # None
               PROVE  statistics'[e][Keys[i]] # None
    BY DEF D!LastKeyMeansAll
  <2>1. Keys[j] \in D!KeySet
    BY DEF D!KeySet
  <2>2. CASE e = d /\ Keys[j] = k
    <3>1. j = run[r].key
      BY <1>4, <2>2, StatisticsConstants DEF k
    <3>2. i < run[r].key + 1
      BY <3>1, StatisticsConstants
    <3> QED
      BY <1>12, <2>2, <3>2
  <2>3. CASE ~ (e = d /\ Keys[j] = k)
    <3>1. statistics[e][Keys[j]] # None
      BY <1>7, <2>1, <2>3
    <3> QED
      BY <1>10, <3>1 DEF StatisticsInv, D!LastKeyMeansAll
  <2> QED
    BY <2>2, <2>3
<1> QED
  BY <1>9, <1>11, <1>13, <1>14, <1>15 DEF StatisticsInv

LEMMA MidnightKeepsStatistics ==
  ASSUME StatisticsInv, D!Midnight
  PROVE  StatisticsInv'
<1>1. /\ D!TypeOK /\ today < MaxDay /\ today' = today + 1
      /\ UNCHANGED <<dated, onTime, rejected, pending, statistics, run, runs>>
  BY DEF StatisticsInv, D!Midnight
<1>2. today \in Int /\ today' \in D!Days /\ D!Days \subseteq Int
  BY <1>1, StatisticsConstants DEF D!TypeOK, D!Days
<1>3. D!TypeOK'
  BY <1>1, <1>2 DEF D!TypeOK
<1>4. RowsAreDated'
  BY <1>1 DEF StatisticsInv, RowsAreDated
<1>5. RunsAreNear'
  <2>1. ASSUME NEW r \in Runners, run[r].at # "idle" PROVE run[r].day < today'
    <3>1. run[r].day < today /\ run[r].day \in D!Days
      BY <1>1, <2>1 DEF StatisticsInv, RunsAreNear, D!TypeOK
    <3> QED
      BY <1>1, <1>2, <3>1
  <2> QED
    BY <1>1, <2>1, RunLeavesNear DEF StatisticsInv, RunsAreNear
<1>6. StoredAreNear'
  <2>1. ASSUME NEW d \in D!Days, d < today PROVE d < today'
    BY <1>1, <1>2, <2>1
  <2> QED
    BY <1>1, <2>1, RunLeavesNear DEF StatisticsInv, StoredAreNear
<1>7. D!LastKeyMeansAll'
  BY <1>1 DEF StatisticsInv, D!LastKeyMeansAll
<1> QED
  BY <1>3, <1>4, <1>5, <1>6, <1>7 DEF StatisticsInv

LEMMA StatisticsNext == StatisticsInv /\ [D!Next]_(D!vars) => StatisticsInv'
<1> SUFFICES ASSUME StatisticsInv, [D!Next]_(D!vars) PROVE StatisticsInv'
  OBVIOUS
<1>1. CASE UNCHANGED D!vars
  <2>1. UNCHANGED <<dated, onTime, rejected, pending, statistics, run, today, runs>>
    BY <1>1 DEF D!vars
  <2>2. D!TypeOK' /\ RowsAreDated' /\ D!LastKeyMeansAll'
    BY <2>1 DEF StatisticsInv, D!TypeOK, RowsAreDated, D!LastKeyMeansAll
  <2>3. RunsAreNear' /\ StoredAreNear'
    BY <2>1, RunLeavesNear DEF StatisticsInv, RunsAreNear, StoredAreNear
  <2> QED
    BY <2>2, <2>3 DEF StatisticsInv
<1> QED
  BY <1>1, WriteKeepsInv, CommitRowsKeepsInv, AbortRowsKeepsInv,
     RejectRewardKeepsStatistics, RunKeepsStatistics, StoreKeyKeepsStatistics,
     MidnightKeepsStatistics DEF D!Next

\* For any keys, requests and processes that run the task: a day's figures
\* miss no row but those whose transaction was open across midnight, and a day
\* that has its last key has them all.
THEOREM FiguresAreSound == D!Spec => []D!StatisticsSound
<1>1. StatisticsInv => D!FiguresAreNear
  BY DEF StatisticsInv, StoredAreNear, Near, D!FiguresAreNear
<1>2. StatisticsInv => D!StatisticsSound
  BY <1>1 DEF StatisticsInv, D!StatisticsSound
<1> QED
  BY <1>2, StatisticsInit, StatisticsNext, PTL DEF D!Spec

-----------------------------------------------------------------------------
(* Reports                                                                 *)

Request == [at : {"idle", "queued", "running", "scanned", "done"},
            kind : ReportKinds \union {None}, asked : Nat, content : Nat,
            status : {None, "queued", "running", "failed", "ready"},
            file : Nat \union {None}]

\* What a request has in hand, from the rows there were when it was asked for
\* to the file it has written.
InHand(q) ==
  /\ q.at # "idle" => q.kind \in ReportKinds /\ q.asked <= exported
  /\ q.at = "scanned" => q.kind \in Built /\ q.asked <= q.content /\ q.content <= exported
  /\ q.at = "done" =>
       IF q.kind \in Built
       THEN /\ q.status = "ready" /\ q.file \in DOMAIN files
            /\ q.asked <= files[q.file] /\ files[q.file] <= exported
       ELSE q.status = "failed" /\ q.file = None

\* A file is written for one request and kept by one job.
FilesAreOwn ==
  /\ \A a, b \in Admins :
       (a # b /\ asking[a].at = "done" /\ asking[b].at = "done"
        /\ asking[a].file = asking[b].file) => asking[a].file = None
  /\ \A a \in Admins, j \in DOMAIN jobs :
       (asking[a].at = "done" /\ asking[a].file = jobs[j].file) => jobs[j].file = None

\* A request that is under way has no file before it is done.
NoFileYet == \A a \in Admins : asking[a].at \notin {"idle", "done"} => asking[a].file = None

ReportsInv ==
  /\ exported \in Nat /\ files \in Seq(Nat) /\ jobs \in Seq(E!Job)
  /\ asking \in [Admins -> Request]
  /\ \A a \in Admins : InHand(asking[a])
  /\ FilesAreOwn /\ NoFileYet /\ E!JobsAreSettled /\ E!ReportsAreCurrent

LEMMA ReportsInit == E!Init => ReportsInv
<1> SUFFICES ASSUME E!Init PROVE ReportsInv
  OBVIOUS
<1>1. exported = 0 /\ files = <<>> /\ jobs = <<>> /\ DOMAIN jobs = {}
  BY DEF E!Init
<1>2. asking \in [Admins -> Request] /\ \A a \in Admins : asking[a].at = "idle"
  BY DEF E!Init, E!NotAsking, Request
<1>3. FilesAreOwn /\ NoFileYet /\ \A a \in Admins : InHand(asking[a])
  BY <1>2 DEF FilesAreOwn, NoFileYet, InHand
<1>4. E!JobsAreSettled /\ E!ReportsAreCurrent
  BY <1>1 DEF E!JobsAreSettled, E!ReportsAreCurrent
<1>5. files \in Seq(Nat) /\ jobs \in Seq(E!Job)
  BY <1>1
<1> QED
  BY <1>1, <1>2, <1>3, <1>4, <1>5 DEF ReportsInv

\* Everything a request does before it has a file.
LEMMA GoesKeepsInv ==
  ASSUME ReportsInv, NEW a \in Admins, NEW q \in Request, E!Goes(a, q), InHand(q),
         q.at # "idle" => q.file = None
  PROVE  ReportsInv'
<1>1. asking' = [asking EXCEPT ![a] = q] /\ UNCHANGED <<exported, files, jobs>>
  BY DEF E!Goes
<1>2. asking' \in [Admins -> Request]
      /\ \A b \in Admins : asking'[b] = IF b = a THEN q ELSE asking[b]
  BY <1>1 DEF ReportsInv
<1>3. \A b \in Admins : InHand(asking[b])'
  BY <1>1, <1>2 DEF ReportsInv, InHand
<1>4. FilesAreOwn' /\ NoFileYet'
  BY <1>1, <1>2 DEF ReportsInv, FilesAreOwn, NoFileYet
<1>5. E!JobsAreSettled' /\ E!ReportsAreCurrent'
  BY <1>1 DEF ReportsInv, E!JobsAreSettled, E!ReportsAreCurrent
<1> QED
  BY <1>1, <1>2, <1>3, <1>4, <1>5 DEF ReportsInv

LEMMA RequestKeepsInv ==
  ASSUME ReportsInv, NEW a \in Admins,
         \/ \E k \in ReportKinds : E!Ask(a, k)
         \/ E!RunJob(a) \/ E!Unsupported(a) \/ E!Scan(a) \/ E!Raises(a)
  PROVE  ReportsInv'
<1>1. asking[a] \in Request /\ InHand(asking[a]) /\ exported \in Nat
  BY DEF ReportsInv
<1>2. ASSUME NEW k \in ReportKinds, E!Ask(a, k) PROVE ReportsInv'
  <2> DEFINE q == [E!NotAsking EXCEPT !.at = "queued", !.kind = k, !.asked = exported,
                                      !.status = "queued"]
  <2>1. q \in Request /\ q.at = "queued" /\ q.kind = k /\ q.asked = exported
        /\ q.file = None
    BY <1>1 DEF Request, E!NotAsking
  <2>2. E!Goes(a, q)
    BY <1>2 DEF E!Ask
  <2> HIDE DEF q
  <2>3. InHand(q)
    BY <1>1, <2>1 DEF InHand
  <2> QED
    BY <2>1, <2>2, <2>3, GoesKeepsInv
<1>3. CASE E!RunJob(a)
  <2> DEFINE q == [asking[a] EXCEPT !.at = "running", !.status = "running"]
  <2>1. asking[a].at = "queued" /\ asking[a].file = None /\ E!Goes(a, q)
    BY <1>3 DEF E!RunJob, ReportsInv, NoFileYet
  <2>2. /\ q \in Request /\ q.at = "running" /\ q.kind = asking[a].kind
        /\ q.asked = asking[a].asked /\ q.file = None
    BY <1>1, <2>1 DEF Request
  <2>3. InHand(q)
    BY <1>1, <2>1, <2>2 DEF InHand
  <2> HIDE DEF q
  <2> QED
    BY <2>1, <2>2, <2>3, GoesKeepsInv
<1>4. CASE E!Unsupported(a)
  <2> DEFINE q == [asking[a] EXCEPT !.at = "done", !.status = "failed"]
  <2>1. asking[a].at = "running" /\ asking[a].kind \notin Built /\ E!Goes(a, q)
    BY <1>4 DEF E!Unsupported
  <2>2. /\ q \in Request /\ q.at = "done" /\ q.kind = asking[a].kind
        /\ q.asked = asking[a].asked /\ q.status = "failed" /\ q.file = asking[a].file
    BY <1>1 DEF Request
  <2>3. asking[a].file = None
    BY <2>1 DEF ReportsInv, NoFileYet
  <2>4. InHand(q)
    BY <1>1, <2>1, <2>2, <2>3 DEF InHand
  <2> HIDE DEF q
  <2> QED
    BY <2>1, <2>2, <2>3, <2>4, GoesKeepsInv
<1>5. CASE E!Scan(a)
  <2> DEFINE q == [asking[a] EXCEPT !.at = "scanned", !.content = exported]
  <2>1. /\ asking[a].at = "running" /\ asking[a].kind \in Built /\ asking[a].file = None
        /\ E!Goes(a, q)
    BY <1>5 DEF E!Scan, ReportsInv, NoFileYet
  <2>2. /\ q \in Request /\ q.at = "scanned" /\ q.kind = asking[a].kind
        /\ q.asked = asking[a].asked /\ q.content = exported /\ q.file = None
    BY <1>1, <2>1 DEF Request
  <2>3. InHand(q)
    BY <1>1, <2>1, <2>2 DEF InHand
  <2> HIDE DEF q
  <2> QED
    BY <2>1, <2>2, <2>3, GoesKeepsInv
<1>6. CASE E!Raises(a)
  <2>1. E!NotAsking \in Request /\ InHand(E!NotAsking) /\ E!NotAsking.at = "idle"
    BY DEF Request, E!NotAsking, InHand
  <2>2. E!Goes(a, E!NotAsking)
    BY <1>6 DEF E!Raises
  <2> QED
    BY <2>1, <2>2, GoesKeepsInv
<1> QED
  BY <1>2, <1>3, <1>4, <1>5, <1>6

LEMMA SaveFileKeepsInv ==
  ASSUME ReportsInv, NEW a \in Admins, E!SaveFile(a)
  PROVE  ReportsInv'
<1> DEFINE f == Len(files) + 1
           q == [asking[a] EXCEPT !.at = "done", !.status = "ready", !.file = f]
<1>1. /\ asking[a].at = "scanned" /\ files' = Append(files, asking[a].content)
      /\ asking' = [asking EXCEPT ![a] = q] /\ UNCHANGED <<exported, jobs>>
  BY DEF E!SaveFile
<1>2. /\ asking[a] \in Request /\ InHand(asking[a]) /\ exported \in Nat /\ files \in Seq(Nat)
      /\ asking[a].content \in Nat
  BY DEF ReportsInv, Request
<1>3. /\ files' \in Seq(Nat) /\ Len(files) \in Nat /\ DOMAIN files = 1..Len(files)
      /\ Len(files') = f /\ DOMAIN files' = 1..f
      /\ files'[f] = asking[a].content
      /\ \A i \in DOMAIN files : files'[i] = files[i] /\ i # f
  <2>1. files' \in Seq(Nat) /\ Len(files') = f /\ files'[f] = asking[a].content
        /\ \A i \in 1..Len(files) : files'[i] = files[i]
    BY <1>1, <1>2, AppendProperties
  <2>2. Len(files) \in Nat /\ DOMAIN files = 1..Len(files) /\ DOMAIN files' = 1..f
    BY <1>2, <2>1, LenProperties
  <2> HIDE DEF f, q
  <2>3. \A i \in 1..Len(files) : i # f
    BY <2>2 DEF f
  <2> QED
    BY <2>1, <2>2, <2>3
<1>4. /\ q \in Request /\ q.at = "done" /\ q.kind = asking[a].kind
      /\ q.asked = asking[a].asked /\ q.status = "ready" /\ q.file = f
  <2>1. f \in Nat
    BY <1>3
  <2> HIDE DEF f
  <2> QED
    BY <1>2, <2>1 DEF Request
<1>5. f \in DOMAIN files' /\ f \notin DOMAIN files /\ DOMAIN files \subseteq DOMAIN files'
  BY <1>3
<1> HIDE DEF f, q
<1>6. asking' \in [Admins -> Request]
      /\ \A b \in Admins : asking'[b] = IF b = a THEN q ELSE asking[b]
  BY <1>1, <1>4 DEF ReportsInv
<1>7. \A b \in Admins : InHand(asking[b])'
  <2> SUFFICES ASSUME NEW b \in Admins PROVE InHand(asking[b])'
    OBVIOUS
  <2>1. CASE b = a
    BY <1>1, <1>2, <1>3, <1>4, <1>5, <1>6, <2>1 DEF InHand
  <2>2. CASE b # a
    <3>1. asking'[b] = asking[b] /\ InHand(asking[b])
      BY <1>6, <2>2 DEF ReportsInv
    <3> QED
      BY <1>1, <1>3, <1>5, <3>1 DEF InHand
  <2> QED
    BY <2>1, <2>2
<1>8. ASSUME NEW b \in Admins, asking[b].at = "done" PROVE asking[b].file # f \/ f = None
  BY <1>5, <1>8 DEF ReportsInv, InHand
<1>9. ASSUME NEW j \in DOMAIN jobs PROVE jobs[j].file # f \/ f = None
  BY <1>5, <1>9 DEF ReportsInv, E!JobsAreSettled
<1>10. FilesAreOwn'
  <2>1. ASSUME NEW b \in Admins, NEW c \in Admins, b # c, asking'[b].at = "done",
               asking'[c].at = "done", asking'[b].file = asking'[c].file
        PROVE  asking'[b].file = None
    BY <1>4, <1>6, <1>8, <2>1 DEF ReportsInv, FilesAreOwn
  <2>2. ASSUME NEW b \in Admins, NEW j \in DOMAIN jobs, asking'[b].at = "done",
               asking'[b].file = jobs[j].file
        PROVE  jobs[j].file = None
    BY <1>4, <1>6, <1>9, <2>2 DEF ReportsInv, FilesAreOwn
  <2> QED
    BY <1>1, <2>1, <2>2 DEF FilesAreOwn
<1>11. E!JobsAreSettled'
  BY <1>1, <1>5 DEF ReportsInv, E!JobsAreSettled
<1>12. E!ReportsAreCurrent'
  <2>1. ASSUME NEW j \in DOMAIN jobs, jobs[j].status = "ready" PROVE jobs[j].file \in DOMAIN files
    BY <2>1 DEF ReportsInv, E!JobsAreSettled
  <2> QED
    BY <1>1, <1>3, <2>1 DEF ReportsInv, E!ReportsAreCurrent
<1>13. \A b \in Admins : asking'[b].at \notin {"idle", "done"} => asking'[b].file = None
  BY <1>4, <1>6 DEF ReportsInv, NoFileYet
<1> QED
  BY <1>1, <1>2, <1>3, <1>6, <1>7, <1>10, <1>11, <1>12, <1>13 DEF ReportsInv, NoFileYet

LEMMA CommitJobKeepsInv ==
  ASSUME ReportsInv, NEW a \in Admins, E!CommitJob(a)
  PROVE  ReportsInv'
<1> DEFINE job == [kind |-> asking[a].kind, status |-> asking[a].status,
                   file |-> asking[a].file, asked |-> asking[a].asked]
           n == Len(jobs) + 1
<1>1. /\ asking[a].at = "done" /\ jobs' = Append(jobs, job)
      /\ asking' = [asking EXCEPT ![a] = E!NotAsking] /\ UNCHANGED <<exported, files>>
  BY DEF E!CommitJob
<1>2. asking[a] \in Request /\ InHand(asking[a]) /\ jobs \in Seq(E!Job)
  BY DEF ReportsInv
<1>3. /\ job \in E!Job
      /\ IF job.kind \in Built
         THEN /\ job.status = "ready" /\ job.file \in DOMAIN files
              /\ job.asked <= files[job.file] /\ files[job.file] <= exported
         ELSE job.status = "failed" /\ job.file = None
  <2>1. asking[a].kind \in ReportKinds /\ asking[a].asked \in Nat
        /\ asking[a].file \in Nat \union {None} /\ asking[a].status \in {"ready", "failed"}
    BY <1>1, <1>2 DEF InHand, Request
  <2>2. job \in E!Job
    BY <2>1 DEF E!Job
  <2> QED
    BY <1>1, <1>2, <2>2 DEF InHand
<1>4. job.file = asking[a].file
  OBVIOUS
<1> HIDE DEF job
<1>5. /\ jobs' \in Seq(E!Job) /\ DOMAIN jobs' = (DOMAIN jobs) \union {n} /\ jobs'[n] = job
      /\ \A j \in DOMAIN jobs : jobs'[j] = jobs[j] /\ j # n
  <2>1. jobs' \in Seq(E!Job) /\ Len(jobs') = n /\ jobs'[n] = job
        /\ \A j \in 1..Len(jobs) : jobs'[j] = jobs[j]
    BY <1>1, <1>2, <1>3, AppendProperties
  <2>2. Len(jobs) \in Nat /\ DOMAIN jobs = 1..Len(jobs) /\ DOMAIN jobs' = 1..n
    BY <1>2, <2>1, LenProperties
  <2>3. 1..n = (1..Len(jobs)) \union {n} /\ \A j \in 1..Len(jobs) : j # n
    BY <2>2
  <2> QED
    BY <2>1, <2>2, <2>3
<1> HIDE DEF n
<1>6. /\ asking' \in [Admins -> Request] /\ E!NotAsking.at = "idle"
      /\ \A b \in Admins : asking'[b] = IF b = a THEN E!NotAsking ELSE asking[b]
  <2>1. E!NotAsking \in Request
    BY DEF E!NotAsking, Request
  <2> QED
    BY <1>1, <2>1 DEF ReportsInv, E!NotAsking
<1>7. \A b \in Admins : InHand(asking[b])'
  BY <1>1, <1>6 DEF ReportsInv, InHand
<1>8. ASSUME NEW b \in Admins, b # a, asking[b].at = "done", asking[b].file = job.file
      PROVE  job.file = None
  BY <1>1, <1>4, <1>8 DEF ReportsInv, FilesAreOwn
<1>9. ASSUME NEW j \in DOMAIN jobs, jobs[j].file = job.file PROVE job.file = None
  BY <1>1, <1>4, <1>9 DEF ReportsInv, FilesAreOwn
<1>10. FilesAreOwn'
  <2>1. ASSUME NEW b \in Admins, asking'[b].at = "done" PROVE b # a /\ asking'[b] = asking[b]
    BY <1>6, <2>1
  <2>2. ASSUME NEW b \in Admins, NEW j \in DOMAIN jobs', asking'[b].at = "done",
               asking'[b].file = jobs'[j].file
        PROVE  jobs'[j].file = None
    BY <1>5, <1>8, <2>1, <2>2 DEF ReportsInv, FilesAreOwn
  <2> QED
    BY <2>1, <2>2 DEF ReportsInv, FilesAreOwn
<1>11. E!JobsAreSettled'
  <2>1. ASSUME NEW j \in DOMAIN jobs'
        PROVE  IF jobs'[j].kind \in Built
               THEN jobs'[j].status = "ready" /\ jobs'[j].file \in DOMAIN files
               ELSE jobs'[j].status = "failed" /\ jobs'[j].file = None
    BY <1>3, <1>5, <2>1 DEF ReportsInv, E!JobsAreSettled
  <2>2. ASSUME NEW i \in DOMAIN jobs', NEW j \in DOMAIN jobs', i # j,
               jobs'[i].file = jobs'[j].file
        PROVE  jobs'[i].file = None
    BY <1>5, <1>9, <2>2 DEF ReportsInv, E!JobsAreSettled
  <2> QED
    BY <1>1, <2>1, <2>2 DEF E!JobsAreSettled
<1>12. E!ReportsAreCurrent'
  BY <1>1, <1>3, <1>5 DEF ReportsInv, E!ReportsAreCurrent
<1>13. NoFileYet'
  BY <1>6 DEF ReportsInv, NoFileYet
<1> QED
  BY <1>1, <1>5, <1>6, <1>7, <1>10, <1>11, <1>12, <1>13 DEF ReportsInv

LEMMA ExportedRowKeepsInv ==
  ASSUME ReportsInv, E!Row
  PROVE  ReportsInv'
<1>1. exported \in Nat /\ exported' = exported + 1 /\ UNCHANGED <<files, jobs, asking>>
  BY DEF ReportsInv, E!Row
<1>2. \A f \in DOMAIN files : files[f] \in Nat
  BY DEF ReportsInv
<1>3. ASSUME NEW a \in Admins PROVE InHand(asking[a])'
  <2>1. InHand(asking[a]) /\ asking[a].asked \in Nat /\ asking[a].content \in Nat
    BY DEF ReportsInv, Request
  <2> QED
    BY <1>1, <1>2, <2>1 DEF InHand
<1>4. FilesAreOwn' /\ E!JobsAreSettled' /\ NoFileYet'
  BY <1>1 DEF ReportsInv, FilesAreOwn, E!JobsAreSettled, NoFileYet
<1>5. E!ReportsAreCurrent'
  <2>1. ASSUME NEW j \in DOMAIN jobs, jobs[j].status = "ready" PROVE jobs[j].file \in DOMAIN files
    BY <2>1 DEF ReportsInv, E!JobsAreSettled
  <2> QED
    BY <1>1, <1>2, <2>1 DEF ReportsInv, E!ReportsAreCurrent
<1> QED
  BY <1>1, <1>3, <1>4, <1>5 DEF ReportsInv

LEMMA ReportsNext == ReportsInv /\ [E!Next]_(E!vars) => ReportsInv'
<1> SUFFICES ASSUME ReportsInv, [E!Next]_(E!vars) PROVE ReportsInv'
  OBVIOUS
<1>1. CASE UNCHANGED E!vars
  BY <1>1 DEF E!vars, ReportsInv, InHand, FilesAreOwn, NoFileYet, E!JobsAreSettled,
     E!ReportsAreCurrent
<1> QED
  BY <1>1, RequestKeepsInv, SaveFileKeepsInv, CommitJobKeepsInv, ExportedRowKeepsInv DEF E!Next

\* For any administrators, kinds and builders: a job others see is settled,
\* its file is its own, and the file has every row there was when it was
\* asked for.
THEOREM ReportsAreSound == E!Spec => []E!ReportsSound
<1>1. ReportsInv => E!ReportsSound
  BY DEF ReportsInv, Request, E!TypeOK, E!ReportsSound
<1> QED
  BY <1>1, ReportsInit, ReportsNext, PTL DEF E!Spec

-----------------------------------------------------------------------------
(* Catalog                                                                 *)

SyncState == [at : {"idle", "asking", "writing", "quota"}, kind : {None, "task", "request"},
              todo : SUBSET Items, reply : SUBSET Items, item : Items \union {None}]

\* The offer is there with its quota.
Listed(i) == offers[i] # None /\ offers[i].quota

\* What a task has taken off its list is written, but for the quota it is at.
Written(q) ==
  /\ q.todo \subseteq q.reply
  /\ q.at = "quota" => q.kind = "task" /\ q.item \in q.reply /\ offers[q.item] # None
  /\ (q.at \in {"writing", "quota"} /\ q.kind = "task") =>
       \A i \in q.reply \ q.todo : Listed(i) \/ (q.at = "quota" /\ i = q.item)

CatalogTypes ==
  /\ enabled \in BOOLEAN /\ health \in C!Healths
  /\ listing \subseteq Items /\ complete \subseteq Items /\ stopped \subseteq Items
  /\ offers \in [Items -> {None} \union [status : {"active", "paused"}, quota : BOOLEAN]]
  /\ sync \in [Syncs -> SyncState]
  /\ syncs \in 0..MaxSyncs /\ staff \in 0..MaxStaff

CatalogInv ==
  /\ CatalogTypes
  /\ \A p \in Syncs : Written(sync[p])
  /\ C!HealthyMeansComplete /\ C!StoppedStaysStopped

LEMMA CatalogInit == C!Init => CatalogInv
<1> SUFFICES ASSUME C!Init PROVE CatalogInv
  OBVIOUS
<1>1. CatalogTypes
  BY CatalogConstants DEF C!Init, CatalogTypes, C!Healths, C!Idle, SyncState
<1>2. \A p \in Syncs : Written(sync[p])
  BY DEF C!Init, C!Idle, Written
<1>3. C!HealthyMeansComplete /\ C!StoppedStaysStopped
  BY DEF C!Init, C!HealthyMeansComplete, C!StoppedStaysStopped
<1> QED
  BY <1>1, <1>2, <1>3 DEF CatalogInv

\* Steps that leave every offer there, its quota and its status alone, and
\* whose process has written what it says.
LEMMA SyncStep ==
  ASSUME CatalogInv, NEW p \in Syncs, NEW q \in SyncState,
         sync' = [sync EXCEPT ![p] = q],
         CatalogTypes', UNCHANGED stopped,
         \A i \in Items : /\ Listed(i) => Listed(i)'
                          /\ offers[i] # None => offers'[i] # None
                          /\ (offers'[i] # None /\ offers'[i].status = "paused")
                               <=> (offers[i] # None /\ offers[i].status = "paused"),
         Written(sync[p])',
         \A i \in complete' : i \in complete \/ Listed(i)'
  PROVE  CatalogInv'
<1>1. \A x \in Syncs : sync'[x] = IF x = p THEN q ELSE sync[x]
  BY DEF CatalogInv, CatalogTypes
<1>2. ASSUME NEW x \in Syncs, x # p PROVE Written(sync[x])'
  <2>1. Written(sync[x]) /\ sync[x] \in SyncState /\ sync'[x] = sync[x]
    BY <1>1, <1>2 DEF CatalogInv, CatalogTypes
  <2>2. sync[x].reply \subseteq Items
    BY <2>1 DEF SyncState
  <2> QED
    BY <2>1, <2>2 DEF Written, Listed
<1>3. ASSUME NEW x \in Syncs PROVE Written(sync[x])'
  BY <1>2
<1>4. C!HealthyMeansComplete'
  <2>1. \A i \in complete : Listed(i) /\ i \in Items
    BY DEF CatalogInv, CatalogTypes, C!HealthyMeansComplete, Listed
  <2> QED
    BY <2>1 DEF C!HealthyMeansComplete, Listed
<1>5. C!StoppedStaysStopped'
  BY DEF CatalogInv, C!StoppedStaysStopped
<1> QED
  BY <1>3, <1>4, <1>5 DEF CatalogInv

\* Steps of a process that write no offer.
LEMMA SyncKeepsInv ==
  ASSUME CatalogInv, NEW p \in Syncs,
         C!Begin(p, "task") \/ C!Begin(p, "request") \/ C!Answered(p) \/ C!Fails(p)
         \/ C!Finish(p) \/ C!Killed(p)
  PROVE  CatalogInv'
<1>1. /\ CatalogTypes /\ sync[p] \in SyncState /\ Written(sync[p])
      /\ UNCHANGED <<offers, stopped>>
  BY DEF CatalogInv, CatalogTypes, C!Begin, C!Answered, C!Fails, C!Finish, C!Healthy, C!Killed
<1>2. C!Idle \in SyncState /\ C!Idle.at = "idle" /\ C!Idle.todo = {}
  BY DEF C!Idle, SyncState
<1>3. ASSUME NEW kind \in {"task", "request"}, C!Begin(p, kind) PROVE CatalogInv'
  <2> DEFINE q == [sync[p] EXCEPT !.at = "asking", !.kind = kind]
  <2>1. sync[p] = C!Idle /\ syncs < MaxSyncs /\ syncs' = syncs + 1
        /\ sync' = [sync EXCEPT ![p] = q]
        /\ UNCHANGED <<enabled, health, listing, complete, staff>>
    BY <1>3 DEF C!Begin
  <2>2. q \in SyncState /\ q.at = "asking" /\ q.todo = sync[p].todo
    BY <1>1 DEF SyncState
  <2> HIDE DEF q
  <2>3. Written(sync[p])'
    <3>1. sync'[p] = q /\ q.todo = {}
      BY <1>1, <1>2, <2>1, <2>2 DEF CatalogTypes
    <3> QED
      BY <2>2, <3>1 DEF Written
  <2>4. CatalogTypes'
    BY <1>1, <2>1, <2>2, CatalogConstants DEF CatalogTypes
  <2> QED
    BY <1>1, <2>1, <2>2, <2>3, <2>4, SyncStep DEF Listed
<1>4. CASE C!Answered(p)
  <2> DEFINE q == [sync[p] EXCEPT !.at = "writing", !.todo = listing, !.reply = listing]
  <2>1. sync' = [sync EXCEPT ![p] = q]
        /\ UNCHANGED <<enabled, health, listing, complete, syncs, staff>>
    BY <1>4 DEF C!Answered
  <2>2. q \in SyncState /\ q.at = "writing" /\ q.todo = q.reply
    BY <1>1 DEF SyncState, CatalogTypes
  <2> HIDE DEF q
  <2>3. Written(sync[p])'
    <3>1. sync'[p] = q
      BY <1>1, <2>1 DEF CatalogTypes
    <3> QED
      BY <2>2, <3>1 DEF Written
  <2>4. CatalogTypes'
    BY <1>1, <2>1, <2>2 DEF CatalogTypes
  <2> QED
    BY <1>1, <2>1, <2>2, <2>3, <2>4, SyncStep DEF Listed
<1>5. CASE C!Fails(p) \/ C!Killed(p)
  <2>1. /\ sync' = [sync EXCEPT ![p] = C!Idle] /\ health' \in C!Healths
        /\ UNCHANGED <<enabled, listing, complete, syncs, staff>>
    BY <1>1, <1>5 DEF C!Fails, C!Killed, C!Healths, CatalogTypes
  <2>2. CatalogTypes'
    BY <1>1, <1>2, <2>1 DEF CatalogTypes
  <2>3. Written(sync[p])'
    BY <1>1, <1>2, <2>1 DEF CatalogTypes, Written
  <2> QED
    BY <1>1, <1>2, <2>1, <2>2, <2>3, SyncStep DEF Listed
<1>6. CASE C!Finish(p)
  <2>1. /\ sync' = [sync EXCEPT ![p] = C!Idle] /\ health' = "healthy"
        /\ complete' = complete \union sync[p].reply
        /\ UNCHANGED <<enabled, listing, syncs, staff>>
        /\ sync[p].at = "writing" /\ sync[p].kind = "task" /\ sync[p].todo = {}
    BY <1>6 DEF C!Finish, C!Healthy
  <2>2. CatalogTypes'
    BY <1>1, <1>2, <2>1 DEF CatalogTypes, SyncState, C!Healths
  <2>3. \A i \in sync[p].reply : Listed(i)
    BY <1>1, <2>1 DEF Written
  <2>4. Written(sync[p])'
    BY <1>1, <1>2, <2>1 DEF CatalogTypes, Written
  <2> QED
    BY <1>1, <1>2, <2>1, <2>2, <2>3, <2>4, SyncStep DEF Listed
<1> QED
  BY <1>3, <1>4, <1>5, <1>6

LEMMA WriteOfferKeepsInv ==
  ASSUME CatalogInv, NEW p \in Syncs, NEW i \in Items, C!WriteOffer(p, i)
  PROVE  CatalogInv'
<1> DEFINE q == [sync[p] EXCEPT !.at = "quota", !.todo = @ \ {i}, !.item = i]
           o == C!Upserted(offers[i])
<1>1. /\ sync[p].at = "writing" /\ sync[p].kind = "task" /\ i \in sync[p].todo
      /\ offers' = [offers EXCEPT ![i] = o] /\ sync' = [sync EXCEPT ![p] = q]
      /\ UNCHANGED <<enabled, health, listing, complete, stopped, syncs, staff>>
  BY DEF C!WriteOffer
<1>2. CatalogTypes /\ sync[p] \in SyncState /\ Written(sync[p])
  BY DEF CatalogInv, CatalogTypes
<1>3. /\ o \in [status : {"active", "paused"}, quota : BOOLEAN] /\ o # None
      /\ offers[i] # None => o = offers[i]
      /\ offers[i] = None => o.status = "active"
  <2>1. CASE offers[i] = None
    <3>1. o = C!New
      BY <2>1 DEF C!Upserted
    <3>2. C!New \in [status : {"active", "paused"}, quota : BOOLEAN] /\ C!New.status = "active"
      BY DEF C!New
    <3> HIDE DEF o
    <3> QED
      BY <2>1, <3>1, <3>2, CatalogConstants
  <2>2. CASE offers[i] # None
    BY <1>2, <2>2 DEF C!Upserted, CatalogTypes
  <2> QED
    BY <2>1, <2>2
<1>4. /\ q \in SyncState /\ q.at = "quota" /\ q.kind = "task" /\ q.item = i
      /\ q.todo = sync[p].todo \ {i} /\ q.reply = sync[p].reply
  BY <1>1, <1>2 DEF SyncState
<1> HIDE DEF q, o
<1>5. /\ \A x \in Items : offers'[x] = IF x = i THEN o ELSE offers[x]
      /\ sync'[p] = q
  BY <1>1, <1>2 DEF CatalogTypes
<1>6. CatalogTypes'
  BY <1>1, <1>2, <1>3, <1>4 DEF CatalogTypes
<1>7. \A x \in Items : Listed(x) => Listed(x)'
  BY <1>3, <1>5 DEF Listed
<1>8. Written(sync[p])'
  <2>1. q.todo \subseteq q.reply /\ q.item \in q.reply /\ offers'[q.item] # None
    BY <1>1, <1>2, <1>3, <1>4, <1>5 DEF Written
  <2>2. ASSUME NEW x \in q.reply \ q.todo PROVE Listed(x)' \/ x = i
    <3>1. x \in Items
      BY <1>4 DEF SyncState
    <3> QED
      BY <1>1, <1>2, <1>4, <1>7, <2>2, <3>1 DEF Written
  <2> QED
    BY <1>4, <1>5, <2>1, <2>2 DEF Written, Listed
<1>9. \A x \in Items : /\ offers[x] # None => offers'[x] # None
                       /\ (offers'[x] # None /\ offers'[x].status = "paused")
                            <=> (offers[x] # None /\ offers[x].status = "paused")
  BY <1>3, <1>5
<1> QED
  BY <1>1, <1>4, <1>6, <1>7, <1>8, <1>9, SyncStep

LEMMA WriteQuotaKeepsInv ==
  ASSUME CatalogInv, NEW p \in Syncs, C!WriteQuota(p)
  PROVE  CatalogInv'
<1> DEFINE i == sync[p].item
           q == [sync[p] EXCEPT !.at = "writing"]
           o == [offers[i] EXCEPT !.quota = TRUE]
<1>1. /\ sync[p].at = "quota"
      /\ offers' = [offers EXCEPT ![i] = o] /\ sync' = [sync EXCEPT ![p] = q]
      /\ UNCHANGED <<enabled, health, listing, complete, stopped, syncs, staff>>
  BY DEF C!WriteQuota
<1>2. /\ CatalogTypes /\ sync[p] \in SyncState /\ Written(sync[p])
      /\ i \in sync[p].reply /\ i \in Items /\ offers[i] # None
  BY <1>1 DEF CatalogInv, CatalogTypes, Written, SyncState
<1>3. /\ o \in [status : {"active", "paused"}, quota : BOOLEAN] /\ o # None
      /\ o.quota /\ o.status = offers[i].status
  BY <1>2, CatalogConstants DEF CatalogTypes
<1>4. /\ q \in SyncState /\ q.at = "writing" /\ q.kind = sync[p].kind
      /\ q.todo = sync[p].todo /\ q.reply = sync[p].reply
  BY <1>1, <1>2 DEF SyncState
<1> HIDE DEF q, o, i
<1>5. /\ \A x \in Items : offers'[x] = IF x = i THEN o ELSE offers[x]
      /\ sync'[p] = q
  BY <1>1, <1>2 DEF CatalogTypes
<1>6. CatalogTypes'
  BY <1>1, <1>2, <1>3, <1>4 DEF CatalogTypes
<1>7. \A x \in Items : Listed(x) \/ x = i => Listed(x)'
  BY <1>2, <1>3, <1>5 DEF Listed
<1>8. Written(sync[p])'
  <2>1. ASSUME NEW x \in q.reply \ q.todo PROVE Listed(x)'
    <3>1. x \in Items
      BY <1>4 DEF SyncState
    <3> QED
      BY <1>1, <1>2, <1>4, <1>7, <2>1, <3>1 DEF Written, i
  <2> QED
    BY <1>2, <1>4, <1>5, <2>1 DEF Written, Listed
<1>9. \A x \in Items : /\ offers[x] # None => offers'[x] # None
                       /\ (offers'[x] # None /\ offers'[x].status = "paused")
                            <=> (offers[x] # None /\ offers[x].status = "paused")
  BY <1>2, <1>3, <1>5
<1> QED
  BY <1>1, <1>4, <1>6, <1>7, <1>8, <1>9, SyncStep

\* A request commits the items it has written, all of them or those before
\* one that raised.
LEMMA CommitKeepsInv ==
  ASSUME CatalogInv, NEW p \in Syncs, NEW done \in SUBSET sync[p].reply,
         offers' = C!With(done), sync' = [sync EXCEPT ![p] = C!Idle],
         health' \in C!Healths, complete' \in {complete, complete \union done},
         UNCHANGED <<enabled, listing, stopped, syncs, staff>>
  PROVE  CatalogInv'
<1> DEFINE o(i) == [C!Upserted(offers[i]) EXCEPT !.quota = TRUE]
<1>1. offers' = [i \in Items |-> IF i \in done THEN o(i) ELSE offers[i]]
  BY DEF C!With
<1>2. CatalogTypes /\ done \subseteq Items
  BY DEF CatalogInv, CatalogTypes, SyncState
<1>3. ASSUME NEW i \in Items
      PROVE  /\ o(i) \in [status : {"active", "paused"}, quota : BOOLEAN] /\ o(i) # None
             /\ o(i).quota
             /\ o(i).status = IF offers[i] = None THEN "active" ELSE offers[i].status
  <2>1. C!Upserted(offers[i]) \in [status : {"active", "paused"}, quota : BOOLEAN]
        /\ C!Upserted(offers[i]).status = IF offers[i] = None THEN "active" ELSE offers[i].status
    BY <1>2 DEF C!Upserted, C!New, CatalogTypes
  <2> QED
    BY <2>1, CatalogConstants
<1> HIDE DEF o
<1>4. C!Idle \in SyncState /\ C!Idle.at = "idle" /\ C!Idle.todo = {}
  BY DEF C!Idle, SyncState
<1>5. CatalogTypes'
  <2>1. offers' \in [Items -> {None} \union [status : {"active", "paused"}, quota : BOOLEAN]]
    BY <1>1, <1>2, <1>3 DEF CatalogTypes
  <2> QED
    BY <1>1, <1>2, <1>4, <2>1 DEF CatalogTypes, C!Healths
<1>6. \A i \in Items : /\ Listed(i) => Listed(i)'
                       /\ offers[i] # None => offers'[i] # None
                       /\ i \in done => Listed(i)'
                       /\ (offers'[i] # None /\ offers'[i].status = "paused")
                            <=> (offers[i] # None /\ offers[i].status = "paused")
  BY <1>1, <1>3 DEF Listed
<1>7. Written(sync[p])'
  BY <1>1, <1>2, <1>4 DEF CatalogTypes, Written
<1> QED
  BY <1>1, <1>2, <1>4, <1>5, <1>6, <1>7, SyncStep

LEMMA CommitRequestKeepsInv ==
  ASSUME CatalogInv, NEW p \in Syncs, C!CommitRequest(p) \/ C!CommitPart(p)
  PROVE  CatalogInv'
<1>1. CASE C!CommitRequest(p)
  <2>1. sync[p].reply \in SUBSET sync[p].reply
    OBVIOUS
  <2> QED
    BY <1>1, <2>1, CommitKeepsInv DEF C!CommitRequest, C!Healthy, C!Healths
<1>2. CASE C!CommitPart(p)
  <2>1. PICK done \in SUBSET sync[p].reply : offers' = C!With(done)
    BY <1>2 DEF C!CommitPart
  <2> QED
    BY <1>2, <2>1, CommitKeepsInv DEF C!CommitPart, C!Healths
<1> QED
  BY <1>1, <1>2

\* What staff and the provider do.
LEMMA StaffKeepsInv ==
  ASSUME CatalogInv,
         \/ C!ToggleProvider
         \/ \E i \in Items : C!ToggleOffer(i) \/ C!ListingChanges(i)
  PROVE  CatalogInv'
<1>1. CatalogTypes /\ staff < MaxStaff /\ staff' = staff + 1
      /\ UNCHANGED <<health, complete, sync, syncs>>
  BY DEF CatalogInv, C!ToggleProvider, C!ToggleOffer, C!ListingChanges
<1>2. staff' \in 0..MaxStaff
  BY <1>1, CatalogConstants DEF CatalogTypes
<1>3. CASE UNCHANGED <<offers, stopped>> /\ enabled' \in BOOLEAN /\ listing' \subseteq Items
  BY <1>1, <1>2, <1>3 DEF CatalogInv, CatalogTypes, Written, Listed, C!HealthyMeansComplete,
     C!StoppedStaysStopped
<1>4. ASSUME NEW i \in Items, C!ToggleOffer(i) PROVE CatalogInv'
  <2> DEFINE pausing == offers[i].status = "active"
             o == [offers[i] EXCEPT !.status = IF pausing THEN "paused" ELSE "active"]
  <2>1. /\ offers[i] # None /\ offers' = [offers EXCEPT ![i] = o]
        /\ stopped' = IF pausing THEN stopped \union {i} ELSE stopped \ {i}
        /\ UNCHANGED <<enabled, listing>>
    BY <1>4 DEF C!ToggleOffer
  <2>2. offers[i] \in [status : {"active", "paused"}, quota : BOOLEAN]
    BY <1>1, <2>1 DEF CatalogTypes
  <2>3. /\ o \in [status : {"active", "paused"}, quota : BOOLEAN] /\ o # None
        /\ o.quota = offers[i].quota /\ (o.status = "paused" <=> pausing)
    BY <2>2, CatalogConstants
  <2> HIDE DEF o
  <2>4. \A x \in Items : offers'[x] = IF x = i THEN o ELSE offers[x]
    BY <1>1, <2>1 DEF CatalogTypes
  <2>5. CatalogTypes'
    BY <1>1, <1>2, <2>1, <2>3 DEF CatalogTypes
  <2>6. \A x \in Items : /\ Listed(x) => Listed(x)'
                         /\ offers[x] # None => offers'[x] # None
    BY <2>1, <2>3, <2>4 DEF Listed
  <2>7. ASSUME NEW p \in Syncs PROVE Written(sync[p])'
    <3>1. Written(sync[p]) /\ sync[p].reply \subseteq Items
      BY <1>1 DEF CatalogInv, CatalogTypes, SyncState
    <3> QED
      BY <1>1, <2>6, <3>1 DEF Written, Listed
  <2>8. C!HealthyMeansComplete'
    <3>1. \A x \in complete : Listed(x) /\ x \in Items
      BY <1>1 DEF CatalogInv, CatalogTypes, C!HealthyMeansComplete, Listed
    <3> QED
      BY <1>1, <2>6, <3>1 DEF C!HealthyMeansComplete, Listed
  <2>9. C!StoppedStaysStopped'
    BY <2>1, <2>3, <2>4 DEF CatalogInv, C!StoppedStaysStopped
  <2> QED
    BY <2>5, <2>7, <2>8, <2>9 DEF CatalogInv
<1>5. CASE C!ToggleProvider
  <2>1. UNCHANGED <<offers, stopped>> /\ enabled' \in BOOLEAN /\ listing' \subseteq Items
    BY <1>1, <1>5 DEF C!ToggleProvider, CatalogTypes
  <2> QED
    BY <1>3, <2>1
<1>6. ASSUME NEW i \in Items, C!ListingChanges(i) PROVE CatalogInv'
  <2>1. UNCHANGED <<offers, stopped>> /\ enabled' \in BOOLEAN /\ listing' \subseteq Items
    BY <1>1, <1>6 DEF C!ListingChanges, CatalogTypes
  <2> QED
    BY <1>3, <2>1
<1> QED
  BY <1>4, <1>5, <1>6

LEMMA CatalogNext == CatalogInv /\ [C!Next]_(C!vars) => CatalogInv'
<1> SUFFICES ASSUME CatalogInv, [C!Next]_(C!vars) PROVE CatalogInv'
  OBVIOUS
<1>1. CASE UNCHANGED C!vars
  BY <1>1 DEF C!vars, CatalogInv, CatalogTypes, Written, Listed, C!HealthyMeansComplete,
     C!StoppedStaysStopped
<1> QED
  BY <1>1, SyncKeepsInv, WriteOfferKeepsInv, WriteQuotaKeepsInv, CommitRequestKeepsInv,
     StaffKeepsInv DEF C!Next

\* For any items and processes that sync: what a HEALTHY sync reported is
\* there with its quota, and what staff paused stays paused.
THEOREM CatalogIsSound == C!Spec => []C!CatalogSound
<1>1. CatalogInv => C!CatalogSound
  <2> SUFFICES ASSUME CatalogInv PROVE C!CatalogSound
    OBVIOUS
  <2>1. \A p \in Syncs : sync[p].todo \subseteq sync[p].reply /\ sync[p].reply \subseteq Items
    BY DEF CatalogInv, CatalogTypes, SyncState, Written
  <2>2. C!TypeOK
    BY <2>1 DEF CatalogInv, CatalogTypes, C!TypeOK
  <2> QED
    BY <2>2 DEF CatalogInv, C!CatalogSound
<1> QED
  BY <1>1, CatalogInit, CatalogNext, PTL DEF C!Spec

-----------------------------------------------------------------------------
(* AdgemToken                                                              *)

TokenCall == [at : T!Steps, token : 0..MaxTokens, lifetime : Nat, since : Nat]

TokenTypes ==
  /\ tokens \in Seq(Nat) /\ Len(tokens) <= MaxTokens
  /\ revoked \subseteq DOMAIN tokens
  /\ cached \in {None} \union [token : 0..MaxTokens, expires : Nat]
  /\ tokenCall \in [TokenProcesses -> TokenCall]
  /\ tokenClock \in 0..TokenMaxTime

\* A call is younger than its timeout; a token on its way lasts as long as
\* AdGem said, from when it was asked for.
InTime(q) ==
  q.at # "idle" =>
    /\ q.token \in DOMAIN tokens
    /\ q.since <= tokenClock /\ tokenClock <= q.since + TokenTimeout
    /\ q.at = "issued" => q.lifetime \in Lifetimes /\ tokens[q.token] = q.since + q.lifetime
    /\ q.at = "ready" => q.since < tokens[q.token]

\* The entry goes before the token does, live or not.
EntryEndsFirst ==
  cached # None => cached.token \in DOMAIN tokens /\ cached.expires <= tokens[cached.token]

TokenInv == TokenTypes /\ EntryEndsFirst /\ \A p \in TokenProcesses : InTime(tokenCall[p])

LEMMA TokenInit == T!Init => TokenInv
<1> SUFFICES ASSUME T!Init PROVE TokenInv
  OBVIOUS
<1>1. TokenTypes
  <2>1. tokens \in Seq(Nat) /\ Len(tokens) <= MaxTokens
    BY TokenConstants DEF T!Init
  <2> QED
    BY <2>1, TokenConstants DEF T!Init, T!Idle, T!Steps, TokenTypes, TokenCall
<1>2. EntryEndsFirst /\ \A p \in TokenProcesses : InTime(tokenCall[p])
  BY DEF T!Init, T!Idle, EntryEndsFirst, InTime
<1> QED
  BY <1>1, <1>2 DEF TokenInv

\* A step of one process at one time, with what it leaves in the cache.
LEMMA TokenStep ==
  ASSUME TokenInv, NEW p \in TokenProcesses, NEW q \in TokenCall,
         tokenCall' = [tokenCall EXCEPT ![p] = q], UNCHANGED <<tokenClock, revoked>>,
         tokens' \in Seq(Nat), Len(tokens') <= MaxTokens,
         \A t \in DOMAIN tokens : t \in DOMAIN tokens' /\ tokens'[t] = tokens[t],
         InTime(tokenCall[p])',
         UNCHANGED cached \/ cached' = None
           \/ (cached' \in [token : 0..MaxTokens, expires : Nat] /\ EntryEndsFirst')
  PROVE  TokenInv'
<1>1. tokenCall' \in [TokenProcesses -> TokenCall]
      /\ \A x \in TokenProcesses : tokenCall'[x] = IF x = p THEN q ELSE tokenCall[x]
  BY DEF TokenInv, TokenTypes
<1>2. TokenTypes'
  BY <1>1 DEF TokenInv, TokenTypes
<1>3. EntryEndsFirst'
  BY DEF TokenInv, EntryEndsFirst
<1>4. ASSUME NEW x \in TokenProcesses PROVE InTime(tokenCall[x])'
  <2>1. CASE x = p
    BY <2>1
  <2>2. CASE x # p
    BY <1>1, <2>2 DEF TokenInv, InTime
  <2> QED
    BY <2>1, <2>2
<1> QED
  BY <1>2, <1>3, <1>4 DEF TokenInv

LEMMA TakeTokenKeepsInv ==
  ASSUME TokenInv, NEW p \in TokenProcesses, T!TakeToken(p)
  PROVE  TokenInv'
<1> DEFINE q == [at |-> "ready", token |-> cached.token, lifetime |-> 0, since |-> tokenClock]
<1>1. /\ cached # None /\ tokenClock < cached.expires
      /\ tokenCall' = [tokenCall EXCEPT ![p] = q]
      /\ UNCHANGED <<tokens, revoked, cached, tokenClock>>
  BY DEF T!TakeToken, T!Live
<1>2. /\ cached \in [token : 0..MaxTokens, expires : Nat] /\ tokenClock \in Nat /\ TokenTimeout \in Nat
      /\ cached.token \in DOMAIN tokens /\ cached.expires <= tokens[cached.token]
      /\ tokens \in Seq(Nat) /\ Len(tokens) <= MaxTokens
  BY <1>1, TokenConstants DEF TokenInv, TokenTypes, EntryEndsFirst
<1>3. tokens[cached.token] \in Nat
  BY <1>2, ElementOfSeq, LenProperties, Zenon
<1>4. q \in TokenCall /\ tokenCall'[p] = q
  BY <1>1, <1>2 DEF TokenInv, TokenTypes, TokenCall, T!Steps
<1>5. InTime(tokenCall[p])'
  BY <1>1, <1>2, <1>3, <1>4 DEF InTime
<1> HIDE DEF q
<1> QED
  BY <1>1, <1>2, <1>4, <1>5, TokenStep

LEMMA ExchangeKeepsInv ==
  ASSUME TokenInv, NEW p \in TokenProcesses, NEW l \in Lifetimes, T!Exchange(p, l)
  PROVE  TokenInv'
<1> DEFINE n == Len(tokens) + 1
           q == [at |-> "issued", token |-> n, lifetime |-> l, since |-> tokenClock]
<1>1. /\ Len(tokens) < MaxTokens /\ tokens' = Append(tokens, tokenClock + l)
      /\ tokenCall' = [tokenCall EXCEPT ![p] = q]
      /\ UNCHANGED <<revoked, cached, tokenClock>>
  BY DEF T!Exchange
<1>2. tokens \in Seq(Nat) /\ l \in Nat /\ tokenClock \in Nat /\ tokenClock + l \in Nat
      /\ TokenTimeout \in Nat /\ MaxTokens \in Nat
  BY TokenConstants DEF TokenInv, TokenTypes
<1>3. /\ tokens' \in Seq(Nat) /\ Len(tokens') = n /\ tokens'[n] = tokenClock + l
      /\ \A t \in 1..Len(tokens) : tokens'[t] = tokens[t]
  BY <1>1, <1>2, AppendProperties
<1>4. Len(tokens) \in Nat /\ DOMAIN tokens = 1..Len(tokens) /\ DOMAIN tokens' = 1..n
  BY <1>2, <1>3, LenProperties
<1>5. /\ n \in 0..MaxTokens /\ n \in DOMAIN tokens' /\ Len(tokens') <= MaxTokens
      /\ \A t \in DOMAIN tokens : t \in DOMAIN tokens' /\ tokens'[t] = tokens[t]
  BY <1>1, <1>2, <1>3, <1>4
<1> HIDE DEF n
<1>6. q \in TokenCall /\ tokenCall'[p] = q
  BY <1>1, <1>2, <1>5 DEF TokenInv, TokenTypes, TokenCall, T!Steps
<1>7. InTime(tokenCall[p])'
  BY <1>1, <1>2, <1>3, <1>5, <1>6 DEF InTime
<1> HIDE DEF q
<1> QED
  BY <1>1, <1>3, <1>5, <1>6, <1>7, TokenStep

\* However late the answer: the entry it makes ends before the token does.
LEMMA StoreTokenKeepsInv ==
  ASSUME TokenInv, NEW p \in TokenProcesses, T!StoreToken(p)
  PROVE  TokenInv'
<1> DEFINE q == [tokenCall[p] EXCEPT !.at = "ready", !.since = tokenClock]
           l == tokenCall[p].lifetime
           t == tokenCall[p].token
           s == tokenCall[p].since
<1>1. /\ tokenCall[p].at = "issued"
      /\ cached' = [token |-> t, expires |-> tokenClock + T!CachedFor(l)]
      /\ tokenCall' = [tokenCall EXCEPT ![p] = q]
      /\ UNCHANGED <<tokens, revoked, tokenClock>>
  BY DEF T!StoreToken
<1>2. tokenCall[p] \in TokenCall /\ InTime(tokenCall[p]) /\ tokenClock \in Nat
      /\ tokens \in Seq(Nat) /\ Len(tokens) <= MaxTokens
  BY DEF TokenInv, TokenTypes
<1>3. /\ t \in DOMAIN tokens /\ t \in 0..MaxTokens /\ s \in Nat /\ tokenClock <= s + TokenTimeout
      /\ l \in Lifetimes /\ tokens[t] = s + l
  BY <1>1, <1>2 DEF InTime, TokenCall
<1>4. q \in TokenCall /\ q.at = "ready" /\ q.token = t /\ q.since = tokenClock
      /\ tokenCall'[p] = q
  <2>1. q \in TokenCall
    BY <1>2 DEF TokenCall, T!Steps
  <2>2. q.at = "ready" /\ q.token = t /\ q.since = tokenClock
    BY <1>2 DEF TokenCall
  <2> QED
    BY <1>1, <2>1, <2>2 DEF TokenInv, TokenTypes
<1> HIDE DEF q, l, t, s
<1>5. /\ l \in Nat /\ l >= Floor + TokenTimeout /\ Floor \in Nat /\ Floor > 0
      /\ TokenTimeout \in Nat /\ Margin \in Nat /\ TokenTimeout <= Margin
  BY <1>3, TokenConstants
<1>6. /\ T!CachedFor(l) \in Nat /\ tokenClock + T!CachedFor(l) <= s + l
      /\ tokenClock < s + l
  BY <1>2, <1>3, <1>5 DEF T!CachedFor, T!Larger
<1>7. InTime(tokenCall[p])'
  BY <1>1, <1>2, <1>3, <1>4, <1>5, <1>6 DEF InTime
<1>8. cached' \in [token : 0..MaxTokens, expires : Nat] /\ EntryEndsFirst'
  BY <1>1, <1>2, <1>3, <1>6 DEF EntryEndsFirst
<1> QED
  BY <1>1, <1>2, <1>4, <1>7, <1>8, TokenStep

LEMMA EndOfCallKeepsInv ==
  ASSUME TokenInv, NEW p \in TokenProcesses,
         T!Answered(p) \/ T!Unauthorized(p) \/ T!Fails(p)
  PROVE  TokenInv'
<1>1. /\ tokenCall' = [tokenCall EXCEPT ![p] = T!Idle]
      /\ UNCHANGED <<tokens, revoked, tokenClock>> /\ (UNCHANGED cached \/ cached' = None)
  BY DEF T!Answered, T!Unauthorized, T!Fails
<1>2. T!Idle \in TokenCall /\ T!Idle.at = "idle"
  BY TokenConstants DEF T!Idle, TokenCall, T!Steps
<1>3. InTime(tokenCall[p])'
  BY <1>1, <1>2 DEF TokenInv, TokenTypes, InTime
<1>4. tokens \in Seq(Nat) /\ Len(tokens) <= MaxTokens
  BY DEF TokenInv, TokenTypes
<1> QED
  BY <1>1, <1>2, <1>3, <1>4, TokenStep

LEMMA TokenTickKeepsInv ==
  ASSUME TokenInv, T!Tick
  PROVE  TokenInv'
<1>1. /\ tokenClock < TokenMaxTime /\ tokenClock' = tokenClock + 1
      /\ \A p \in TokenProcesses : tokenCall[p] # T!Idle =>
           tokenClock < tokenCall[p].since + TokenTimeout
      /\ UNCHANGED <<tokens, revoked, cached, tokenCall>>
  BY DEF T!Tick
<1>2. tokenClock \in Nat /\ TokenTimeout \in Nat /\ TokenMaxTime \in Nat
  BY TokenConstants DEF TokenInv, TokenTypes
<1>3. TokenTypes' /\ EntryEndsFirst'
  BY <1>1, <1>2 DEF TokenInv, TokenTypes, EntryEndsFirst
<1>4. ASSUME NEW p \in TokenProcesses PROVE InTime(tokenCall[p])'
  <2>1. InTime(tokenCall[p]) /\ tokenCall[p] \in TokenCall
    BY DEF TokenInv, TokenTypes
  <2>2. tokenCall[p].since \in Nat /\ (tokenCall[p].at # "idle" => tokenCall[p] # T!Idle)
    BY <2>1 DEF TokenCall, T!Idle
  <2> QED
    BY <1>1, <1>2, <2>1, <2>2 DEF InTime
<1> QED
  BY <1>3, <1>4 DEF TokenInv

LEMMA TokenNext == TokenInv /\ [T!Next]_(T!vars) => TokenInv'
<1> SUFFICES ASSUME TokenInv, [T!Next]_(T!vars) PROVE TokenInv'
  OBVIOUS
<1>1. CASE UNCHANGED T!vars
  BY <1>1 DEF T!vars, TokenInv, TokenTypes, EntryEndsFirst, InTime
<1>2. ASSUME NEW t \in DOMAIN tokens, T!Revoke(t) PROVE TokenInv'
  BY <1>2 DEF T!Revoke, TokenInv, TokenTypes, EntryEndsFirst, InTime
<1> QED
  BY <1>1, <1>2, TakeTokenKeepsInv, ExchangeKeepsInv, StoreTokenKeepsInv, EndOfCallKeepsInv,
     TokenTickKeepsInv DEF T!Next

\* For any processes, lifetimes and margins of the kind the adapter sets: a
\* live entry holds a token that AdGem accepts unless it withdrew it, and so
\* does a call when it begins.
THEOREM TokensAreSound == T!Spec => []T!TokenSound
<1>1. TokenInv => T!TokenSound
  <2> SUFFICES ASSUME TokenInv PROVE T!TokenSound
    OBVIOUS
  <2>1. \A t \in DOMAIN tokens : tokens[t] \in Nat
    BY ElementOfSeq, LenProperties, Zenon DEF TokenInv, TokenTypes
  <2>2. cached # None => cached.token \in DOMAIN tokens /\ cached.expires \in Nat
    BY DEF TokenInv, TokenTypes, EntryEndsFirst
  <2>3. ASSUME NEW p \in TokenProcesses
        PROVE  tokenCall[p].at \in T!Steps /\ tokenCall[p].token \in 0..MaxTokens
    BY DEF TokenInv, TokenTypes, TokenCall
  <2>4. ASSUME NEW p \in TokenProcesses, tokenCall[p].at = "ready"
        PROVE  tokenCall[p].since < tokens[tokenCall[p].token]
    BY <2>4 DEF TokenInv, InTime
  <2>5. T!CachedTokenIsAccepted
    <3> SUFFICES ASSUME cached # None, tokenClock < cached.expires
                 PROVE  tokenClock < tokens[cached.token]
      BY DEF T!CachedTokenIsAccepted, T!Live
    <3>1. cached.expires <= tokens[cached.token] /\ tokens[cached.token] \in Nat
          /\ cached.expires \in Nat /\ tokenClock \in Nat
      BY <2>1, <2>2, TokenConstants DEF TokenInv, TokenTypes, EntryEndsFirst
    <3> QED
      BY <3>1
  <2>6. T!TypeOK
    BY <2>1, <2>2, <2>3 DEF TokenInv, TokenTypes, T!TypeOK
  <2> QED
    BY <2>4, <2>5, <2>6 DEF T!CallsBeginAccepted, T!TokenSound
<1> QED
  BY <1>1, TokenInit, TokenNext, PTL DEF T!Spec

-----------------------------------------------------------------------------
(* The parts in a behaviour of the whole                                   *)

LEMMA SurveysArePart == Spec => V!Spec
<1>1. Init => V!Init
  BY DEF Init
<1>2. [Next]_vars => [V!Next]_(V!vars)
  BY DEF Next, vars, eventVars, surveyVars, V!vars
<1> QED
  BY <1>1, <1>2, PTL DEF Spec, V!Spec

LEMMA SettingsArePart == Spec => S!Spec
<1>1. Init => S!Init
  BY DEF Init
<1>2. [Next]_vars => [S!Next]_(S!vars)
  BY DEF Next, vars, settingsVars, S!vars
<1> QED
  BY <1>1, <1>2, PTL DEF Spec, S!Spec

LEMMA CatalogIsPart == Spec => C!Spec
<1>1. Init => C!Init
  BY DEF Init
<1>2. [Next]_vars => [C!Next]_(C!vars)
  BY DEF Next, vars, catalogVars, C!vars
<1> QED
  BY <1>1, <1>2, PTL DEF Spec, C!Spec

LEMMA TokenIsPart == Spec => T!Spec
<1>1. Init => T!Init
  BY DEF Init
<1>2. [Next]_vars => [T!Next]_(T!vars)
  BY DEF Next, vars, tokenVars, T!vars
<1> QED
  BY <1>1, <1>2, PTL DEF Spec, T!Spec

LEMMA StatisticsArePart == Spec => D!Spec
<1>1. Init => D!Init
  BY DEF Init
<1>2. [Next]_vars => [D!Next]_(D!vars)
  BY DEF Next, vars, statisticsVars, D!vars
<1> QED
  BY <1>1, <1>2, PTL DEF Spec, D!Spec

LEMMA ReportsArePart == Spec => E!Spec
<1>1. Init => E!Init
  BY DEF Init
<1>2. [Next]_vars => [E!Next]_(E!vars)
  BY DEF Next, vars, reportVars, E!vars
<1> QED
  BY <1>1, <1>2, PTL DEF Spec, E!Spec

LEMMA PricingIsPart == Spec => P!Spec
<1>1. Init => P!Init
  BY DEF Init
<1>2. [Next]_vars => [P!Next]_(P!vars)
  BY DEF Next, vars, eventVars, pricingVars, P!vars
<1> QED
  BY <1>1, <1>2, PTL DEF Spec, P!Spec

LEMMA AdsArePart == Spec => A!Spec
<1>1. Init => A!Init
  BY DEF Init
<1>2. [Next]_vars => [A!Next]_(A!vars)
  BY DEF Next, vars, eventVars, adsVars, A!vars
<1> QED
  BY <1>1, <1>2, PTL DEF Spec, A!Spec

\* What an event is worth is within its rule's numbers, and what a survey
\* earns was completed and goes to somebody who started it.
THEOREM EventsAreSound == Spec => []EventsSound
BY PricingIsPart, PricesAreSound, SurveysArePart, SurveysAreSound, PTL DEF EventsSound

\* Nobody is shown a campaign more often than it allows, but for the requests
\* served at the same time.
THEOREM AdsServe == Spec => []AdsSound
BY AdsArePart, AdsAreSound, PTL DEF AdsSound

\* What administrators set comes into force in time and is accounted for, and
\* the exports they are given are current.
THEOREM AdministratorsAreServed == Spec => []SettingsSound
BY SettingsArePart, SettingsAreFresh, ReportsArePart, ReportsAreSound, PTL DEF SettingsSound

\* The daily figures miss no row that committed on its day.
THEOREM FiguresServe == Spec => []StatisticsSound
BY StatisticsArePart, FiguresAreSound, PTL DEF StatisticsSound

\* A provider's catalog is complete when it says so and stays as staff left
\* it, and its token is one the provider accepts.
THEOREM CatalogServes == Spec => []CatalogSound
BY CatalogIsPart, CatalogIsSound, TokenIsPart, TokensAreSound, PTL DEF CatalogSound

\* However often and by however many requests a completion is reported, it is
\* credited once at most.
THEOREM CreditedOncePerCompletion == Spec => SurveysPayOnce
BY SurveysArePart, CreditedOnce DEF SurveysPayOnce
=============================================================================
