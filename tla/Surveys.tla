------------------------------- MODULE Surveys -------------------------------
(***************************************************************************)
(* Surveys of one provider: apps/surveys (models, services, views).        *)
(*                                                                         *)
(* A user starts a session and leaves for the provider, which reports the  *)
(* completion, perhaps several times.  process_completion looks for the    *)
(* completion, then for the newest session still open on that survey, with *)
(* no lock and whoever the user is, and records, rewards and closes it in  *)
(* one transaction; the unique completion id decides between two reports.  *)
(***************************************************************************)
EXTENDS Naturals, Sequences, FiniteSets

CONSTANTS
  Users,
  Catalog,        \* the surveys
  Completions,    \* ids the provider gives to what users finish
  Workers,        \* requests served at the same time
  MaxSessions,    \* bound
  MaxReports,     \* bound: deliveries of reports
  None

SessionStatuses == {"started", "completed", "disqualified"}

VARIABLES
  offered,        \* surveys with status ACTIVE
  sessions,       \* SurveySession rows, oldest first
  finished,       \* what the provider knows of each completion, or None
  rows,           \* SurveyCompletion row of each completion, or None
  credited,       \* rewards given for each completion
  call,           \* process_completion in each worker
  reports

vars == <<offered, sessions, finished, rows, credited, call, reports>>

Idle == [completion |-> None, session |-> 0]

Init ==
  /\ offered = Catalog
  /\ sessions = <<>>
  /\ finished = [c \in Completions |-> None]
  /\ rows = [c \in Completions |-> None]
  /\ credited = [c \in Completions |-> 0]
  /\ call = [w \in Workers |-> Idle]
  /\ reports = 0

Start(u, s) ==
  /\ s \in offered /\ Len(sessions) < MaxSessions
  /\ sessions' = Append(sessions, [user |-> u, survey |-> s, status |-> "started"])
  /\ UNCHANGED <<offered, finished, rows, credited, call, reports>>

\* Staff pause or resume a survey; sessions already open stay open.
Toggle(s) ==
  /\ offered' = IF s \in offered THEN offered \ {s} ELSE offered \union {s}
  /\ UNCHANGED <<sessions, finished, rows, credited, call, reports>>

\* A user who went to the provider finishes there, or is screened out.
Finish(c, i, approved) ==
  /\ finished[c] = None
  /\ finished' = [finished EXCEPT ![c] = [user |-> sessions[i].user,
                                          survey |-> sessions[i].survey,
                                          approved |-> approved]]
  /\ UNCHANGED <<offered, sessions, rows, credited, call, reports>>

\* Sessions a report of c may be matched with.
Matching(c) ==
  {i \in DOMAIN sessions : /\ sessions[i].survey = finished[c].survey
                           /\ sessions[i].status = "started"}

Newest(S) == CHOOSE i \in S : \A j \in S : j <= i

\* A report is delivered: known completions and reports without an open
\* session are answered without a trace.
Receive(w, c) ==
  /\ call[w] = Idle /\ finished[c] # None /\ reports < MaxReports
  /\ reports' = reports + 1
  /\ call' = IF rows[c] # None \/ Matching(c) = {} THEN call
             ELSE [call EXCEPT ![w] = [completion |-> c, session |-> Newest(Matching(c))]]
  /\ UNCHANGED <<offered, sessions, finished, rows, credited>>

Outcome(c) == IF finished[c].approved THEN "approved" ELSE "rejected"
Closing(c) == IF finished[c].approved THEN "completed" ELSE "disqualified"

\* Faulty variant: the completion id is not unique in the table.
RecordAnyway(w) ==
  LET c == call[w].completion
      i == call[w].session
  IN /\ call[w] # Idle
     /\ rows' = [rows EXCEPT ![c] = [user |-> sessions[i].user, session |-> i,
                                     status |-> Outcome(c)]]
     /\ credited' = [credited EXCEPT ![c] = IF finished[c].approved THEN @ + 1 ELSE @]
     /\ sessions' = [sessions EXCEPT ![i].status = Closing(c)]
     /\ call' = [call EXCEPT ![w] = Idle]
     /\ UNCHANGED <<offered, finished, reports>>

\* The row, the reward and the session, committed together.
Record(w) ==
  LET c == call[w].completion
      i == call[w].session
  IN /\ call[w] # Idle /\ rows[c] = None
     /\ rows' = [rows EXCEPT ![c] = [user |-> sessions[i].user, session |-> i,
                                     status |-> Outcome(c)]]
     /\ credited' = [credited EXCEPT ![c] = IF finished[c].approved THEN @ + 1 ELSE @]
     /\ sessions' = [sessions EXCEPT ![i].status = Closing(c)]
     /\ call' = [call EXCEPT ![w] = Idle]
     /\ UNCHANGED <<offered, finished, reports>>

\* The unique constraint refuses the row, the reward is refused, or the
\* process dies: nothing is left of the report.
Fail(w) ==
  /\ call[w] # Idle
  /\ call' = [call EXCEPT ![w] = Idle]
  /\ UNCHANGED <<offered, sessions, finished, rows, credited, reports>>

Next ==
  \/ \E u \in Users, s \in Catalog : Start(u, s)
  \/ \E s \in Catalog : Toggle(s)
  \/ \E c \in Completions, i \in DOMAIN sessions, b \in BOOLEAN : Finish(c, i, b)
  \/ \E w \in Workers : (\E c \in Completions : Receive(w, c)) \/ Record(w) \/ Fail(w)

Spec == Init /\ [][Next]_vars

(***************************************************************************)
(* Properties.                                                             *)
(***************************************************************************)
Known == [user : Users, survey : Catalog, approved : BOOLEAN]

TypeOK ==
  /\ offered \subseteq Catalog /\ reports \in 0..MaxReports
  /\ \A i \in DOMAIN sessions :
       sessions[i] \in [user : Users, survey : Catalog, status : SessionStatuses]
  /\ finished \in [Completions -> {None} \union Known]
  /\ rows \in [Completions -> {None} \union
       [user : Users, session : 1..MaxSessions, status : {"approved", "rejected"}]]
  /\ credited \in [Completions -> Nat]
  /\ call \in [Workers -> [completion : Completions \union {None}, session : 0..MaxSessions]]

\* A completion is credited at most once, however often it is reported.
Abstract == INSTANCE PayOnce WITH Events <- Completions, credited <- credited
ImplementsPayOnce == Abstract!Spec

\* What is credited was completed at the provider, and goes to somebody who
\* started that very survey (not always to the one who finished it: the
\* report's user is not looked at).
CreditGoesToAStarter ==
  \A c \in Completions : credited[c] > 0 =>
    /\ finished[c].approved /\ rows[c].status = "approved"
    /\ sessions[rows[c].session].survey = finished[c].survey
    /\ sessions[rows[c].session].user = rows[c].user

\* A session is used for one completion, or for as many as were handled at
\* the same time (its status is read without a lock).
SessionReuseBounded ==
  \A i \in DOMAIN sessions :
    Cardinality({c \in Completions : rows[c] # None /\ rows[c].session = i})
      <= Cardinality(Workers)

\* What the surveys keep true, part by part above.
SurveysSound == TypeOK /\ CreditGoesToAStarter /\ SessionReuseBounded
=============================================================================
