-------------------------------- MODULE Games --------------------------------
(***************************************************************************)
(* apps/games and the Game SDK: rounds played in the iframe, the host page *)
(* that turns them into requests, and the sessions the server keeps.       *)
(*                                                                         *)
(* The host handles the messages of a game in order, but sends its         *)
(* requests without waiting for earlier answers, so requests are processed *)
(* and answered in any order.  A request is one transaction: starting      *)
(* counts first and inserts later; ending locks the session and, because   *)
(* the query joins them, the user and the game, reads the other sessions   *)
(* as committed, and writes.                                               *)
(***************************************************************************)
EXTENDS Integers, FiniteSets, Sequences, SequencesExt

CONSTANTS
  Clients,       \* open player pages, all of one user and one game
  MaxSessions,   \* bound on the GameSession rows
  Workers,       \* requests the server processes at the same time
  Scores,
  Rules,         \* active GameRewardRules of the game, by priority
  MinDuration,   \* min_session_seconds
  MaxDaily,      \* max_daily_sessions
  DayLength, MonthLength,
  None,
  MaxRounds,     \* bound on the rounds of a client
  MaxTime,       \* bound on the clock
  MaxEvents      \* bound on lost and refused requests and lost answers

Times == 0..MaxTime
Sessions == 1..MaxSessions
Day(t) == t \div DayLength
Month(t) == t \div MonthLength

Rule == [minScore : Nat \cup {None}, minDuration : Nat \cup {None},
         cooldown : Nat, dailyMax : Nat, monthlyMax : Nat]

VARIABLES
  session,     \* GameSession rows, None where there is none
  calls,       \* requests in flight
  round,       \* per client: rounds started
  running,     \* clients in the middle of a round
  connected,   \* clients whose game still talks to the host
  token,       \* per client: sessionToken of the host, None at first
  clock,
  events

vars == <<session, calls, round, running, connected, token, clock, events>>

\* award: the index of the rule that was applied, None where none was.
SessionRow == [status : {"active", "ended", "invalidated"}, started : Times,
               ended : Times \cup {None}, score : Scores \cup {None},
               award : (1..Len(Rules)) \cup {None}]

\* result: for an end, the row that is about to be written.
Call == [client : Clients, round : Nat, kind : {"start", "end"},
         at : {"sent", "read", "answered"}, session : Sessions \cup {None},
         score : Scores \cup {None}, result : SessionRow \cup {None}]

TypeOK ==
  /\ session \in [Sessions -> SessionRow \cup {None}]
  /\ calls \subseteq Call
  /\ round \in [Clients -> Nat]
  /\ running \subseteq Clients /\ connected \subseteq Clients
  /\ token \in [Clients -> Sessions \cup {None}]
  /\ clock \in Times /\ events \in 0..MaxEvents

Init ==
  /\ session = [s \in Sessions |-> None]
  /\ calls = {}
  /\ round = [c \in Clients |-> 0]
  /\ running = {} /\ connected = Clients
  /\ token = [c \in Clients |-> None]
  /\ clock = 0 /\ events = 0

Rows == {s \in Sessions : session[s] # None}

-----------------------------------------------------------------------------
(* The game and its host                                                   *)

Request(c, r, kind, s, score) ==
  [client |-> c, round |-> r, kind |-> kind, at |-> "sent", session |-> s,
   score |-> score, result |-> None]

\* The game starts playing without waiting for its session.
StartGame(c) ==
  /\ c \in connected \ running /\ round[c] < MaxRounds[c]
  /\ running' = running \cup {c}
  /\ round' = [round EXCEPT ![c] = @ + 1]
  /\ calls' = calls \cup {Request(c, round'[c], "start", None, None)}
  /\ UNCHANGED <<session, connected, token, clock, events>>

\* The end goes to the session the host knows, which is that of an earlier
\* round until the start is answered; without one the host rejects it.
FinishGame(c, score) ==
  /\ c \in running
  /\ running' = running \ {c}
  /\ calls' = IF c \notin connected \/ token[c] = None THEN calls
              ELSE calls \cup {Request(c, round[c], "end", token[c], score)}
  /\ UNCHANGED <<session, round, connected, token, clock, events>>

\* The answer to a start; one that is refused or lost ends the conversation
\* with the host.
HostReceives(q) ==
  /\ q.at = "answered"
  /\ calls' = calls \ {q}
  /\ IF q.session # None
     THEN token' = [token EXCEPT ![q.client] = q.session] /\ UNCHANGED connected
     ELSE connected' = connected \ {q.client} /\ UNCHANGED token
  /\ UNCHANGED <<session, round, running, clock, events>>

Lost(q) ==
  /\ q.at \in {"sent", "answered"} /\ events < MaxEvents
  /\ calls' = calls \ {q}
  /\ connected' = IF q.kind = "start" THEN connected \ {q.client} ELSE connected
  /\ events' = events + 1
  /\ UNCHANGED <<session, round, running, token, clock>>

-----------------------------------------------------------------------------
(* The server                                                              *)

\* A worker is free.
Free == Cardinality({q \in calls : q.at = "read"}) < Workers

Moved(q, r) == calls' = (calls \ {q}) \cup {r}

Today == {s \in Rows : Day(session[s].started) = Day(clock)}

\* Faulty variant: one more than the limit.
MayStartOneMore == Cardinality(Today) <= MaxDaily

MayStart == Cardinality(Today) < MaxDaily

StartReads(q) ==
  /\ q.kind = "start" /\ q.at = "sent" /\ Free
  /\ Moved(q, [q EXCEPT !.at = IF MayStart THEN "read" ELSE "answered"])
  /\ UNCHANGED <<session, round, running, connected, token, clock, events>>

\* GAMES_ENABLED is off, or the game is not active.
StartRefused(q) ==
  /\ q.kind = "start" /\ q.at = "sent" /\ events < MaxEvents
  /\ Moved(q, [q EXCEPT !.at = "answered"])
  /\ events' = events + 1
  /\ UNCHANGED <<session, round, running, connected, token, clock>>

StartInserts(q) ==
  /\ q.kind = "start" /\ q.at = "read" /\ Cardinality(Rows) < MaxSessions
  /\ session' = [session EXCEPT ![Cardinality(Rows) + 1] =
       [status |-> "active", started |-> clock, ended |-> None, score |-> None, award |-> None]]
  /\ Moved(q, [q EXCEPT !.at = "answered", !.session = Cardinality(Rows) + 1])
  /\ UNCHANGED <<round, running, connected, token, clock, events>>

ConditionsMatch(rule, duration, score) ==
  /\ rule.minScore # None => score # None /\ score >= rule.minScore
  /\ rule.minDuration # None => duration >= rule.minDuration

\* Sessions that ended normally, rewarded or not.
EndedOthers(s) == {x \in Rows \ {s} : session[x].status = "ended"}

RuleAvailable(rule, s) ==
  /\ \A x \in EndedOthers(s) : session[x].ended < clock - rule.cooldown
  /\ Cardinality({x \in EndedOthers(s) : Day(session[x].ended) = Day(clock)}) < rule.dailyMax
  /\ Cardinality({x \in EndedOthers(s) : Month(session[x].ended) = Month(clock)}) < rule.monthlyMax

\* The first rule that applies.
Awarded(s, duration, score) ==
  LET i == SelectInSeq(Rules, LAMBDA rule : /\ ConditionsMatch(rule, duration, score)
                                            /\ RuleAvailable(rule, s))
  IN  IF i = 0 THEN None ELSE i

\* What end_session makes of an active session.
Closed(s, score) ==
  LET duration == clock - session[s].started
      short == duration < MinDuration
  IN  [session[s] EXCEPT !.ended = clock, !.score = score,
         !.status = IF short THEN "invalidated" ELSE "ended",
         !.award = IF short THEN None ELSE Awarded(s, duration, score)]

\* Closes the session if it is active, once the locks are held.
Decides(q) ==
  /\ q.kind = "end" /\ q.at = "sent" /\ Free
  /\ calls' = (calls \ {q}) \cup
       (IF session[q.session].status # "active" THEN {}
        ELSE {[q EXCEPT !.at = "read", !.result = Closed(q.session, q.score)]})
  /\ UNCHANGED <<session, round, running, connected, token, clock, events>>

\* Ends between their locks and their commit.
Ends == {p \in calls : p.kind = "end" /\ p.at = "read"}

\* Faulty variant: the status read before the row is locked decides.
EndReadsUnlocked(q) == Decides(q)

\* Faulty variant: select_for_update(of=("self",)) locks the session alone.
EndReadsOfSession(q) == Decides(q) /\ \A p \in Ends : p.session # q.session

\* The locks are on the rows of the session, its game and its user, and all
\* sessions here are of one user: an end waits for the commit of any other.
\* A new session waits too, when its foreign keys are checked, but is active
\* and no end reads it, so its insert is left free.
EndReads(q) == Decides(q) /\ Ends = {}

EndCommits(q) ==
  /\ q.kind = "end" /\ q.at = "read"
  /\ session' = [session EXCEPT ![q.session] = q.result]
  /\ calls' = calls \ {q}
  /\ UNCHANGED <<round, running, connected, token, clock, events>>

Tick ==
  /\ clock < MaxTime
  /\ clock' = clock + 1
  /\ UNCHANGED <<session, calls, round, running, connected, token, events>>

Next ==
  \/ \E c \in Clients : StartGame(c) \/ \E score \in Scores : FinishGame(c, score)
  \/ \E q \in calls : \/ HostReceives(q) \/ Lost(q) \/ StartReads(q) \/ StartRefused(q)
                      \/ StartInserts(q) \/ EndReads(q) \/ EndCommits(q)
  \/ Tick

Spec == Init /\ [][Next]_vars

-----------------------------------------------------------------------------
(* Properties                                                              *)

\* Sessions are counted without a lock, so the daily limit may be passed, but
\* by no more than the requests processed together with the last one counted.
DailyLimitOvershoot ==
  \A t \in Times :
    Cardinality({s \in Rows : Day(session[s].started) = Day(t)})
      <= MaxDaily + Workers - 1

\* A rule pays a session only when none ended before it in the rule's cooldown,
\* and fewer on its day and in its month than the rule allows; of sessions that
\* end together one is paid.  The counts are exact although nothing in
\* _rule_available locks: the query in end_session locks the user on the way.
RewardLimitsKept ==
  \A s \in Rows : session[s].award # None =>
    LET rule == Rules[session[s].award]
        t == session[s].ended
        before == {x \in Rows : session[x].status = "ended" /\ session[x].ended < t}
    IN  /\ \A x \in before : session[x].ended < t - rule.cooldown
        /\ Cardinality({x \in before : Day(session[x].ended) = Day(t)}) < rule.dailyMax
        /\ Cardinality({x \in before : Month(session[x].ended) = Month(t)}) < rule.monthlyMax
        /\ \A x \in Rows \ {s} : session[x].award # None => session[x].ended # t

\* Sessions are settled once: repeated, late or concurrent ends leave score,
\* times and award of a closed session as they are.
ClosedStaysClosed ==
  [][\A s \in Rows : session[s].status # "active" => session'[s] = session[s]]_session

\* No score sent by a client earns a reward for a session that was too short,
\* or below what the rule asks.
RewardsAreEarned ==
  \A s \in Rows : session[s].award # None =>
    LET d == session[s].ended - session[s].started
    IN  d >= MinDuration /\ ConditionsMatch(Rules[session[s].award], d, session[s].score)

\* What the sessions keep true, part by part above.
SessionsSound == TypeOK /\ DailyLimitOvershoot /\ RewardsAreEarned
=============================================================================
