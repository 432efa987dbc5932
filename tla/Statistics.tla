------------------------------ MODULE Statistics ------------------------------
(***************************************************************************)
(* The daily figures: generate_daily_statistics (apps/analytics).          *)
(*                                                                         *)
(* The task takes yesterday's date and, key by key, counts the rows of     *)
(* that date and stores the figure, each statement committed on its own.   *)
(* Rows are dated when they are written and counted once they have         *)
(* committed, which may be after midnight, and after the task has counted. *)
(* One transaction may write several rows of a key: a conversion awards a  *)
(* reward and its event may credit more.  Amounts are alike: a figure is a *)
(* number of rows.                                                         *)
(***************************************************************************)
EXTENDS Integers, Sequences

CONSTANTS
  Keys,           \* sequence of the keys, in the task's order
  Writers,        \* requests that write dated rows at the same time
  Runners,        \* Celery processes that may run the task
  MaxDay,         \* bound
  MaxDated,       \* bound: rows of one key and day, when another is written
  MaxHeld,        \* bound: rows of one key and day in one transaction
  MaxRuns,        \* bound
  None

KeySet == {Keys[i] : i \in DOMAIN Keys}
Days == 0..MaxDay

VARIABLES
  dated,          \* committed rows of each key and day
  onTime,         \* history: those that committed on the day they carry
  rejected,       \* rewards of each day that have been rejected since
  pending,        \* rows of each key and day each request has not committed
  statistics,     \* DailyStatistic of each day and key, or None
  run,            \* the task in each process
  today,
  runs

vars == <<dated, onTime, rejected, pending, statistics, run, today, runs>>

NoRows == [k \in KeySet |-> [d \in Days |-> 0]]
NotRunning == [at |-> "idle", day |-> 0, key |-> 1, value |-> 0]

Init ==
  /\ dated = NoRows /\ onTime = NoRows
  /\ rejected = [d \in Days |-> 0]
  /\ pending = [w \in Writers |-> NoRows]
  /\ statistics = [d \in Days |-> [k \in KeySet |-> None]]
  /\ run = [r \in Runners |-> NotRunning]
  /\ today = 0 /\ runs = 0

\* A conversion, a reward or a completion is created, a withdrawal is paid, a
\* deposit is confirmed: the row carries today's date ...
Write(w, k) ==
  /\ dated[k][today] < MaxDated /\ pending[w][k][today] < MaxHeld
  /\ pending' = [pending EXCEPT ![w][k][today] = @ + 1]
  /\ UNCHANGED <<dated, onTime, rejected, statistics, run, today, runs>>

\* ... and keeps it when the transaction commits, with all it has written, on
\* whatever day that is.
CommitRows(w) ==
  /\ pending[w] # NoRows
  /\ dated' = [k \in KeySet |-> [d \in Days |-> dated[k][d] + pending[w][k][d]]]
  /\ onTime' = [k \in KeySet |-> [onTime[k] EXCEPT ![today] = @ + pending[w][k][today]]]
  /\ pending' = [pending EXCEPT ![w] = NoRows]
  /\ UNCHANGED <<rejected, statistics, run, today, runs>>

AbortRows(w) ==
  /\ pending[w] # NoRows
  /\ pending' = [pending EXCEPT ![w] = NoRows]
  /\ UNCHANGED <<dated, onTime, rejected, statistics, run, today, runs>>

\* A reward is rejected, on its day or later.
RejectReward(d) ==
  /\ "user_cost" \in KeySet /\ rejected[d] < dated["user_cost"][d]
  /\ rejected' = [rejected EXCEPT ![d] = @ + 1]
  /\ UNCHANGED <<dated, onTime, pending, statistics, run, today, runs>>

\* What the query of a key returns: rewards that were rejected are left out.
Figure(k, d) == IF k = "user_cost" THEN dated[k][d] - rejected[d] ELSE dated[k][d]

\* Faulty variant: the figures of the day that has not ended.
StartRunOfToday(r) ==
  /\ run[r].at = "idle" /\ today > 0 /\ runs < MaxRuns
  /\ run' = [run EXCEPT ![r] = [NotRunning EXCEPT !.at = "counts", !.day = today]]
  /\ runs' = runs + 1
  /\ UNCHANGED <<dated, onTime, rejected, pending, statistics, today>>

\* The task is delivered, by the schedule or again: yesterday is the one of
\* the moment it starts.
StartRun(r) ==
  /\ run[r].at = "idle" /\ today > 0 /\ runs < MaxRuns
  /\ run' = [run EXCEPT ![r] = [NotRunning EXCEPT !.at = "counts", !.day = today - 1]]
  /\ runs' = runs + 1
  /\ UNCHANGED <<dated, onTime, rejected, pending, statistics, today>>

CountKey(r) ==
  /\ run[r].at = "counts" /\ run[r].key <= Len(Keys)
  /\ run' = [run EXCEPT ![r].at = "stores",
                        ![r].value = Figure(Keys[run[r].key], run[r].day)]
  /\ UNCHANGED <<dated, onTime, rejected, pending, statistics, today, runs>>

\* upsert: the last to store a figure wins, whenever it counted.
StoreKey(r) ==
  /\ run[r].at = "stores"
  /\ statistics' = [statistics EXCEPT ![run[r].day][Keys[run[r].key]] = run[r].value]
  /\ run' = [run EXCEPT ![r].at = "counts", ![r].key = @ + 1]
  /\ UNCHANGED <<dated, onTime, rejected, pending, today, runs>>

\* All keys are stored, or the process dies between two.
EndRun(r) ==
  /\ run[r].at # "idle"
  /\ run' = [run EXCEPT ![r] = NotRunning]
  /\ UNCHANGED <<dated, onTime, rejected, pending, statistics, today, runs>>

Midnight ==
  /\ today < MaxDay /\ today' = today + 1
  /\ UNCHANGED <<dated, onTime, rejected, pending, statistics, run, runs>>

Next ==
  \/ \E w \in Writers : (\E k \in KeySet : Write(w, k)) \/ CommitRows(w) \/ AbortRows(w)
  \/ \E d \in Days : RejectReward(d)
  \/ \E r \in Runners : StartRun(r) \/ CountKey(r) \/ StoreKey(r) \/ EndRun(r)
  \/ Midnight

Spec == Init /\ [][Next]_vars

(***************************************************************************)
(* Properties.                                                             *)
(***************************************************************************)
TypeOK ==
  /\ dated \in [KeySet -> [Days -> Nat]] /\ onTime \in [KeySet -> [Days -> Nat]]
  /\ rejected \in [Days -> Nat] /\ pending \in [Writers -> [KeySet -> [Days -> Nat]]]
  /\ statistics \in [Days -> [KeySet -> Nat \union {None}]]
  /\ run \in [Runners -> [at : {"idle", "counts", "stores"}, day : Days,
                          key : Nat \ {0}, value : Nat]]
  /\ today \in Days /\ runs \in Nat

\* What a figure has to hold: the rows that committed on their day.
Due(k, d) == IF k = "user_cost" THEN onTime[k][d] - rejected[d] ELSE onTime[k][d]

\* The figures of a day are never more than happened on it, and miss none of
\* the rows but those of transactions that were open across midnight, however
\* many each had written and whichever of two runs stored its count last; what
\* rewards cost may still hold those rejected after the count (the task does
\* not come back to a day).
FiguresAreNear ==
  \A d \in Days, k \in KeySet : statistics[d][k] # None =>
    /\ statistics[d][k] <= dated[k][d]
    /\ Due(k, d) <= statistics[d][k]

\* A day's later keys are there only with the earlier ones, though runs die
\* between two keys: a day with its last key has them all.
LastKeyMeansAll ==
  \A d \in Days : \A i, j \in DOMAIN Keys :
    (i < j /\ statistics[d][Keys[j]] # None) => statistics[d][Keys[i]] # None

\* What the daily figures keep true, part by part above.
StatisticsSound == TypeOK /\ FiguresAreNear /\ LastKeyMeansAll
=============================================================================
