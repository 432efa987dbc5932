------------------------------- MODULE Reports -------------------------------
(***************************************************************************)
(* Exports that staff ask for: apps/reports and the reports page.          *)
(*                                                                         *)
(* The page creates the job and runs it inside its own request, which is   *)
(* one transaction: the job is seen by others when that commits.  The file *)
(* is written to the storage at once, and stays when the request fails.    *)
(***************************************************************************)
EXTENDS Naturals, Sequences

CONSTANTS
  ReportKinds,
  Built,          \* kinds with a row builder (ROW_BUILDERS)
  Admins,
  MaxJobs,        \* bound: files written and jobs kept
  MaxExported,    \* bound
  None

VARIABLES
  exported,       \* committed rows of the exported tables
  files,          \* rows in each file of the storage
  jobs,           \* committed ReportJob rows, with the rows there were when
                  \* the job was asked for
  asking          \* what each administrator's request is doing

vars == <<exported, files, jobs, asking>>

NotAsking == [at |-> "idle", kind |-> None, asked |-> 0, content |-> 0,
              status |-> None, file |-> None]

Init ==
  /\ exported = 0 /\ files = <<>> /\ jobs = <<>>
  /\ asking = [a \in Admins |-> NotAsking]

Goes(a, q) ==
  /\ asking' = [asking EXCEPT ![a] = q]
  /\ UNCHANGED <<exported, files, jobs>>

Ask(a, k) ==
  /\ asking[a].at = "idle" /\ Len(jobs) < MaxJobs
  /\ Goes(a, [NotAsking EXCEPT !.at = "queued", !.kind = k, !.asked = exported,
                               !.status = "queued"])

\* run_report_job: RUNNING, then generate_report.
RunJob(a) ==
  /\ asking[a].at = "queued"
  /\ Goes(a, [asking[a] EXCEPT !.at = "running", !.status = "running"])

Unsupported(a) ==
  /\ asking[a].at = "running" /\ asking[a].kind \notin Built
  /\ Goes(a, [asking[a] EXCEPT !.at = "done", !.status = "failed"])

\* The rows of one query: those committed when it starts.
Scan(a) ==
  /\ asking[a].at = "running" /\ asking[a].kind \in Built
  /\ Goes(a, [asking[a] EXCEPT !.at = "scanned", !.content = exported])

\* The storage gives every file a name of its own.
SaveFile(a) ==
  /\ asking[a].at = "scanned" /\ Len(files) < MaxJobs
  /\ files' = Append(files, asking[a].content)
  /\ asking' = [asking EXCEPT ![a].at = "done", ![a].status = "ready",
                              ![a].file = Len(files) + 1]
  /\ UNCHANGED <<exported, jobs>>

CommitJob(a) ==
  /\ asking[a].at = "done"
  /\ jobs' = Append(jobs, [kind |-> asking[a].kind, status |-> asking[a].status,
                           file |-> asking[a].file, asked |-> asking[a].asked])
  /\ asking' = [asking EXCEPT ![a] = NotAsking]
  /\ UNCHANGED <<exported, files>>

\* An exception marks the job FAILED and is raised again: the request's
\* transaction is rolled back, and the job with it.
Raises(a) ==
  /\ asking[a].at # "idle"
  /\ Goes(a, NotAsking)

\* The platform goes on meanwhile.
Row ==
  /\ exported < MaxExported
  /\ exported' = exported + 1
  /\ UNCHANGED <<files, jobs, asking>>

Next ==
  \/ \E a \in Admins :
       \/ \E k \in ReportKinds : Ask(a, k)
       \/ RunJob(a) \/ Unsupported(a) \/ Scan(a) \/ SaveFile(a) \/ CommitJob(a) \/ Raises(a)
  \/ Row

Spec == Init /\ [][Next]_vars

(***************************************************************************)
(* Properties.                                                             *)
(***************************************************************************)
Job == [kind : ReportKinds, status : {"ready", "failed"}, file : Nat \union {None}, asked : Nat]

TypeOK ==
  /\ exported \in Nat /\ files \in Seq(Nat) /\ jobs \in Seq(Job)
  /\ \A a \in Admins : asking[a].at \in {"idle", "queued", "running", "scanned", "done"}

\* A job that others see is settled: READY with a file of its own, or FAILED
\* because its kind has no builder; one that failed otherwise is gone.
JobsAreSettled ==
  /\ \A j \in DOMAIN jobs :
       IF jobs[j].kind \in Built THEN jobs[j].status = "ready" /\ jobs[j].file \in DOMAIN files
       ELSE jobs[j].status = "failed" /\ jobs[j].file = None
  /\ \A i, j \in DOMAIN jobs : (i # j /\ jobs[i].file = jobs[j].file) => jobs[i].file = None

\* A report holds every row that was there when it was asked for, and none
\* that never was, however requests overlap.
ReportsAreCurrent ==
  \A j \in DOMAIN jobs : jobs[j].status = "ready" =>
    jobs[j].asked <= files[jobs[j].file] /\ files[jobs[j].file] <= exported

\* What the reports keep true, part by part above.
ReportsSound == TypeOK /\ JobsAreSettled /\ ReportsAreCurrent
=============================================================================
