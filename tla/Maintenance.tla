----------------------------- MODULE Maintenance -----------------------------
(***************************************************************************)
(* The maintenance jobs of the standalone service: an administrator's      *)
(* request creates a row, a background task of the answering process does  *)
(* the work, and every change of the row is told in the audit log within   *)
(* its transaction.  A task that dies leaves its row behind; the next      *)
(* request declares rows that are too old abandoned, whether their task    *)
(* still works or not.                                                     *)
(***************************************************************************)
EXTENDS Naturals

CONSTANTS
    MaxJobs,    \* bound: jobs of one behaviour
    AllOps,     \* the catalogue of operations
    MaxTests    \* bound: tests of one behaviour

VARIABLES
    jobs,   \* the rows of maintenance_job
    task,   \* the background task of each job
    done,   \* the jobs whose work is committed
    log,    \* the rows of maintenance_audit_event, numbered within their operation
    last,   \* the number of the newest event of each operation
    tests   \* tests so far

mvars == <<jobs, task, done, log, last, tests>>

\* Jobs are numbered as they are created.
Jobs == 1 .. MaxJobs

NoJob == 0

NoRow == [op |-> "none", state |-> "absent", old |-> FALSE]

\* The operations that are jobs.
JobOps == {"source_rescan", "knowledge_reindex"}

\* The states the partial unique index covers.
ActiveStates == {"queued", "running"}

FinalStates == {"succeeded", "failed"}

ActiveJob(j) == jobs[j].state \in ActiveStates

Event(n, op, j, state) == [n |-> n, op |-> op, job |-> j, state |-> state]

\* The operations that answer at once.
TestOps == AllOps \ JobOps

Ops == JobOps \union TestOps

MaintenanceInit ==
    /\ jobs = [j \in Jobs |-> NoRow]
    /\ task = [j \in Jobs |-> "none"]
    /\ done = {}
    /\ log = {}
    /\ last = [op \in Ops |-> 0]
    /\ tests = 0

-----------------------------------------------------------------------------
(* The administrator.                                                      *)

Stale(j) == ActiveJob(j) /\ jobs[j].old

\* _expire_stale_jobs: the rows that are too old, and the events that tell it.
Expired(j) == [jobs[j] EXCEPT !.state = "failed"]

ExpiryEvents ==
    {Event(last[jobs[j].op] + 1, jobs[j].op, j, "failed") : j \in {i \in Jobs : Stale(i)}}

\* The number of the newest event after the expiry.
AfterExpiry(op) ==
    IF \E i \in Jobs : Stale(i) /\ jobs[i].op = op THEN last[op] + 1 ELSE last[op]

\* create_maintenance_job in one transaction; an active row of the operation makes the
\* insert do nothing, and the refusal rolls the expiry of the other rows back with it.
Create(op, j) ==
    /\ jobs[j].state = "absent" /\ \A i \in Jobs : i < j => jobs[i].state # "absent"
    /\ \A i \in Jobs : ActiveJob(i) /\ jobs[i].op = op => Stale(i)
    /\ jobs' = [i \in Jobs |-> IF i = j THEN [op |-> op, state |-> "queued", old |-> FALSE]
                               ELSE IF Stale(i) THEN Expired(i) ELSE jobs[i]]
    /\ log' = log \union ExpiryEvents \union {Event(AfterExpiry(op) + 1, op, j, "queued")}
    /\ last' = [p \in Ops |-> IF p = op THEN AfterExpiry(p) + 1 ELSE AfterExpiry(p)]
    /\ task' = [task EXCEPT ![j] = "scheduled"]
    /\ UNCHANGED <<done, tests>>

\* An event is appended to those of its operation.
Record(op, j, state) ==
    /\ log' = log \union {Event(last[op] + 1, op, j, state)}
    /\ last' = [last EXCEPT ![op] = @ + 1]

\* _direct_result: the answer of a test is recorded before it is given.
DirectTest(op) ==
    /\ tests < MaxTests
    /\ \E state \in FinalStates : Record(op, NoJob, state)
    /\ tests' = tests + 1
    /\ UNCHANGED <<jobs, task, done>>

-----------------------------------------------------------------------------
(* The background task.                                                    *)

\* The row changes and the change is told, in one transaction.
Moves(j, state) ==
    /\ jobs' = [jobs EXCEPT ![j].state = state]
    /\ Record(jobs[j].op, j, state)

StaysPut == UNCHANGED <<jobs, log, last>>

\* mark_maintenance_job_running: a job that is not queued any more is not begun.
MarkRunning(j) ==
    /\ task[j] = "scheduled"
    /\ IF jobs[j].state = "queued"
       THEN Moves(j, "running") /\ task' = [task EXCEPT ![j] = "working"]
       ELSE StaysPut /\ task' = [task EXCEPT ![j] = "ended"]
    /\ UNCHANGED <<done, tests>>

\* The work ends well or not; an error may hide that it was committed.
Works(j, committed, fine) ==
    /\ done' = IF committed THEN done \union {j} ELSE done
    /\ task' = [task EXCEPT ![j] = IF fine THEN "tell_success" ELSE "tell_failure"]
    /\ UNCHANGED <<jobs, log, last, tests>>

\* run_source_rescan_job: the scan stores its own result.
Rescan(j) ==
    /\ task[j] = "working" /\ jobs[j].op = "source_rescan"
    /\ \E committed, fine \in BOOLEAN : (fine => committed) /\ Works(j, committed, fine)

\* _run_knowledge_reindex_sync: nothing is configured, too much is, or the instance is
\* unknown; else the documents of all sources in one transaction, which a source that is
\* incomplete rolls back.
Reindex(j) ==
    /\ task[j] = "working" /\ jobs[j].op = "knowledge_reindex"
    /\ \/ Works(j, FALSE, FALSE)
       \/ \E heard \in BOOLEAN : Works(j, TRUE, heard)

Outcome(j) == IF task[j] = "tell_success" THEN "succeeded" ELSE "failed"

\* What follows when the result could not be told: a rescan tells a failure instead.
AfterUntold(j) ==
    IF task[j] = "tell_success" /\ jobs[j].op = "source_rescan" THEN "tell_failure" ELSE "ended"

\* As if the result were written whatever became of the row.
FinishAnyway(j) ==
    /\ task[j] \in {"tell_success", "tell_failure"}
    /\ Moves(j, Outcome(j))
    /\ task' = [task EXCEPT ![j] = "ended"]
    /\ UNCHANGED <<done, tests>>

\* finish_maintenance_job: only a running row takes a result; the commit may fail, and its
\* answer may be lost.
Finish(j) ==
    /\ task[j] \in {"tell_success", "tell_failure"}
    /\ \E told, heard \in BOOLEAN :
        /\ told => jobs[j].state = "running"
        /\ heard => told
        /\ IF told THEN Moves(j, Outcome(j)) ELSE StaysPut
        /\ task' = [task EXCEPT ![j] = IF heard THEN "ended" ELSE AfterUntold(j)]
    /\ UNCHANGED <<done, tests>>

\* The process is gone, an error nobody expected ends the task, or its first transaction
\* fails: the row stays as it is.
TaskDies(j) ==
    /\ task[j] \notin {"none", "ended"}
    /\ task' = [task EXCEPT ![j] = "ended"]
    /\ UNCHANGED <<jobs, done, log, last, tests>>

\* Fifteen minutes have passed since the row was created.
GrowOld(j) ==
    /\ ActiveJob(j) /\ ~jobs[j].old
    /\ jobs' = [jobs EXCEPT ![j].old = TRUE]
    /\ UNCHANGED <<task, done, log, last, tests>>

-----------------------------------------------------------------------------

\* The routes.
SourceRescan(j) == Create("source_rescan", j)

KnowledgeReindex(j) == Create("knowledge_reindex", j)

MaintenanceNext ==
    \/ \E op \in TestOps : DirectTest(op)
    \/ \E j \in Jobs :
        \/ SourceRescan(j) \/ KnowledgeReindex(j)
        \/ MarkRunning(j) \/ Rescan(j) \/ Reindex(j) \/ Finish(j) \/ TaskDies(j) \/ GrowOld(j)

MaintenanceSpec == MaintenanceInit /\ [][MaintenanceNext]_mvars

-----------------------------------------------------------------------------
(* What the status shows.                                                  *)

\* list_latest_maintenance_events: the newest event of an operation.  (The query looks at the
\* newest 128 events; an operation none of them is about is not shown.)
Latest(op) == {e \in log : e.op = op /\ \A d \in log : d.op = op => d.n <= e.n}

ListActive == {j \in Jobs : ActiveJob(j)}

Status == [latest |-> [op \in Ops |-> Latest(op)], active |-> ListActive]

\* However tasks die, work on after they were given up, or lose the answer of a commit: an
\* operation has one active job, and what the status shows as its latest event is about that
\* job and says its state; a job has one result in the log, the one of its row; and a job
\* that succeeded has done its work (maintenance_repository.py, maintenance.py).
StatusIsTrue ==
    /\ \A i, j \in Status.active : jobs[i].op = jobs[j].op => i = j
    /\ \A j \in Status.active : \A e \in Status.latest[jobs[j].op] :
        e.job = j /\ e.state = jobs[j].state
    /\ \A e \in log : e.job # NoJob /\ e.state \in FinalStates =>
        /\ jobs[e.job].state = e.state
        /\ \A d \in log : d.job = e.job /\ d.state \in FinalStates => d = e
    /\ \A j \in Jobs : jobs[j].state = "succeeded" => j \in done
=============================================================================
