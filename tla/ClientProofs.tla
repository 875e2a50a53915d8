---------------------------- MODULE ClientProofs ----------------------------
(***************************************************************************)
(* Proofs about the user's side, for any number of attempts, callers,      *)
(* jobs, administrators and overrides: LiveStream, Account, Maintenance    *)
(* and Configuration.  They share no state, and each is proved from an     *)
(* inductive invariant of its own.                                         *)
(*                                                                         *)
(* Mutual exclusion of logins rests on who can be in the lock: a request   *)
(* that prepares a login holds it alone, and a worker that runs is in it,  *)
(* as the only worker.                                                     *)
(*                                                                         *)
(* The status can be trusted because the newest event of an operation is   *)
(* the one of its active job: a job that is given up is told before the    *)
(* next one is, and only an active row takes a result.                     *)
(*                                                                         *)
(* The chain of revisions is its own inductive invariant, with what an     *)
(* administrator carries from the validation to the transaction: an        *)
(* override that was valid on a host that offered those facts.             *)
(*                                                                         *)
(* The live rows are true because a cursor that took its snapshot before   *)
(* the lock either has counted every row or asks for a number that is      *)
(* taken, and is refused; because a stream that is on has stored all it    *)
(* has sent; and because a row that asserts an end is opened only after    *)
(* the end was committed, which no later step of any attempt undoes.       *)
(*                                                                         *)
(* The browser is told everything because a page is exactly the rows       *)
(* between two cursors, so that what it has is always the text up to its   *)
(* cursor; because rows that arrive lie past that cursor; and because the  *)
(* attempt that completed the turn has left its provider, so that the      *)
(* drain that follows the completed status finds all of its text.          *)
(***************************************************************************)
EXTENDS Account, Maintenance, Configuration, LiveStream, FiniteSetTheorems, TLAPS

-----------------------------------------------------------------------------
(* The login. *)

\* The requests between the lock and the descriptor's inheritance by the worker.
Preparing(c) == req[c].pc \in {"check", "clear", "start", "spawn"}

\* Where a request, and where a worker can be.
RequestPcs ==
    {"idle", "read", "probe", "release", "touch", "interrupt", "write", "runtime", "logout",
     "unlink", "forget", "lock", "check", "clear", "start", "spawn", "close", "poll"}

WorkerPcs ==
    {"none", "starting", "started", "waiting", "ending", "writing", "closing", "closed",
     "exiting", "dead"}

Results == {"none", "succeeded", "failed", "cancelled", "timed_out"}

\* The types of the requests, the workers and the files.
RequestRow ==
    [op : {"none", "status", "login", "cancel", "logout"}, pc : RequestPcs,
     attempt : Attempts \union {0}]

Shape ==
    /\ req \in [Callers -> RequestRow]
    /\ login \in [Attempts -> [pc : WorkerPcs, result : Results]]
    /\ disk \in [attempt : Attempts \union {0}, state : Results \union Active,
                 cancel : BOOLEAN, auth : BOOLEAN]

\* Who holds the locked descriptor.
Holders ==
    /\ \A c \in Callers : Preparing(c) => lock = {Caller(c)}
    /\ \A a \in Attempts : Running(a) => Worker(a) \in lock
    /\ \A a, b \in Attempts : Worker(a) \in lock /\ Worker(b) \in lock => a = b

LockInv == Shape /\ Holders

-----------------------------------------------------------------------------

\* Processes are told apart.
LEMMA Distinct ==
    /\ \A c, d : Caller(c) = Caller(d) => c = d
    /\ \A a, b : Worker(a) = Worker(b) => a = b
    /\ \A c, a : Caller(c) # Worker(a)
  BY DEF Caller, Worker

\* The installation starts without a request, a login and a holder.
LEMMA InitLockInv == AccountInit => LockInv
  BY DEF AccountInit, LockInv, Shape, RequestRow, RequestPcs, WorkerPcs, Results, Active, Holders, Preparing, Running, NoRequest, NoLogin

\* A request that goes on as another operation keeps its type.
LEMMA AnotherOp ==
    ASSUME NEW c \in Callers, req \in [Callers -> RequestRow],
           NEW op \in {"none", "status", "login", "cancel", "logout"}, NEW pc \in RequestPcs
    PROVE  [req EXCEPT ![c].op = op, ![c].pc = pc] \in [Callers -> RequestRow]
  <1>1. [req[c] EXCEPT !.op = op, !.pc = pc] \in RequestRow
    BY DEF RequestRow
  <1> QED BY <1>1

\* A step of a caller keeps the types.
LEMMA CallerShape ==
    ASSUME Shape, NEW c \in Callers,
           \/ Request(c) \/ ReadState(c) \/ ProbeHeld(c) \/ ProbeTaken(c) \/ ProbeReleased(c)
           \/ Interrupt(c) \/ InterruptWrite(c) \/ RuntimeStatus(c)
           \/ TouchCancel(c) \/ Logout(c) \/ UnlinkCancel(c) \/ UnlinkState(c)
           \/ LockLogin(c) \/ CheckAccount(c) \/ ClearCancel(c) \/ WriteStarting(c)
           \/ Spawn(c) \/ SpawnFails(c) \/ CloseLock(c) \/ PollLogin(c) \/ KillCaller(c)
    PROVE  Shape'
  <1> USE DEF Shape, RequestRow, RequestPcs, Results, Active, Goes, Ends, Writes, Recorded, NoRequest
  <1>1. CASE Request(c)
    <2> DEFINE first(op) == CASE op = "login" -> "lock" [] op = "logout" -> "probe" [] OTHER -> "read"
    <2>1. PICK op \in {"status", "login", "cancel", "logout"} :
            req' = [req EXCEPT ![c] = [NoRequest EXCEPT !.op = op, !.pc = first(op)]]
      BY <1>1 DEF Request
    <2>2. first(op) \in RequestPcs
      OBVIOUS
    <2>3. UNCHANGED <<login, disk>>
      BY <1>1 DEF Request
    <2> QED BY <2>1, <2>2, <2>3
  <1>2. CASE ReadState(c)
    <2>1. CASE disk.state \in Active
      BY <1>2, <2>1 DEF ReadState
    <2>2. CASE disk.state \notin Active
      <3>1. PICK pc \in RequestPcs : req' = [req EXCEPT ![c].op = "status", ![c].pc = pc]
        BY <1>2, <2>2 DEF ReadState
      <3>2. req' \in [Callers -> RequestRow]
        BY <3>1, AnotherOp
      <3> QED BY <1>2, <3>2 DEF ReadState
    <2> QED BY <2>1, <2>2
  <1>3. CASE ProbeHeld(c)
    BY <1>3 DEF ProbeHeld
  <1>4. CASE ProbeTaken(c)
    BY <1>4 DEF ProbeTaken
  <1>5. CASE ProbeReleased(c)
    BY <1>5 DEF ProbeReleased
  <1>6. CASE Interrupt(c)
    BY <1>6 DEF Interrupt
  <1>7. CASE InterruptWrite(c)
    <2>1. disk' \in [attempt : Attempts \union {0}, state : Results \union Active,
                    cancel : BOOLEAN, auth : BOOLEAN]
      BY <1>7 DEF InterruptWrite
    <2>2. CASE req[c].op = "cancel"
      BY <1>7, <2>1, <2>2 DEF InterruptWrite
    <2>3. CASE req[c].op # "cancel"
      BY <1>7, <2>1, <2>3 DEF InterruptWrite
    <2> QED BY <2>2, <2>3
  <1>8. CASE RuntimeStatus(c)
    BY <1>8 DEF RuntimeStatus
  <1>9. CASE TouchCancel(c)
    BY <1>9 DEF TouchCancel
  <1>10. CASE Logout(c)
    <2>1. CASE disk' = [disk EXCEPT !.auth = FALSE] /\ Goes(c, "unlink")
      <3>1. disk' \in [attempt : Attempts \union {0}, state : Results \union Active,
                      cancel : BOOLEAN, auth : BOOLEAN]
        BY <2>1
      <3> QED BY <1>10, <2>1, <3>1 DEF Logout
    <2>2. CASE UNCHANGED disk /\ Ends(c)
      BY <1>10, <2>2 DEF Logout
    <2> QED BY <1>10, <2>1, <2>2 DEF Logout
  <1>11. CASE UnlinkCancel(c)
    BY <1>11 DEF UnlinkCancel
  <1>12. CASE UnlinkState(c)
    BY <1>12 DEF UnlinkState
  <1>13. CASE LockLogin(c)
    BY <1>13 DEF LockLogin
  <1>14. CASE CheckAccount(c)
    BY <1>14 DEF CheckAccount
  <1>15. CASE ClearCancel(c)
    BY <1>15 DEF ClearCancel
  <1>16. CASE WriteStarting(c)
    BY <1>16 DEF WriteStarting
  <1>17. CASE Spawn(c)
    <2>1. login' \in [Attempts -> [pc : WorkerPcs, result : Results]]
      <3>1. CASE req[c].attempt \in Attempts
        BY <1>17, <3>1 DEF Spawn, WorkerPcs
      <3>2. CASE req[c].attempt \notin Attempts
        BY <1>17, <3>2 DEF Spawn
      <3> QED BY <3>1, <3>2
    <2> QED BY <1>17, <2>1 DEF Spawn
  <1>18. CASE SpawnFails(c)
    BY <1>18 DEF SpawnFails
  <1>19. CASE CloseLock(c)
    BY <1>19 DEF CloseLock
  <1>20. CASE PollLogin(c)
    BY <1>20 DEF PollLogin
  <1>21. CASE KillCaller(c)
    BY <1>21 DEF KillCaller
  <1> QED BY <1>1, <1>2, <1>3, <1>4, <1>5, <1>6, <1>7, <1>8, <1>9, <1>10, <1>11, <1>12, <1>13, <1>14, <1>15, <1>16, <1>17, <1>18, <1>19, <1>20, <1>21

\* A step of a worker keeps the types.
LEMMA WorkerShape ==
    ASSUME Shape, NEW a \in Attempts,
           \/ StartRuntime(a) \/ DeviceCode(a) \/ AwaitLogin(a) \/ RecordEnd(a) \/ WriteEnd(a)
           \/ CloseRuntime(a) \/ CloseWorker(a) \/ ExitWorker(a) \/ KillWorker(a)
    PROVE  Shape'
  <1> USE DEF Shape, WorkerPcs, Results, Active, Leaves, Writes
  <1>1. CASE StartRuntime(a)
    BY <1>1 DEF StartRuntime
  <1>2. CASE DeviceCode(a)
    <2>1. CASE login' = [login EXCEPT ![a].pc = "waiting"] /\ Writes(a, "pending")
      BY <1>2, <2>1 DEF DeviceCode
    <2>2. CASE Leaves(a, "failed") /\ UNCHANGED disk
      BY <1>2, <2>2 DEF DeviceCode
    <2> QED BY <1>2, <2>1, <2>2 DEF DeviceCode
  <1>3. CASE AwaitLogin(a)
    BY <1>3 DEF AwaitLogin
  <1>4. CASE RecordEnd(a)
    BY <1>4 DEF RecordEnd
  <1>5. CASE WriteEnd(a)
    BY <1>5 DEF WriteEnd
  <1>6. CASE CloseRuntime(a)
    BY <1>6 DEF CloseRuntime
  <1>7. CASE CloseWorker(a)
    BY <1>7 DEF CloseWorker
  <1>8. CASE ExitWorker(a)
    BY <1>8 DEF ExitWorker
  <1>9. CASE KillWorker(a)
    BY <1>9 DEF KillWorker
  <1> QED BY <1>1, <1>2, <1>3, <1>4, <1>5, <1>6, <1>7, <1>8, <1>9

-----------------------------------------------------------------------------
(* The kinds of steps, as far as the lock can tell *)

\* A caller that only moves: it prepares no login it did not prepare, and may leave the lock.
\* A caller that prepares a login stays in the lock as long as it does.
GoesOn(c) ==
    /\ login' = login
    /\ lock' \in {lock, lock \ {Caller(c)}}
    /\ \A d \in Callers : d # c => req'[d].pc = req[d].pc
    /\ Preparing(c)' => Preparing(c) /\ lock' = lock

\* A caller takes the free lock.
Takes(c) ==
    /\ login' = login
    /\ lock = {} /\ lock' = {Caller(c)}
    /\ \A d \in Callers : d # c => req'[d].pc = req[d].pc

\* A caller that prepares a login hands the lock on.
HandsOn(c, a) ==
    /\ Preparing(c) /\ ~Preparing(c)'
    /\ \A b \in Attempts : b # a => login'[b].pc = login[b].pc
    /\ lock' = lock \union {Worker(a)}
    /\ \A d \in Callers : d # c => req'[d].pc = req[d].pc

\* A worker goes on, and keeps the lock unless it is dead.
Drives(a) ==
    /\ Running(a)
    /\ req' = req
    /\ \A b \in Attempts : b # a => login'[b].pc = login[b].pc
    /\ \/ lock' = lock
       \/ lock' = lock \ {Worker(a)} /\ ~Running(a)'

\* Steps that only move keep the holders.
LEMMA MovesHolders ==
    ASSUME Holders, NEW c \in Callers, GoesOn(c)
    PROVE  Holders'
  <1>1. \A d \in Callers : Preparing(d)' => lock' = {Caller(d)}
    BY Distinct DEF Holders, GoesOn, Preparing
  <1>2. \A a \in Attempts : Running(a)' => (Worker(a) \in lock)'
    BY Distinct DEF Holders, GoesOn, Running
  <1>3. \A a, b \in Attempts : (Worker(a) \in lock)' /\ (Worker(b) \in lock)' => a = b
    BY DEF Holders, GoesOn
  <1> QED BY <1>1, <1>2, <1>3 DEF Holders

\* Taking a free lock keeps the holders.
LEMMA TakesHolders ==
    ASSUME Holders, NEW c \in Callers, Takes(c)
    PROVE  Holders'
  BY Distinct DEF Holders, Takes, Preparing, Running

\* Handing the lock on keeps the holders: whoever prepared a login was alone in the lock.
LEMMA HandsOnHolders ==
    ASSUME Holders, NEW c \in Callers, NEW a, HandsOn(c, a)
    PROVE  Holders'
  <1>1. lock = {Caller(c)}
    BY DEF Holders, HandsOn
  <1>2. \A d \in Callers : ~Preparing(d)'
    BY <1>1, Distinct DEF Holders, HandsOn, Preparing
  <1>3. \A b \in Attempts : Running(b)' => b = a
    BY <1>1, Distinct DEF Holders, HandsOn, Running
  <1> QED BY <1>1, <1>2, <1>3, Distinct DEF Holders, HandsOn

\* The steps of a worker keep the holders.
LEMMA DrivesHolders ==
    ASSUME Holders, NEW a \in Attempts, Drives(a)
    PROVE  Holders'
  <1>1. \A c \in Callers : ~Preparing(c)'
    BY Distinct DEF Holders, Drives, Preparing
  <1>2. \A b \in Attempts : Running(b)' => (Worker(b) \in lock)'
    BY Distinct DEF Holders, Drives, Running
  <1> QED BY <1>1, <1>2 DEF Holders, Drives

-----------------------------------------------------------------------------

\* Every step of a caller is of one of those kinds.
LEMMA CallerSteps ==
    ASSUME LockInv, NEW c \in Callers,
           \/ Request(c) \/ ReadState(c) \/ ProbeHeld(c) \/ ProbeTaken(c) \/ ProbeReleased(c)
           \/ Interrupt(c) \/ InterruptWrite(c) \/ RuntimeStatus(c)
           \/ TouchCancel(c) \/ Logout(c) \/ UnlinkCancel(c) \/ UnlinkState(c)
           \/ LockLogin(c) \/ CheckAccount(c) \/ ClearCancel(c) \/ WriteStarting(c)
           \/ Spawn(c) \/ SpawnFails(c) \/ CloseLock(c) \/ PollLogin(c) \/ KillCaller(c)
    PROVE  GoesOn(c) \/ Takes(c) \/ \E a : HandsOn(c, a)
  <1> USE DEF LockInv, Shape, RequestRow, Goes, Ends, Recorded, NoRequest, Preparing
  <1>1. CASE Request(c)
    BY <1>1 DEF Request, GoesOn
  <1>2. CASE ReadState(c) \/ ProbeHeld(c) \/ ProbeReleased(c)
    BY <1>2 DEF ReadState, ProbeHeld, ProbeReleased, GoesOn
  <1>3. CASE ProbeTaken(c)
    BY <1>3 DEF ProbeTaken, Takes
  <1>4. CASE Interrupt(c) \/ InterruptWrite(c) \/ RuntimeStatus(c) \/ TouchCancel(c)
    BY <1>4 DEF Interrupt, InterruptWrite, RuntimeStatus, TouchCancel, GoesOn
  <1>5. CASE Logout(c) \/ UnlinkCancel(c) \/ UnlinkState(c)
    BY <1>5 DEF Logout, UnlinkCancel, UnlinkState, GoesOn
  <1>6. CASE LockLogin(c)
    BY <1>6 DEF LockLogin, GoesOn, Takes
  <1>7. CASE CheckAccount(c) \/ ClearCancel(c) \/ WriteStarting(c)
    BY <1>7 DEF CheckAccount, ClearCancel, WriteStarting, GoesOn
  <1>8. CASE Spawn(c)
    <2>1. HandsOn(c, req[c].attempt)
      BY <1>8 DEF Spawn, HandsOn
    <2> QED BY <2>1
  <1>9. CASE SpawnFails(c) \/ CloseLock(c) \/ KillCaller(c)
    BY <1>9 DEF SpawnFails, CloseLock, KillCaller, GoesOn
  <1>10. CASE PollLogin(c)
    BY <1>10 DEF PollLogin, GoesOn
  <1> QED BY <1>1, <1>2, <1>3, <1>4, <1>5, <1>6, <1>7, <1>8, <1>9, <1>10

\* Every step of a worker is.
LEMMA WorkerSteps ==
    ASSUME LockInv, NEW a \in Attempts,
           \/ StartRuntime(a) \/ DeviceCode(a) \/ AwaitLogin(a) \/ RecordEnd(a) \/ WriteEnd(a)
           \/ CloseRuntime(a) \/ CloseWorker(a) \/ ExitWorker(a) \/ KillWorker(a)
    PROVE  Drives(a)
  <1> USE DEF LockInv, Shape, Leaves, Running, Drives
  <1>1. CASE StartRuntime(a) \/ DeviceCode(a)
    BY <1>1 DEF StartRuntime, DeviceCode
  <1>2. CASE AwaitLogin(a)
    BY <1>2 DEF AwaitLogin
  <1>3. CASE RecordEnd(a) \/ WriteEnd(a) \/ CloseRuntime(a) \/ CloseWorker(a)
    BY <1>3 DEF RecordEnd, WriteEnd, CloseRuntime, CloseWorker
  <1>4. CASE ExitWorker(a) \/ KillWorker(a)
    BY <1>4 DEF ExitWorker, KillWorker
  <1> QED BY <1>1, <1>2, <1>3, <1>4

\* The invariant is inductive.
LEMMA StepLockInv == LockInv /\ [AccountNext]_avars => LockInv'
  <1> SUFFICES ASSUME LockInv, [AccountNext]_avars PROVE LockInv'
    OBVIOUS
  <1>1. ASSUME NEW c \in Callers,
               \/ Request(c) \/ ReadState(c) \/ ProbeHeld(c) \/ ProbeTaken(c) \/ ProbeReleased(c)
               \/ Interrupt(c) \/ InterruptWrite(c) \/ RuntimeStatus(c)
               \/ TouchCancel(c) \/ Logout(c) \/ UnlinkCancel(c) \/ UnlinkState(c)
               \/ LockLogin(c) \/ CheckAccount(c) \/ ClearCancel(c) \/ WriteStarting(c)
               \/ Spawn(c) \/ SpawnFails(c) \/ CloseLock(c) \/ PollLogin(c) \/ KillCaller(c)
        PROVE  LockInv'
    <2>1. Shape'
      BY <1>1, CallerShape DEF LockInv
    <2>2. GoesOn(c) \/ Takes(c) \/ \E a : HandsOn(c, a)
      BY <1>1, CallerSteps
    <2>3. Holders'
      BY <2>2, MovesHolders, TakesHolders, HandsOnHolders DEF LockInv
    <2> QED BY <2>1, <2>3 DEF LockInv
  <1>2. ASSUME NEW a \in Attempts,
               \/ StartRuntime(a) \/ DeviceCode(a) \/ AwaitLogin(a) \/ RecordEnd(a) \/ WriteEnd(a)
               \/ CloseRuntime(a) \/ CloseWorker(a) \/ ExitWorker(a) \/ KillWorker(a)
        PROVE  LockInv'
    <2>1. Shape'
      BY <1>2, WorkerShape DEF LockInv
    <2>2. Drives(a)
      BY <1>2, WorkerSteps
    <2>3. Holders'
      BY <2>2, DrivesHolders DEF LockInv
    <2> QED BY <2>1, <2>3 DEF LockInv
  <1>3. CASE UNCHANGED avars
    BY <1>3 DEF avars, LockInv, Shape, Holders, Preparing, Running
  <1> QED BY <1>1, <1>2, <1>3 DEF AccountNext

\* A set whose members are all equal has at most one.
LEMMA AtMostOne ==
    ASSUME NEW S, \A x, y \in S : x = y
    PROVE  Cardinality(S) <= 1
  <1>1. CASE S = {}
    BY <1>1, FS_EmptySet
  <1>2. CASE S # {}
    <2>1. PICK x : x \in S
      BY <1>2
    <2>2. S = {x}
      BY <2>1
    <2> QED BY <2>2, FS_Singleton
  <1> QED BY <1>1, <1>2

\* Whichever processes are killed at whichever step, the callers and workers of account.py
\* never drive two logins, nor prepare one while a worker lives.
THEOREM LoginsExclude == AccountSpec => []OneLogin
  <1>1. LockInv => OneLogin
    <2> SUFFICES ASSUME LockInv PROVE OneLogin
      OBVIOUS
    <2>1. Cardinality({a \in Attempts : Running(a)}) <= 1
      <3>1. \A a, b \in {x \in Attempts : Running(x)} : a = b
        BY DEF LockInv, Holders
      <3> HIDE DEF Running
      <3> QED BY <3>1, AtMostOne
    <2>2. ASSUME NEW c \in Callers, NEW a \in Attempts, Preparing(c)
          PROVE  ~Running(a)
      BY <2>2, Distinct DEF LockInv, Holders
    <2> QED BY <2>1, <2>2 DEF OneLogin, Preparing
  <1> QED BY <1>1, InitLockInv, StepLockInv, PTL DEF AccountSpec

-----------------------------------------------------------------------------
(* The status of the maintenance jobs. *)

TaskStates == {"none", "scheduled", "working", "tell_success", "tell_failure", "ended"}

States == ActiveStates \union FinalStates

JobRow == [op : JobOps \union {"none"}, state : States \union {"absent"}, old : BOOLEAN]

EventRow == [n : Nat, op : Ops, job : Jobs \union {NoJob}, state : States]

MaintenanceTypeOK ==
    /\ jobs \in [Jobs -> JobRow]
    /\ \A j \in Jobs : jobs[j].state # "absent" => jobs[j].op \in JobOps
    /\ task \in [Jobs -> TaskStates]
    /\ done \subseteq Jobs
    /\ log \subseteq EventRow
    /\ last \in [Ops -> Nat]

\* The events of an operation are numbered up to the last one, and tell of jobs that exist.
LogInv ==
    \A e \in log :
        /\ e.n <= last[e.op]
        /\ e.job # NoJob => jobs[e.job].state # "absent" /\ jobs[e.job].op = e.op

\* An operation has one active job.
OneActive == \A i, j \in Jobs : ActiveJob(i) /\ ActiveJob(j) /\ jobs[i].op = jobs[j].op => i = j

\* The newest event of an operation is the one of its active job.
NewestIs(j) ==
    LET op == jobs[j].op
        newest == Event(last[op], op, j, jobs[j].state)
    IN  newest \in log /\ \A e \in log : e.op = op /\ e.n = last[op] => e = newest

NewestInv == \A j \in Jobs : ActiveJob(j) => NewestIs(j)

\* A job has one result in the log, the one of its row.
ResultInv ==
    \A e \in log : e.job # NoJob /\ e.state \in FinalStates =>
        /\ jobs[e.job].state = e.state
        /\ \A d \in log : d.job = e.job /\ d.state \in FinalStates => d = e

\* A task that is about to tell a success, and a job that succeeded, have done their work.
DoneInv ==
    \A j \in Jobs :
        /\ task[j] = "tell_success" \/ jobs[j].state = "succeeded" => j \in done
        /\ jobs[j].state = "absent" => task[j] = "none"

StatusInv == MaintenanceTypeOK /\ LogInv /\ OneActive /\ NewestInv /\ ResultInv /\ DoneInv

-----------------------------------------------------------------------------

\* The tables are empty at first.
LEMMA InitStatusInv == MaintenanceInit => StatusInv
  BY DEF MaintenanceInit, StatusInv, MaintenanceTypeOK, LogInv, OneActive, NewestInv, ResultInv, DoneInv, ActiveJob,
         ActiveStates, NoRow, JobRow, TaskStates, States

\* A job is none of the tests, and no job is the one of a test's event.
LEMMA Apart ==
    /\ JobOps \subseteq Ops /\ TestOps \subseteq Ops
    /\ \A op \in TestOps : op \notin JobOps
    /\ NoJob \notin Jobs
  BY DEF Ops, TestOps, NoJob, Jobs

-----------------------------------------------------------------------------
(* An active job changes its state *)

\* The row of an active job is written and told, by its own task.
Told(j, state) ==
    /\ ActiveJob(j) /\ state \in States
    /\ state \in ActiveStates => state = "running"
    /\ jobs' = [jobs EXCEPT ![j].state = state]
    /\ log' = log \union {Event(last[jobs[j].op] + 1, jobs[j].op, j, state)}
    /\ last' = [last EXCEPT ![jobs[j].op] = @ + 1]

\* Telling keeps the types.
LEMMA ToldType ==
    ASSUME MaintenanceTypeOK, NEW j \in Jobs, NEW state, Told(j, state),
           task' \in [Jobs -> TaskStates], done' \subseteq Jobs
    PROVE  MaintenanceTypeOK'
  <1> DEFINE op == jobs[j].op
             new == Event(last[op] + 1, op, j, state)
  <1>1. op \in JobOps
    BY DEF MaintenanceTypeOK, Told, ActiveJob, ActiveStates
  <1>2. jobs' \in [Jobs -> JobRow] /\ \A i \in Jobs : jobs'[i].op = jobs[i].op
    BY DEF MaintenanceTypeOK, Told, JobRow
  <1>3. \A i \in Jobs : jobs'[i].state # "absent" => jobs'[i].op \in JobOps
    BY <1>1, <1>2 DEF MaintenanceTypeOK, Told, JobRow
  <1>4. new \in EventRow
    BY <1>1, Apart DEF MaintenanceTypeOK, Told, Event, EventRow
  <1>5. log' \subseteq EventRow
    BY <1>4 DEF MaintenanceTypeOK, Told
  <1>6. last' \in [Ops -> Nat]
    BY <1>1, Apart DEF MaintenanceTypeOK, Told
  <1> QED BY <1>2, <1>3, <1>5, <1>6 DEF MaintenanceTypeOK

\* What telling does to the rows.
LEMMA ToldRows ==
    ASSUME MaintenanceTypeOK, NEW j \in Jobs, NEW state, Told(j, state)
    PROVE  /\ jobs'[j].state = state
           /\ \A i \in Jobs : jobs'[i].op = jobs[i].op
           /\ \A i \in Jobs : i # j => jobs'[i] = jobs[i]
           /\ \A i \in Jobs : ActiveJob(i)' => ActiveJob(i)
           /\ jobs[j].op \in JobOps
  BY DEF MaintenanceTypeOK, Told, JobRow, ActiveJob, ActiveStates

\* Telling keeps the log in order, one job active, the newest event and the results.
LEMMA ToldInv ==
    ASSUME StatusInv, NEW j \in Jobs, NEW state, Told(j, state)
    PROVE  LogInv' /\ OneActive' /\ NewestInv' /\ ResultInv'
  <1> DEFINE op == jobs[j].op
             new == Event(last[op] + 1, op, j, state)
  <1> USE DEF StatusInv
  <1>1. /\ jobs'[j].state = state
        /\ \A i \in Jobs : jobs'[i].op = jobs[i].op
        /\ \A i \in Jobs : i # j => jobs'[i] = jobs[i]
        /\ \A i \in Jobs : ActiveJob(i)' => ActiveJob(i)
        /\ op \in JobOps /\ op \in Ops
    BY ToldRows, Apart
  <1>2. /\ log' = log \union {new}
        /\ new.n = last[op] + 1 /\ new.op = op /\ new.job = j /\ new.state = state
        /\ last'[op] = last[op] + 1 /\ last[op] \in Nat
        /\ \A p \in Ops : p # op => last'[p] = last[p]
    BY <1>1 DEF Told, Event, MaintenanceTypeOK
  <1>3. \A e \in log : e \in EventRow /\ e.n \in Nat /\ e.op \in Ops /\ last[e.op] \in Nat
    BY DEF MaintenanceTypeOK, EventRow
  <1>4. j # NoJob
    BY Apart
  <1>5. LogInv'
    <2>1. ASSUME NEW e \in log
          PROVE  /\ e.n <= last'[e.op]
                 /\ e.job # NoJob => jobs'[e.job].state # "absent" /\ jobs'[e.job].op = e.op
      <3>1. e.n <= last'[e.op]
        BY <1>2, <1>3 DEF LogInv
      <3>2. e.job # NoJob => e.job \in Jobs
        BY <1>3 DEF EventRow
      <3>3. state # "absent"
        BY DEF Told, States, ActiveStates, FinalStates
      <3> QED BY <3>1, <3>2, <3>3, <1>1 DEF LogInv
    <2>2. new.n <= last'[new.op] /\ jobs'[new.job].state # "absent" /\ jobs'[new.job].op = new.op
      BY <1>1, <1>2 DEF Told, States, ActiveStates, FinalStates
    <2> QED BY <1>2, <2>1, <2>2 DEF LogInv
  <1>6. OneActive'
    BY <1>1 DEF OneActive
  <1>7. NewestInv'
    <2> SUFFICES ASSUME NEW i \in Jobs, ActiveJob(i)' PROVE NewestIs(i)'
      BY DEF NewestInv
    <2>1. CASE i = j
      <3>1. Event(last'[op], op, j, jobs'[j].state) = new
        BY <1>1, <1>2
      <3>2. \A e \in log' : e.op = op /\ e.n = last'[op] => e = new
        BY <1>2, <1>3 DEF LogInv
      <3> QED BY <1>1, <1>2, <2>1, <3>1, <3>2 DEF NewestIs
    <2>2. CASE i # j
      <3>1. ActiveJob(i) /\ jobs[i].op # op
        BY <1>1, <2>2 DEF OneActive, Told
      <3>2. jobs[i].op \in Ops
        BY <3>1, Apart DEF MaintenanceTypeOK, ActiveJob, ActiveStates
      <3> QED BY <1>1, <1>2, <2>2, <3>1, <3>2 DEF NewestInv, NewestIs
    <2> QED BY <2>1, <2>2
  <1>8. ResultInv'
    <2>1. \A e \in log : e.job = j => e.state \notin FinalStates
      BY <1>4 DEF ResultInv, Told, ActiveJob, ActiveStates, FinalStates
    <2>2. \A e \in log : e.job # NoJob => e.job \in Jobs
      BY <1>3 DEF EventRow
    <2>3. ASSUME NEW e \in log', e.job # NoJob, e.state \in FinalStates
          PROVE  jobs'[e.job].state = e.state
      BY <1>1, <1>2, <2>1, <2>2, <2>3 DEF ResultInv
    <2>4. ASSUME NEW e \in log', NEW d \in log', e.job # NoJob, e.state \in FinalStates,
                 d.job = e.job, d.state \in FinalStates
          PROVE  d = e
      BY <1>2, <2>1, <2>4 DEF ResultInv
    <2> QED BY <2>3, <2>4 DEF ResultInv
  <1> QED BY <1>5, <1>6, <1>7, <1>8

-----------------------------------------------------------------------------
(* Nothing is told *)

\* Steps that tell nothing keep the log, and the operation and the state of every row.
Quiet ==
    /\ UNCHANGED <<log, last>>
    /\ \A i \in Jobs : jobs'[i].op = jobs[i].op /\ jobs'[i].state = jobs[i].state

\* A step that tells nothing keeps all that relates the log to the rows.
LEMMA QuietInv ==
    ASSUME StatusInv, Quiet
    PROVE  LogInv' /\ OneActive' /\ NewestInv' /\ ResultInv'
  <1> USE DEF StatusInv
  <1>1. \A i \in Jobs : ActiveJob(i)' <=> ActiveJob(i)
    BY DEF Quiet, ActiveJob
  <1>2. \A e \in log : e.job # NoJob => e.job \in Jobs
    BY DEF MaintenanceTypeOK, EventRow
  <1>3. LogInv'
    BY <1>2 DEF LogInv, Quiet
  <1>4. OneActive'
    BY <1>1 DEF OneActive, Quiet
  <1>5. NewestInv'
    BY <1>1 DEF NewestInv, NewestIs, Quiet
  <1>6. ResultInv'
    BY <1>2 DEF ResultInv, Quiet
  <1> QED BY <1>3, <1>4, <1>5, <1>6

-----------------------------------------------------------------------------
(* A test is recorded *)

\* The event of a test is about no job and numbered among the events of its operation.
LEMMA TestInv ==
    ASSUME StatusInv, NEW op \in TestOps, DirectTest(op)
    PROVE  StatusInv'
  <1> USE DEF StatusInv
  <1> PICK state \in FinalStates : Record(op, NoJob, state)
    BY DEF DirectTest
  <1> DEFINE new == Event(last[op] + 1, op, NoJob, state)
  <1>1. op \in Ops /\ op \notin JobOps
    BY Apart
  <1>2. /\ log' = log \union {new}
        /\ new.n = last[op] + 1 /\ new.op = op /\ new.job = NoJob /\ new.state = state
        /\ last'[op] = last[op] + 1 /\ last[op] \in Nat
        /\ \A p \in Ops : p # op => last'[p] = last[p]
        /\ UNCHANGED <<jobs, task, done>>
    BY <1>1 DEF Record, DirectTest, Event, MaintenanceTypeOK
  <1>3. \A e \in log : e \in EventRow /\ e.n \in Nat /\ e.op \in Ops /\ last[e.op] \in Nat
    BY DEF MaintenanceTypeOK, EventRow
  <1>4. MaintenanceTypeOK'
    <2>1. new \in EventRow
      BY <1>1, <1>2 DEF Event, EventRow, States
    <2>2. last' \in [Ops -> Nat]
      BY <1>1 DEF Record, MaintenanceTypeOK
    <2> QED BY <1>2, <2>1, <2>2 DEF MaintenanceTypeOK
  <1>5. LogInv'
    BY <1>2, <1>3 DEF LogInv
  <1>6. OneActive' /\ DoneInv'
    BY <1>2 DEF OneActive, DoneInv, ActiveJob
  <1>7. NewestInv'
    <2> SUFFICES ASSUME NEW i \in Jobs, ActiveJob(i) PROVE NewestIs(i)'
      BY <1>2 DEF NewestInv, ActiveJob
    <2>1. jobs[i].op \in Ops /\ jobs[i].op # op
      BY <1>1, Apart DEF MaintenanceTypeOK, ActiveJob, ActiveStates
    <2> QED BY <1>2, <2>1 DEF NewestInv, NewestIs
  <1>8. ResultInv'
    BY <1>2 DEF ResultInv
  <1> QED BY <1>4, <1>5, <1>6, <1>7, <1>8

-----------------------------------------------------------------------------
(* A job is created *)

\* A creation writes the row of a new job and gives up those that are too old.
LEMMA CreateRows ==
    ASSUME StatusInv, NEW op \in JobOps, NEW j \in Jobs, Create(op, j)
    PROVE  /\ jobs[j].state = "absent"
           /\ jobs'[j].op = op /\ jobs'[j].state = "queued"
           /\ \A i \in Jobs : i # j /\ Stale(i) =>
                jobs'[i].op = jobs[i].op /\ jobs'[i].state = "failed" /\ jobs[i].op # "none"
           /\ \A i \in Jobs : i # j /\ ~Stale(i) => jobs'[i] = jobs[i]
           /\ \A i \in Jobs : ActiveJob(i)' => i = j \/ (ActiveJob(i) /\ ~Stale(i) /\ jobs[i].op # op)
           /\ jobs' \in [Jobs -> JobRow]
           /\ \A i \in Jobs : jobs'[i].state # "absent" => jobs'[i].op \in JobOps
           /\ ~Stale(j)
  <1> USE DEF StatusInv, MaintenanceTypeOK
  <1>1. jobs[j].state = "absent" /\ ~Stale(j)
    BY DEF Create, Stale, ActiveJob, ActiveStates
  <1>2. jobs'[j].op = op /\ jobs'[j].state = "queued" /\ jobs'[j] \in JobRow
    BY DEF Create, JobRow, States, ActiveStates
  <1>3. ASSUME NEW i \in Jobs, i # j, Stale(i)
        PROVE  /\ jobs'[i].op = jobs[i].op /\ jobs'[i].state = "failed" /\ jobs[i].op # "none"
               /\ jobs'[i] \in JobRow /\ jobs[i].op \in JobOps
    <2>1. jobs'[i] = Expired(i)
      BY <1>3 DEF Create
    <2>2. jobs[i].op \in JobOps
      BY <1>3 DEF Stale, ActiveJob, ActiveStates
    <2> QED BY <2>1, <2>2 DEF Expired, JobRow, States, FinalStates, JobOps
  <1>4. ASSUME NEW i \in Jobs, i # j, ~Stale(i) PROVE jobs'[i] = jobs[i]
    BY <1>4 DEF Create
  <1>5. ASSUME NEW i \in Jobs, ActiveJob(i)', i # j PROVE ActiveJob(i) /\ ~Stale(i) /\ jobs[i].op # op
    <2>1. ~Stale(i)
      BY <1>3, <1>5 DEF ActiveJob, ActiveStates
    <2> QED BY <1>4, <1>5, <2>1 DEF ActiveJob, Create
  <1>6. \A i \in Jobs : jobs'[i] \in JobRow
    BY <1>2, <1>3, <1>4
  <1>7. jobs' \in [Jobs -> JobRow]
    BY <1>6 DEF Create
  <1>8. \A i \in Jobs : jobs'[i].state # "absent" => jobs'[i].op \in JobOps
    BY <1>2, <1>3, <1>4
  <1> QED BY <1>1, <1>2, <1>3, <1>4, <1>5, <1>7, <1>8

\* What a creation adds to the log.
LEMMA CreateLog ==
    ASSUME StatusInv, NEW op \in JobOps, NEW j \in Jobs, Create(op, j)
    PROVE  /\ \A p \in Ops : AfterExpiry(p) \in Nat /\ last[p] <= AfterExpiry(p) /\ last[p] \in Nat
           /\ last' \in [Ops -> Nat]
           /\ last'[op] = AfterExpiry(op) + 1
           /\ \A p \in Ops : p # op => last'[p] = AfterExpiry(p)
           /\ \A i \in Jobs : Stale(i) => AfterExpiry(jobs[i].op) = last[jobs[i].op] + 1
           /\ log' = log \union ExpiryEvents \union {Event(AfterExpiry(op) + 1, op, j, "queued")}
           /\ \A e \in ExpiryEvents : \E i \in Jobs :
                Stale(i) /\ e = Event(last[jobs[i].op] + 1, jobs[i].op, i, "failed")
           /\ \A i \in Jobs : Stale(i) => jobs[i].op \in JobOps /\ jobs[i].op \in Ops
  <1> USE DEF StatusInv, MaintenanceTypeOK
  <1>0. op \in Ops
    BY Apart
  <1>1. \A i \in Jobs : Stale(i) => jobs[i].op \in JobOps /\ jobs[i].op \in Ops
    BY Apart DEF Stale, ActiveJob, ActiveStates
  <1>2. \A p \in Ops : AfterExpiry(p) \in Nat /\ last[p] <= AfterExpiry(p) /\ last[p] \in Nat
    BY DEF AfterExpiry
  <1>3. \A p \in Ops : last'[p] = IF p = op THEN AfterExpiry(p) + 1 ELSE AfterExpiry(p)
    BY DEF Create
  <1>4. last' \in [Ops -> Nat]
    BY <1>2, <1>3 DEF Create
  <1>5. \A i \in Jobs : Stale(i) => AfterExpiry(jobs[i].op) = last[jobs[i].op] + 1
    BY DEF AfterExpiry
  <1>6. \A e \in ExpiryEvents : \E i \in Jobs :
            Stale(i) /\ e = Event(last[jobs[i].op] + 1, jobs[i].op, i, "failed")
    BY DEF ExpiryEvents
  <1>7. log' = log \union ExpiryEvents \union {Event(AfterExpiry(op) + 1, op, j, "queued")}
    BY DEF Create
  <1> QED BY <1>0, <1>1, <1>2, <1>3, <1>4, <1>5, <1>6, <1>7

\* The events of a creation, one by one: an old one, one of a row given up, or the new row's.
LEMMA CreateEvents ==
    ASSUME StatusInv, NEW op \in JobOps, NEW j \in Jobs, Create(op, j), NEW e \in log'
    PROVE  \/ e \in log
           \/ \E i \in Jobs : /\ Stale(i) /\ i # j
                              /\ e.n = last[jobs[i].op] + 1 /\ e.op = jobs[i].op
                              /\ e.job = i /\ e.state = "failed"
           \/ e.n = AfterExpiry(op) + 1 /\ e.op = op /\ e.job = j /\ e.state = "queued"
  <1>1. ~Stale(j)
    BY CreateRows
  <1>2. CASE e \in ExpiryEvents
    <2>1. PICK i \in Jobs : Stale(i) /\ e = Event(last[jobs[i].op] + 1, jobs[i].op, i, "failed")
      BY <1>2, CreateLog
    <2> QED BY <1>1, <2>1 DEF Event
  <1>3. CASE e = Event(AfterExpiry(op) + 1, op, j, "queued")
    BY <1>3 DEF Event
  <1> QED BY <1>2, <1>3, CreateLog

\* A creation keeps the types.
LEMMA CreateType ==
    ASSUME StatusInv, NEW op \in JobOps, NEW j \in Jobs, Create(op, j)
    PROVE  MaintenanceTypeOK'
  <1> USE DEF StatusInv
  <1>0. op \in Ops
    BY Apart
  <1>1. \A i \in Jobs : Stale(i) => Event(last[jobs[i].op] + 1, jobs[i].op, i, "failed") \in EventRow
    BY CreateLog DEF Event, EventRow, States, FinalStates
  <1>2. Event(AfterExpiry(op) + 1, op, j, "queued") \in EventRow
    BY <1>0, CreateLog DEF Event, EventRow, States, ActiveStates
  <1>3. ExpiryEvents \subseteq EventRow
    BY <1>1, CreateLog
  <1>4. log' \subseteq EventRow
    BY <1>2, <1>3, CreateLog DEF MaintenanceTypeOK
  <1>5. task' \in [Jobs -> TaskStates] /\ done' \subseteq Jobs
    BY DEF Create, MaintenanceTypeOK, TaskStates
  <1>6. /\ jobs' \in [Jobs -> JobRow]
        /\ \A i \in Jobs : jobs'[i].state # "absent" => jobs'[i].op \in JobOps
        /\ last' \in [Ops -> Nat]
    BY CreateRows, CreateLog
  <1> QED BY <1>4, <1>5, <1>6 DEF MaintenanceTypeOK

\* A creation tells the rows given up before the new one, and keeps the rest.
LEMMA CreateInv ==
    ASSUME StatusInv, NEW op \in JobOps, NEW j \in Jobs, Create(op, j)
    PROVE  LogInv' /\ OneActive' /\ NewestInv' /\ ResultInv' /\ DoneInv'
  <1> USE DEF StatusInv
  <1>0. op \in Ops /\ j # NoJob
    BY Apart
  <1>a. /\ \A p \in Ops : AfterExpiry(p) \in Nat /\ last[p] <= AfterExpiry(p) /\ last[p] \in Nat
        /\ last'[op] = AfterExpiry(op) + 1
        /\ \A p \in Ops : p # op => last'[p] = AfterExpiry(p)
        /\ \A i \in Jobs : Stale(i) => /\ AfterExpiry(jobs[i].op) = last[jobs[i].op] + 1
                                       /\ jobs[i].op \in Ops
    BY CreateLog
  <1>b. /\ jobs[j].state = "absent" /\ jobs'[j].state = "queued" /\ ~Stale(j)
        /\ \A i \in Jobs : i # j /\ Stale(i) =>
                jobs'[i].op = jobs[i].op /\ jobs'[i].state = "failed"
        /\ \A i \in Jobs : i # j /\ ~Stale(i) => jobs'[i] = jobs[i]
    BY CreateRows
  <1>1. ASSUME NEW e \in log
        PROVE  /\ e.n \in Nat /\ e.op \in Ops /\ e.n <= last[e.op]
               /\ e.job # NoJob => e.job \in Jobs /\ e.job # j
    BY <1>b DEF MaintenanceTypeOK, EventRow, LogInv
  <1>2. LogInv'
    <2> SUFFICES ASSUME NEW e \in log'
                 PROVE  /\ e.n <= last'[e.op]
                        /\ e.job # NoJob => jobs'[e.job].state # "absent" /\ jobs'[e.job].op = e.op
      BY DEF LogInv
    <2>1. CASE e \in log
      <3>1. e.n <= last'[e.op]
        <4>1. e.n \in Nat /\ e.op \in Ops /\ e.n <= last[e.op]
          BY <1>1, <2>1
        <4>2. CASE e.op = op
          BY <1>0, <1>a, <4>1, <4>2
        <4>3. CASE e.op # op
          BY <1>a, <4>1, <4>3
        <4> QED BY <4>2, <4>3
      <3>2. e.job # NoJob => jobs'[e.job].state # "absent" /\ jobs'[e.job].op = e.op
        <4> SUFFICES ASSUME e.job # NoJob
                     PROVE  jobs'[e.job].state # "absent" /\ jobs'[e.job].op = e.op
          OBVIOUS
        <4>1. e.job \in Jobs /\ e.job # j
          BY <1>1, <2>1
        <4>2. jobs[e.job].state # "absent" /\ jobs[e.job].op = e.op
          BY <2>1 DEF LogInv
        <4> QED BY <1>b, <4>1, <4>2
      <3> QED BY <3>1, <3>2
    <2>2. CASE \E i \in Jobs : /\ Stale(i) /\ i # j
                              /\ e.n = last[jobs[i].op] + 1 /\ e.op = jobs[i].op
                              /\ e.job = i /\ e.state = "failed"
      <3> PICK i \in Jobs : /\ Stale(i) /\ i # j
                            /\ e.n = last[jobs[i].op] + 1 /\ e.op = jobs[i].op
                            /\ e.job = i /\ e.state = "failed"
        BY <2>2
      <3>1. e.n <= last'[e.op]
        BY <1>0, CreateLog
      <3> QED BY <3>1, CreateRows
    <2>3. CASE e.n = AfterExpiry(op) + 1 /\ e.op = op /\ e.job = j /\ e.state = "queued"
      BY <1>0, <2>3, CreateRows, CreateLog
    <2> QED BY <2>1, <2>2, <2>3, CreateEvents
  <1>3. OneActive'
    BY CreateRows DEF OneActive
  <1>4. NewestInv'
    <2> SUFFICES ASSUME NEW i \in Jobs, ActiveJob(i)' PROVE NewestIs(i)'
      BY DEF NewestInv
    <2>1. CASE i = j
      <3> DEFINE new == Event(AfterExpiry(op) + 1, op, j, "queued")
      <3>1. Event(last'[jobs'[j].op], jobs'[j].op, j, jobs'[j].state) = new /\ new \in log'
        BY CreateRows, CreateLog
      <3>2. ASSUME NEW e \in log', e.op = op, e.n = last'[op] PROVE e = new
        <4>1. e \notin log
          BY <1>0, <1>1, <1>a, <3>2
        <4>2. ASSUME NEW h \in Jobs, Stale(h), e.n = last[jobs[h].op] + 1, e.op = jobs[h].op
              PROVE  FALSE
          BY <1>0, <1>a, <3>2, <4>2
        <4>3. e \notin ExpiryEvents
          BY <4>2, CreateLog DEF Event
        <4> QED BY <4>1, <4>3, CreateLog
      <3> QED BY <2>1, <3>1, <3>2, CreateRows DEF NewestIs
    <2>2. CASE i # j
      <3> DEFINE p == jobs[i].op
      <3>1. ActiveJob(i) /\ ~Stale(i) /\ p # op /\ jobs'[i] = jobs[i]
        BY <2>2, CreateRows
      <3>2. p \in Ops
        BY <3>1, Apart DEF MaintenanceTypeOK, ActiveJob, ActiveStates
      <3>3. \A h \in Jobs : Stale(h) => jobs[h].op # p
        BY <3>1 DEF OneActive, Stale
      <3>4. last'[p] = last[p]
        BY <3>1, <3>2, <3>3, CreateLog DEF AfterExpiry
      <3>5. \A e \in log' : e.op = p => e \in log
        BY <3>1, <3>3, CreateEvents
      <3>6. NewestIs(i) /\ log \subseteq log'
        BY <3>1, CreateLog DEF NewestInv
      <3> QED BY <3>1, <3>4, <3>5, <3>6 DEF NewestIs
    <2> QED BY <2>1, <2>2
  <1>5. ResultInv'
    <2>1. \A e \in log : \A i \in Jobs : Stale(i) /\ e.job = i => e.state \notin FinalStates
      BY Apart DEF ResultInv, Stale, ActiveJob, ActiveStates, FinalStates
    <2>2. \A e \in log' : e.state \in FinalStates /\ e.job # NoJob =>
            \/ e \in log /\ e.job \in Jobs /\ ~Stale(e.job) /\ e.job # j
            \/ /\ e \in ExpiryEvents /\ e.job \in Jobs /\ Stale(e.job) /\ e.job # j
               /\ e = Event(last[jobs[e.job].op] + 1, jobs[e.job].op, e.job, "failed")
      <3> SUFFICES ASSUME NEW e \in log', e.state \in FinalStates, e.job # NoJob
                   PROVE  \/ e \in log /\ e.job \in Jobs /\ ~Stale(e.job) /\ e.job # j
                          \/ /\ e \in ExpiryEvents /\ e.job \in Jobs /\ Stale(e.job) /\ e.job # j
                             /\ e = Event(last[jobs[e.job].op] + 1, jobs[e.job].op, e.job, "failed")
        OBVIOUS
      <3>1. CASE e \in log
        <4>1. e.job \in Jobs /\ e.job # j
          BY <1>1, <3>1
        <4>2. ~Stale(e.job)
          BY <2>1, <3>1, <4>1
        <4> QED BY <3>1, <4>1, <4>2
      <3>2. CASE e \in ExpiryEvents
        <4> PICK i \in Jobs : Stale(i) /\ e = Event(last[jobs[i].op] + 1, jobs[i].op, i, "failed")
          BY <3>2, CreateLog
        <4>1. e.job = i
          BY DEF Event
        <4> QED BY <3>2, <4>1, CreateRows
      <3>3. e # Event(AfterExpiry(op) + 1, op, j, "queued")
        BY DEF Event, FinalStates
      <3> QED BY <3>1, <3>2, <3>3, CreateLog
    <2>3. ASSUME NEW e \in log', e.job # NoJob, e.state \in FinalStates
          PROVE  jobs'[e.job].state = e.state
      <3>1. CASE e \in log /\ e.job \in Jobs /\ ~Stale(e.job) /\ e.job # j
        BY <2>3, <3>1, CreateRows DEF ResultInv
      <3>2. CASE /\ e.job \in Jobs /\ Stale(e.job) /\ e.job # j
                 /\ e = Event(last[jobs[e.job].op] + 1, jobs[e.job].op, e.job, "failed")
        <4>1. e.state = "failed"
          BY <3>2 DEF Event
        <4> QED BY <3>2, <4>1, CreateRows
      <3> QED BY <2>2, <2>3, <3>1, <3>2
    <2>4. ASSUME NEW e \in log', NEW d \in log', e.job # NoJob, e.state \in FinalStates,
                 d.job = e.job, d.state \in FinalStates
          PROVE  d = e
      BY <2>2, <2>4 DEF ResultInv
    <2> QED BY <2>3, <2>4 DEF ResultInv
  <1>6. DoneInv'
    <2> SUFFICES ASSUME NEW i \in Jobs
                 PROVE  /\ task'[i] = "tell_success" \/ jobs'[i].state = "succeeded" => i \in done'
                        /\ jobs'[i].state = "absent" => task'[i] = "none"
      BY DEF DoneInv
    <2>1. CASE i = j
      BY <2>1, CreateRows DEF Create, MaintenanceTypeOK
    <2>2. CASE i # j
      <3>1. task'[i] = task[i] /\ done' = done
        BY <2>2 DEF Create, MaintenanceTypeOK
      <3>2. CASE Stale(i)
        <4>1. jobs'[i].state = "failed"
          BY <1>b, <2>2, <3>2
        <4> QED BY <3>1, <4>1 DEF DoneInv
      <3>3. CASE ~Stale(i)
        BY <1>b, <2>2, <3>1, <3>3 DEF DoneInv
      <3> QED BY <3>2, <3>3
    <2> QED BY <2>1, <2>2
  <1> QED BY <1>2, <1>3, <1>4, <1>5, <1>6

-----------------------------------------------------------------------------
(* The background task *)

\* Begun or not, a job is told of once.
LEMMA MarkRunningInv ==
    ASSUME StatusInv, NEW j \in Jobs, MarkRunning(j)
    PROVE  StatusInv'
  <1> USE DEF StatusInv
  <1>1. task' \in [Jobs -> TaskStates] /\ done' \subseteq Jobs
    BY DEF MarkRunning, MaintenanceTypeOK, TaskStates
  <1>2. CASE jobs[j].state = "queued"
    <2>1. Told(j, "running")
      BY <1>2 DEF MarkRunning, Moves, Record, Told, ActiveJob, ActiveStates, States
    <2>2. DoneInv'
      BY <1>2, <2>1, ToldRows DEF MarkRunning, DoneInv, MaintenanceTypeOK
    <2> QED BY <1>1, <2>1, <2>2, ToldType, ToldInv
  <1>3. CASE jobs[j].state # "queued"
    <2>1. Quiet /\ jobs' = jobs
      BY <1>3 DEF MarkRunning, StaysPut, Quiet
    <2>2. MaintenanceTypeOK'
      BY <1>1, <2>1 DEF MaintenanceTypeOK, Quiet
    <2>3. DoneInv'
      BY <1>3, <2>1 DEF MarkRunning, DoneInv, MaintenanceTypeOK
    <2> QED BY <2>1, <2>2, <2>3, QuietInv
  <1> QED BY <1>2, <1>3

\* The work tells nothing.
LEMMA WorksInv ==
    ASSUME StatusInv, NEW j \in Jobs, NEW committed \in BOOLEAN, NEW fine \in BOOLEAN,
           task[j] = "working", fine => committed, Works(j, committed, fine)
    PROVE  StatusInv'
  <1> USE DEF StatusInv
  <1>1. Quiet /\ jobs' = jobs
    BY DEF Works, Quiet
  <1>2. MaintenanceTypeOK'
    BY DEF Works, MaintenanceTypeOK, TaskStates
  <1>3. DoneInv'
    BY DEF Works, DoneInv, MaintenanceTypeOK
  <1> QED BY <1>1, <1>2, <1>3, QuietInv

\* Only a running job takes a result.
LEMMA FinishInv ==
    ASSUME StatusInv, NEW j \in Jobs, Finish(j)
    PROVE  StatusInv'
  <1> USE DEF StatusInv
  <1> PICK told \in BOOLEAN, heard \in BOOLEAN :
        /\ told => jobs[j].state = "running"
        /\ heard => told
        /\ IF told THEN Moves(j, Outcome(j)) ELSE StaysPut
        /\ task' = [task EXCEPT ![j] = IF heard THEN "ended" ELSE AfterUntold(j)]
    BY DEF Finish
  <1>1. task' \in [Jobs -> TaskStates] /\ done' = done /\ done' \subseteq Jobs
    BY DEF Finish, MaintenanceTypeOK, TaskStates, AfterUntold
  <1>2. task'[j] # "tell_success" /\ \A i \in Jobs : i # j => task'[i] = task[i]
    BY DEF MaintenanceTypeOK, AfterUntold
  <1>3. Outcome(j) \in FinalStates /\ (Outcome(j) = "succeeded" => j \in done)
    BY DEF Outcome, FinalStates, DoneInv
  <1>4. task[j] # "none"
    BY DEF Finish
  <1>5. CASE told
    <2>1. Told(j, Outcome(j))
      BY <1>3, <1>5 DEF Moves, Record, Told, ActiveJob, ActiveStates, States, FinalStates
    <2>2. DoneInv'
      BY <1>1, <1>2, <1>3, <2>1, ToldRows DEF DoneInv, FinalStates
    <2> QED BY <1>1, <2>1, <2>2, ToldType, ToldInv
  <1>6. CASE ~told
    <2>1. Quiet /\ jobs' = jobs
      BY <1>6 DEF StaysPut, Quiet
    <2>2. MaintenanceTypeOK'
      BY <1>1, <2>1 DEF MaintenanceTypeOK, Quiet
    <2>3. DoneInv'
      BY <1>1, <1>2, <1>4, <2>1 DEF DoneInv
    <2> QED BY <2>1, <2>2, <2>3, QuietInv
  <1> QED BY <1>5, <1>6

\* A task may die anywhere.
LEMMA TaskDiesInv ==
    ASSUME StatusInv, NEW j \in Jobs, TaskDies(j)
    PROVE  StatusInv'
  <1> USE DEF StatusInv
  <1>1. Quiet /\ jobs' = jobs
    BY DEF TaskDies, Quiet
  <1>2. MaintenanceTypeOK'
    BY DEF TaskDies, MaintenanceTypeOK, TaskStates
  <1>3. DoneInv'
    BY DEF TaskDies, DoneInv, MaintenanceTypeOK
  <1> QED BY <1>1, <1>2, <1>3, QuietInv

\* A row that grows old keeps its operation and its state.
LEMMA GrowOldInv ==
    ASSUME StatusInv, NEW j \in Jobs, GrowOld(j)
    PROVE  StatusInv'
  <1> USE DEF StatusInv
  <1>1. Quiet
    BY DEF GrowOld, Quiet, MaintenanceTypeOK, JobRow
  <1>2. MaintenanceTypeOK'
    <2>1. jobs' \in [Jobs -> JobRow]
      BY DEF GrowOld, MaintenanceTypeOK, JobRow
    <2> QED BY <1>1, <2>1 DEF GrowOld, Quiet, MaintenanceTypeOK
  <1>3. DoneInv'
    BY <1>1 DEF GrowOld, Quiet, DoneInv
  <1> QED BY <1>1, <1>2, <1>3, QuietInv

\* Every step keeps the invariant.
LEMMA StepStatusInv == StatusInv /\ [MaintenanceNext]_mvars => StatusInv'
  <1> SUFFICES ASSUME StatusInv, [MaintenanceNext]_mvars PROVE StatusInv'
    OBVIOUS
  <1>1. ASSUME NEW op \in TestOps, DirectTest(op) PROVE StatusInv'
    BY <1>1, TestInv
  <1>2. ASSUME NEW j \in Jobs, SourceRescan(j) \/ KnowledgeReindex(j) PROVE StatusInv'
    <2>1. PICK op \in JobOps : Create(op, j)
      BY <1>2 DEF SourceRescan, KnowledgeReindex, JobOps
    <2> QED BY <2>1, CreateType, CreateInv DEF StatusInv
  <1>3. ASSUME NEW j \in Jobs, MarkRunning(j) PROVE StatusInv'
    BY <1>3, MarkRunningInv
  <1>4. ASSUME NEW j \in Jobs, Rescan(j) PROVE StatusInv'
    BY <1>4, WorksInv DEF Rescan
  <1>5. ASSUME NEW j \in Jobs, Reindex(j) PROVE StatusInv'
    BY <1>5, WorksInv DEF Reindex
  <1>6. ASSUME NEW j \in Jobs, Finish(j) PROVE StatusInv'
    BY <1>6, FinishInv
  <1>7. ASSUME NEW j \in Jobs, TaskDies(j) PROVE StatusInv'
    BY <1>7, TaskDiesInv
  <1>8. ASSUME NEW j \in Jobs, GrowOld(j) PROVE StatusInv'
    BY <1>8, GrowOldInv
  <1>9. CASE UNCHANGED mvars
    BY <1>9 DEF mvars, StatusInv, MaintenanceTypeOK, LogInv, OneActive, NewestInv, NewestIs, ResultInv, DoneInv,
                ActiveJob
  <1> QED BY <1>1, <1>2, <1>3, <1>4, <1>5, <1>6, <1>7, <1>8, <1>9 DEF MaintenanceNext

\* What the status shows follows.
LEMMA StatusFollows == StatusInv => StatusIsTrue
  <1> SUFFICES ASSUME StatusInv PROVE StatusIsTrue
    OBVIOUS
  <1> USE DEF StatusInv
  <1>1. \A i, j \in Status.active : jobs[i].op = jobs[j].op => i = j
    BY DEF Status, ListActive, OneActive
  <1>2. ASSUME NEW j \in Status.active, NEW e \in Status.latest[jobs[j].op]
        PROVE  e.job = j /\ e.state = jobs[j].state
    <2> DEFINE op == jobs[j].op
               newest == Event(last[op], op, j, jobs[j].state)
    <2>1. j \in Jobs /\ ActiveJob(j)
      BY DEF Status, ListActive
    <2>2. op \in Ops
      BY <2>1, Apart DEF MaintenanceTypeOK, ActiveJob, ActiveStates
    <2>3. e \in log /\ e.op = op /\ \A d \in log : d.op = op => d.n <= e.n
      BY <2>2 DEF Status, Latest
    <2>4. newest \in log /\ \A d \in log : d.op = op /\ d.n = last[op] => d = newest
      BY <2>1 DEF NewestInv, NewestIs
    <2>5. newest.op = op /\ newest.n = last[op]
      BY DEF Event
    <2>6. e.n <= last[op] /\ last[op] <= e.n /\ e.n \in Nat /\ last[op] \in Nat
      BY <2>2, <2>3, <2>4, <2>5 DEF LogInv, MaintenanceTypeOK, EventRow
    <2>7. e = newest
      BY <2>3, <2>4, <2>6
    <2> QED BY <2>7 DEF Event
  <1>3. \A j \in Jobs : jobs[j].state = "succeeded" => j \in done
    BY DEF DoneInv
  <1> QED BY <1>1, <1>2, <1>3 DEF StatusIsTrue, ResultInv

\* What the status shows of the maintenance jobs is true, for any number of jobs: an
\* operation has one active job, its latest event is about that job and says its state, a job
\* has one result, and one that succeeded has done its work (maintenance_repository.py).
THEOREM StatusCanBeTrusted == MaintenanceSpec => []StatusIsTrue
  <1>1. MaintenanceInit => StatusInv
    BY InitStatusInv
  <1>2. StatusInv /\ [MaintenanceNext]_mvars => StatusInv'
    BY StepStatusInv
  <1>3. StatusInv => StatusIsTrue
    BY StatusFollows
  <1> QED BY <1>1, <1>2, <1>3, PTL DEF MaintenanceSpec

-----------------------------------------------------------------------------
(* The revisions of the configuration. *)

AdminRow == [pc : {"idle", "editing", "applying"}, seen : Nat, want : Overrides \union {Empty},
             facts : Facts \union {Empty}]

RevisionRow == [revision : Nat, overrides : Overrides, fingerprint : Overrides \X Facts, based : Nat]

ConfigurationTypeOK ==
    /\ conf \in [revision : Nat, fingerprint : (Overrides \X Facts) \union {NoFingerprint}]
    /\ revs \subseteq RevisionRow
    /\ admin \in [Admins -> AdminRow]
    /\ facts \in Facts

\* What is about to be applied was valid on the host it was validated against.
ValidatedInv ==
    \A a \in Admins : admin[a].pc = "applying" =>
        admin[a].want \in Overrides /\ admin[a].facts \in Facts /\ Valid(admin[a].want, admin[a].facts)

ChainInv == ConfigurationTypeOK /\ ValidatedInv /\ RevisionsChained

-----------------------------------------------------------------------------

\* Revision 0 is nothing but the pointer.
LEMMA InitChain == ConfigurationInit => ChainInv
  <1> SUFFICES ASSUME ConfigurationInit PROVE ChainInv
    OBVIOUS
  <1>1. ConfigurationTypeOK
    BY DEF ConfigurationInit, ConfigurationTypeOK, HostFacts, NoAdmin, AdminRow
  <1>2. ValidatedInv
    BY DEF ConfigurationInit, ValidatedInv, NoAdmin
  <1>3. conf.revision = 0 /\ revs = {} /\ conf.fingerprint = NoFingerprint
    BY DEF ConfigurationInit
  <1>4. {r.revision : r \in revs} = 1 .. conf.revision
    BY <1>3
  <1>5. RevisionsChained
    BY <1>3, <1>4 DEF RevisionsChained, Readable
  <1> QED BY <1>1, <1>2, <1>5 DEF ChainInv

\* The overrides of the current revision are those of its row, and no row is above it.
LEMMA CurrentRow ==
    ASSUME ChainInv
    PROVE  /\ \A r \in revs : r.revision = conf.revision => r.overrides = CurrentOverrides
           /\ \A r \in revs : r.revision \in 1 .. conf.revision
  <1>1. ASSUME NEW r \in revs PROVE r.revision \in 1 .. conf.revision
    BY DEF ChainInv, RevisionsChained
  <1>2. ASSUME NEW r \in revs, r.revision = conf.revision PROVE r.overrides = CurrentOverrides
    <2>1. conf.revision # 0
      BY <1>1, <1>2 DEF ChainInv, ConfigurationTypeOK
    <2> DEFINE c == CHOOSE q \in revs : q.revision = conf.revision
    <2>2. c \in revs /\ c.revision = conf.revision
      BY <1>2
    <2>3. c = r
      BY <1>2, <2>2 DEF ChainInv, RevisionsChained
    <2>4. CurrentOverrides = c.overrides
      BY <2>1 DEF CurrentOverrides
    <2> HIDE DEF c
    <2> QED BY <2>3, <2>4
  <1> QED BY <1>1, <1>2

\* A revision is appended only to the one its author had read.
LEMMA PersistChain ==
    ASSUME ChainInv, NEW a \in Admins, admin[a].pc = "applying",
           conf.revision = admin[a].seen, admin[a].want # CurrentOverrides, Persist(a)
    PROVE  /\ RevisionsChained'
           /\ conf' \in [revision : Nat, fingerprint : (Overrides \X Facts) \union {NoFingerprint}]
           /\ revs' \subseteq RevisionRow
  <1> DEFINE want == admin[a].want
             host == admin[a].facts
             next == conf.revision + 1
             new == [revision |-> next, overrides |-> want, fingerprint |-> Fingerprint(want, host),
                     based |-> admin[a].seen]
  <1>1. /\ want \in Overrides /\ host \in Facts /\ Valid(want, host)
        /\ conf.revision \in Nat /\ Fingerprint(want, host) \in Overrides \X Facts
    BY DEF ChainInv, ValidatedInv, ConfigurationTypeOK, Fingerprint
  <1>2. /\ revs' = revs \union {new}
        /\ conf' = [revision |-> next, fingerprint |-> Fingerprint(want, host)]
    BY DEF Persist
  <1>3. /\ new.revision = next /\ new.overrides = want /\ new.based = next - 1
        /\ new.fingerprint = Fingerprint(want, host)
        /\ conf'.revision = next /\ conf'.fingerprint = Fingerprint(want, host) /\ new \in RevisionRow
    BY <1>1, <1>2 DEF RevisionRow
  <1> HIDE DEF new
  <1>4. \A r \in revs : r.revision \in 1 .. conf.revision /\ r.revision # next
    BY <1>1, CurrentRow
  <1>5. Readable'
    BY <1>1, <1>2, <1>3 DEF Readable
  <1>6. {r.revision : r \in revs'} = 1 .. next
    <2>1. \A n \in 1 .. next : n = next \/ n \in 1 .. conf.revision
      BY <1>1
    <2>2. \A n \in 1 .. conf.revision : \E r \in revs : r.revision = n
      BY DEF ChainInv, RevisionsChained
    <2>3. \A n \in 1 .. next : \E r \in revs' : r.revision = n
      BY <1>2, <1>3, <2>1, <2>2
    <2>4. \A r \in revs' : r.revision \in 1 .. next
      BY <1>1, <1>2, <1>3, <1>4
    <2> QED BY <2>3, <2>4
  <1>7. ASSUME NEW r \in revs'
        PROVE  /\ r.based = r.revision - 1
               /\ \E f \in Facts : r.fingerprint = Fingerprint(r.overrides, f) /\ Valid(r.overrides, f)
    BY <1>1, <1>2, <1>3 DEF ChainInv, RevisionsChained, Valid
  <1>8. ASSUME NEW r \in revs', NEW q \in revs', q.revision = r.revision PROVE q = r
    BY <1>2, <1>3, <1>4, <1>8 DEF ChainInv, RevisionsChained
  <1>9. ASSUME NEW r \in revs', NEW q \in revs', q.revision = r.revision + 1
        PROVE  q.overrides # r.overrides
    <2>1. CASE r \in revs /\ q \in revs
      BY <1>9, <2>1 DEF ChainInv, RevisionsChained
    <2>2. CASE r = new
      BY <1>1, <1>2, <1>3, <1>4, <1>9, <2>2
    <2>3. CASE r \in revs /\ q = new
      <3>1. r.revision = conf.revision
        BY <1>1, <1>3, <1>4, <1>9, <2>3
      <3> QED BY <1>3, <2>3, <3>1, CurrentRow
    <2> QED BY <1>2, <2>1, <2>2, <2>3
  <1>10. RevisionsChained'
    BY <1>3, <1>5, <1>6, <1>7, <1>8, <1>9 DEF RevisionsChained
  <1>11. revs' \subseteq RevisionRow
    BY <1>2, <1>3 DEF ChainInv, ConfigurationTypeOK
  <1>12. conf' \in [revision : Nat, fingerprint : (Overrides \X Facts) \union {NoFingerprint}]
    BY <1>1, <1>2
  <1> QED BY <1>10, <1>11, <1>12

\* Every step keeps the chain.
LEMMA StepChain == ChainInv /\ [ConfigurationNext]_fvars => ChainInv'
  <1> SUFFICES ASSUME ChainInv, [ConfigurationNext]_fvars PROVE ChainInv'
    OBVIOUS
  <1> USE DEF ChainInv
  <1>0. ASSUME UNCHANGED <<conf, revs>> PROVE RevisionsChained'
    BY <1>0 DEF RevisionsChained, Readable
  <1>1. ASSUME NEW a \in Admins, Done(a)
        PROVE  admin' \in [Admins -> AdminRow] /\ ValidatedInv'
    BY <1>1 DEF Done, ConfigurationTypeOK, ValidatedInv, NoAdmin, AdminRow
  <1>2. ASSUME NEW a \in Admins, Snapshot(a) PROVE ChainInv'
    <2>1. RevisionsChained'
      BY <1>0, <1>2 DEF Snapshot
    <2>2. admin'[a] = [pc |-> "editing", seen |-> conf.revision, want |-> Empty, facts |-> Empty]
      BY <1>2 DEF Snapshot, NoAdmin, ConfigurationTypeOK
    <2>3. \A b \in Admins : b # a => admin'[b] = admin[b]
      BY <1>2 DEF Snapshot, ConfigurationTypeOK
    <2>4. admin'[a] \in AdminRow
      BY <2>2 DEF AdminRow, ConfigurationTypeOK
    <2>5. admin' \in [Admins -> AdminRow]
      BY <1>2, <2>4 DEF Snapshot, ConfigurationTypeOK
    <2>6. ValidatedInv'
      BY <2>2, <2>3 DEF ValidatedInv, Valid
    <2> QED BY <1>2, <2>1, <2>5, <2>6 DEF Snapshot, ConfigurationTypeOK
  <1>3. ASSUME NEW a \in Admins, ValidateApply(a) PROVE ChainInv'
    <2>1. RevisionsChained'
      BY <1>0, <1>3 DEF ValidateApply
    <2>2. PICK o \in Overrides :
            /\ Valid(o, facts)
            /\ admin' = [admin EXCEPT ![a].pc = "applying", ![a].want = o, ![a].facts = facts]
      BY <1>3 DEF ValidateApply
    <2>3. /\ admin'[a] = [pc |-> "applying", seen |-> admin[a].seen, want |-> o, facts |-> facts]
          /\ \A b \in Admins : b # a => admin'[b] = admin[b]
      BY <2>2 DEF ConfigurationTypeOK, AdminRow
    <2>4. ConfigurationTypeOK'
      BY <1>3, <2>2, <2>3 DEF ValidateApply, ConfigurationTypeOK, AdminRow
    <2>5. ValidatedInv'
      BY <2>2, <2>3 DEF ValidatedInv, ConfigurationTypeOK, Valid
    <2> QED BY <2>1, <2>4, <2>5
  <1>4. ASSUME NEW a \in Admins, Apply(a) PROVE ChainInv'
    <2>1. admin' \in [Admins -> AdminRow] /\ ValidatedInv' /\ facts' = facts
      BY <1>1, <1>4 DEF Apply
    <2>2. CASE conf.revision # admin[a].seen \/ admin[a].want = CurrentOverrides
      BY <1>0, <1>4, <2>1, <2>2 DEF Apply, ConfigurationTypeOK
    <2>3. CASE ~(conf.revision # admin[a].seen \/ admin[a].want = CurrentOverrides)
      BY <1>4, <2>1, <2>3, PersistChain DEF Apply, ConfigurationTypeOK
    <2> QED BY <2>2, <2>3
  <1>5. ASSUME NEW a \in Admins, GiveUp(a) PROVE ChainInv'
    BY <1>0, <1>1, <1>5 DEF GiveUp, ConfigurationTypeOK
  <1>6. CASE HostChanges
    <2>1. RevisionsChained'
      BY <1>0, <1>6 DEF HostChanges
    <2>2. ConfigurationTypeOK' /\ ValidatedInv'
      BY <1>6 DEF HostChanges, HostFacts, ConfigurationTypeOK, ValidatedInv, Valid
    <2> QED BY <2>1, <2>2
  <1>7. CASE UNCHANGED fvars
    BY <1>0, <1>7 DEF fvars, ConfigurationTypeOK, ValidatedInv, Valid
  <1> QED BY <1>2, <1>3, <1>4, <1>5, <1>6, <1>7 DEF ConfigurationNext

\* However administrators and the host interleave, the revisions form one chain: numbered
\* without a gap up to the current one, each replacing the very revision its author had read,
\* each valid on the host its fingerprint names (configuration.py).
THEOREM NoLostUpdate == ConfigurationSpec => []RevisionsChained
  <1>1. ConfigurationInit => ChainInv
    BY InitChain
  <1>2. ChainInv /\ [ConfigurationNext]_fvars => ChainInv'
    BY StepChain
  <1>3. ChainInv => RevisionsChained
    BY DEF ChainInv
  <1> QED BY <1>1, <1>2, <1>3, PTL DEF ConfigurationSpec

-----------------------------------------------------------------------------
(* The live channel. *)

(* Where an attempt can be, and what the history can hold.                  *)
LivePcs ==
    {"idle", "claimed", "execute", "prepare", "stage", "provider", "decided", "announce",
     "failing", "announce.failed", "ended"}

HistKinds == {"started", "reasoning.started", "completed", "failed", "requeued"}

StreamRow == [on : BOOLEAN, summary : BOOLEAN, seen : Nat, due : Nat, sent : Nat]

WorkRow == [pc : LivePcs, base : Nat, staged : Seq(HistKinds), s : StreamRow]

CursorShape(c) ==
    /\ c = [pc |-> c.pc, last |-> c.last, answers |-> c.answers, state |-> c.state,
            item |-> c.item]
    /\ c.pc \in {"closed", "waits", "holds"} /\ c.last \in Nat

CursorsShape(cs) ==
    cs = [v \in Writers |-> cs[v]] /\ \A v \in Writers : CursorShape(cs[v])

TurnStates == {"queued", "running", "completed", "failed"}

Owners == Workers \cup {None}

TurnRow(load) ==
    [state : TurnStates, owner : Owners, ver : Nat, claims : Nat, max : {load.attempts},
     summaries : {load.summaries}, answer : Owners]

TurnShape(t) ==
    /\ t.state \in TurnStates /\ t.ver \in Nat
    /\ \E load \in Workloads : t \in TurnRow(load)

(* What is in every variable the workers and the store write.               *)
LiveTypeOK ==
    /\ TurnShape(turn)
    /\ hist \in Seq(HistKinds)
    /\ CursorsShape(cursor)
    /\ work \in [Workers -> WorkRow]

(* The answer rows of one attempt.                                          *)
Mine(w, rs) == {r \in AnswerRows(rs) : r.piece[1] = w}

(* The rows are numbered without a gap, within the limit.                   *)
Numbered(rs) ==
    /\ IsFiniteSet(rs)
    /\ {r.seq : r \in rs} = 1..Cardinality(rs) /\ Cardinality(rs) <= MaxLive

(* The rows of an attempt are the first pieces of its answer, in order.     *)
Text(w, rs) ==
    /\ {r.piece[2] : r \in Mine(w, rs)} = 1..Cardinality(Mine(w, rs))
    /\ \A r, q \in Mine(w, rs) : r.seq < q.seq => r.piece[2] < q.piece[2]

(* An event a row may assert: it is in the history, and a turn that ended   *)
(* is in the state it names.                                                *)
Holds(kind, t, h) ==
    /\ \E i \in 1..Len(h) : h[i] = kind
    /\ kind # "started" => t.state = kind

RowsHold(rs, t, h) == \A r \in rs : r.kind \in AssertingKinds => Holds(r.kind, t, h)

(* A cursor never counts past the rows, and what it is about to write is    *)
(* already true.                                                            *)
CursorOK(c, rs, t, h) ==
    /\ c.last <= Cardinality(rs)
    /\ c.pc # "closed" /\ c.item.kind \in AssertingKinds => Holds(c.item.kind, t, h)

(* A delta that waits to be written is the next piece of a stream that is   *)
(* still on, and only a worker writes deltas.                               *)
DeltaOK(v, c, ks) ==
    c.pc # "closed" /\ c.item.channel = "answer" =>
      /\ v \in Workers /\ ks[v].pc = "provider" /\ ks[v].s.on
      /\ c.item = Item("answer", None, <<v, ks[v].s.sent + 1>>)

(* What an attempt has sent is what it has stored, nothing before it is     *)
(* with the provider; the transaction of a turn is about a running turn, or *)
(* the row has changed since; and who announces an end has committed it.    *)
WorkOK(w, k, rs, t) ==
    /\ k.pc \in {"idle", "claimed", "execute", "prepare", "stage"} => Mine(w, rs) = {}
    /\ k.pc = "provider" /\ k.s.on => k.s.sent = Cardinality(Mine(w, rs))
    /\ k.base <= t.ver
    /\ k.pc \in {"prepare", "stage", "provider", "decided"} /\ k.base = t.ver
         => t.state = "running"
    /\ k.pc = "announce" => t.state = "completed"
    /\ k.pc = "announce.failed" => t.state = "failed"

OwnerInv(t) == t.owner # None => t.state = "running"

LiveInv ==
    /\ LiveTypeOK
    /\ Numbered(rows)
    /\ \A w \in Workers : Text(w, rows)
    /\ RowsHold(rows, turn, hist)
    /\ OwnerInv(turn)
    /\ \A v \in Writers : CursorOK(cursor[v], rows, turn, hist)
    /\ \A v \in Writers : DeltaOK(v, cursor[v], work)
    /\ \A w \in Workers : WorkOK(w, work[w], rows, turn)

(***************************************************************************)
(* The rows                                                                 *)
(***************************************************************************)

(* The last sequence of the rows is their number.                           *)
LEMMA LastIsCount ==
    ASSUME NEW rs, Numbered(rs)
    PROVE  LastSequence(rs) = Cardinality(rs) /\ Cardinality(rs) \in Nat
<1>1. Cardinality(rs) \in Nat
    BY FS_CardinalityType DEF Numbered
<1>2. CASE rs = {}
    BY <1>1, <1>2, FS_EmptySet DEF LastSequence
<1>3. CASE rs # {}
    <2>1. Cardinality(rs) # 0
        BY <1>3, FS_EmptySet DEF Numbered
    <2> DEFINE n == Cardinality(rs)
    <2>2. {r.seq : r \in rs} = 1..n
        BY DEF Numbered
    <2>3. n \in 1..n /\ \A y \in 1..n : n >= y
        BY <1>1, <2>1
    <2>4. \A x \in 1..n : (\A y \in 1..n : x >= y) => x = n
        BY <1>1, <2>1
    <2> HIDE DEF n
    <2>5. Max(1..n) = n
        BY <2>3, <2>4 DEF Max
    <2>6. LastSequence(rs) = Max(1..n)
        BY <1>3, <2>2 DEF LastSequence
    <2> QED
        BY <1>1, <2>5, <2>6 DEF n
<1> QED
    BY <1>2, <1>3

(* A row with the next number keeps the numbering.                          *)
LEMMA AddNumbered ==
    ASSUME NEW rs, NEW r, Numbered(rs), r.seq = Cardinality(rs) + 1, r.seq <= MaxLive
    PROVE  Numbered(rs \cup {r}) /\ Cardinality(rs \cup {r}) = Cardinality(rs) + 1
<1> DEFINE n == Cardinality(rs)
<1>1. n \in Nat
    BY FS_CardinalityType DEF Numbered
<1>2. {q.seq : q \in rs} = 1..n
    BY DEF Numbered
<1>3. r.seq = n + 1
    OBVIOUS
<1> HIDE DEF n
<1>4. r.seq \notin 1..n
    BY <1>1, <1>3
<1>5. r \notin rs
    BY <1>2, <1>4
<1>6. IsFiniteSet(rs \cup {r}) /\ Cardinality(rs \cup {r}) = n + 1
    BY <1>5, FS_AddElement DEF Numbered, n
<1>7. {q.seq : q \in rs \cup {r}} = {q.seq : q \in rs} \cup {r.seq}
    OBVIOUS
<1>8. (1..n) \cup {n + 1} = 1..(n + 1)
    BY <1>1
<1> QED
    BY <1>2, <1>3, <1>6, <1>7, <1>8 DEF Numbered, n

(* A row that is not part of an answer leaves every text alone.             *)
LEMMA AddOther ==
    ASSUME NEW rs, NEW r, r.channel # "answer", NEW w
    PROVE  Mine(w, rs \cup {r}) = Mine(w, rs)
BY DEF Mine, AnswerRows

LEMMA AddOfAnother ==
    ASSUME NEW rs, NEW r, NEW w, r.piece[1] # w
    PROVE  Mine(w, rs \cup {r}) = Mine(w, rs)
BY DEF Mine, AnswerRows

(* The next piece of an answer, with a number past all others, keeps the    *)
(* text a prefix.                                                           *)
LEMMA AddPiece ==
    ASSUME NEW rs, NEW r, NEW w, Numbered(rs), Text(w, rs),
           r.channel = "answer", r.seq = Cardinality(rs) + 1,
           r.piece = <<w, Cardinality(Mine(w, rs)) + 1>>
    PROVE  /\ Text(w, rs \cup {r})
           /\ Cardinality(Mine(w, rs \cup {r})) = Cardinality(Mine(w, rs)) + 1
<1> DEFINE mine == Mine(w, rs)
           n == Cardinality(rs)
           k == Cardinality(mine)
<1>1. Mine(w, rs \cup {r}) = mine \cup {r}
    <2>1. r.piece[1] = w
        OBVIOUS
    <2> QED
        BY <2>1 DEF Mine, AnswerRows
<1>2. mine \subseteq rs
    BY DEF Mine, AnswerRows
<1>3. IsFiniteSet(mine) /\ k \in Nat /\ n \in Nat
    BY <1>2, FS_Subset, FS_CardinalityType DEF Numbered
<1>4. {q.seq : q \in rs} = 1..n
    BY DEF Numbered
<1>5. {q.piece[2] : q \in mine} = 1..k
    BY DEF Text
<1>6. \A a, b \in mine : a.seq < b.seq => a.piece[2] < b.piece[2]
    BY DEF Text
<1>7. r.seq = n + 1 /\ r.piece[2] = k + 1
    OBVIOUS
<1> HIDE DEF mine, n, k
<1>8. \A q \in mine : q.seq \in 1..n /\ q.piece[2] \in 1..k
    BY <1>2, <1>4, <1>5
<1>9. r \notin mine
    BY <1>3, <1>7, <1>8
<1>10. Cardinality(mine \cup {r}) = k + 1
    BY <1>3, <1>9, FS_AddElement DEF k
<1>11. {q.piece[2] : q \in mine \cup {r}} = {q.piece[2] : q \in mine} \cup {r.piece[2]}
    OBVIOUS
<1>12. (1..k) \cup {k + 1} = 1..(k + 1)
    BY <1>3
<1>13. {q.piece[2] : q \in mine \cup {r}} = 1..(k + 1)
    BY <1>5, <1>7, <1>11, <1>12
<1>14. ASSUME NEW a \in mine \cup {r}, NEW b \in mine \cup {r}, a.seq < b.seq
       PROVE  a.piece[2] < b.piece[2]
    <2>1. CASE a \in mine /\ b \in mine
        BY <1>6, <1>14, <2>1
    <2>2. CASE a \in mine /\ b = r
        BY <1>3, <1>7, <1>8, <2>2
    <2>3. CASE a = r
        BY <1>3, <1>7, <1>8, <1>14, <2>3
    <2> QED
        BY <2>1, <2>2, <2>3
<1> QED
    BY <1>1, <1>10, <1>13, <1>14 DEF Text, mine, k

(***************************************************************************)
(* Steps that write no row                                                  *)
(***************************************************************************)

(* The history only grows, a turn that ended stays as it ended, and its     *)
(* version tells whether it changed.                                        *)
Advances(t, u, h, g) ==
    /\ \A i \in 1..Len(h) : \E j \in 1..Len(g) : g[j] = h[i]
    /\ t.state \in {"completed", "failed"} => u.state = t.state
    /\ t.ver <= u.ver
    /\ u.ver = t.ver => u.state = t.state

LEMMA HoldsStays ==
    ASSUME NEW kind \in AssertingKinds, NEW t, NEW u, NEW h, NEW g, Holds(kind, t, h),
           Advances(t, u, h, g)
    PROVE  Holds(kind, u, g)
BY DEF AssertingKinds, Holds, Advances

LEMMA WorkStays ==
    ASSUME NEW w, NEW k \in WorkRow, NEW rs, NEW t, NEW u, NEW h, NEW g,
           TurnShape(t), TurnShape(u), WorkOK(w, k, rs, t), Advances(t, u, h, g)
    PROVE  WorkOK(w, k, rs, u)
<1>1. k.base \in Nat /\ t.ver \in Nat /\ u.ver \in Nat
    BY DEF WorkRow, TurnShape
<1>2. k.base <= u.ver
    BY <1>1 DEF WorkOK, Advances
<1>3. k.base = u.ver => k.base = t.ver /\ u.state = t.state
    BY <1>1 DEF WorkOK, Advances
<1> QED
    BY <1>2, <1>3 DEF WorkOK, Advances

(* A step of one writer that writes no row keeps the invariant when it      *)
(* advances the turn and leaves the writer itself in order.                 *)
LEMMA StepOfOne ==
    ASSUME LiveInv, LiveTypeOK', rows' = rows, NEW w \in Writers,
           Advances(turn, turn', hist, hist'), OwnerInv(turn'),
           \A v \in Writers \ {w} : cursor'[v] = cursor[v],
           \A v \in Workers \ {w} : work'[v] = work[v],
           CursorOK(cursor'[w], rows, turn', hist'), DeltaOK(w, cursor'[w], work'),
           w \in Workers => WorkOK(w, work'[w], rows, turn')
    PROVE  LiveInv'
<1>1. Numbered(rows') /\ \A v \in Workers : Text(v, rows')
    BY DEF LiveInv
<1>2. RowsHold(rows', turn', hist')
    BY HoldsStays DEF LiveInv, RowsHold
<1>3. ASSUME NEW v \in Writers
      PROVE  CursorOK(cursor'[v], rows', turn', hist')
    <2>1. CASE v = w
        BY <2>1
    <2>2. CASE v # w
        <3>1. cursor'[v] = cursor[v] /\ CursorOK(cursor[v], rows, turn, hist)
            BY <2>2 DEF LiveInv
        <3> QED
            BY <3>1, HoldsStays DEF CursorOK
    <2> QED
        BY <2>1, <2>2
<1>4. ASSUME NEW v \in Writers
      PROVE  DeltaOK(v, cursor'[v], work')
    <2>1. CASE v = w
        BY <2>1
    <2>2. CASE v # w
        <3>1. cursor'[v] = cursor[v] /\ DeltaOK(v, cursor[v], work)
            BY <2>2 DEF LiveInv
        <3>2. v \in Workers => work'[v] = work[v]
            BY <2>2
        <3> QED
            BY <3>1, <3>2 DEF DeltaOK
    <2> QED
        BY <2>1, <2>2
<1>5. ASSUME NEW v \in Workers
      PROVE  WorkOK(v, work'[v], rows', turn')
    <2>1. CASE v = w
        BY <2>1
    <2>2. CASE v # w
        <3>1. work'[v] = work[v] /\ WorkOK(v, work[v], rows, turn)
            BY <2>2 DEF LiveInv
        <3>2. work[v] \in WorkRow /\ TurnShape(turn) /\ TurnShape(turn')
            BY DEF LiveInv, LiveTypeOK
        <3> QED
            BY <3>1, <3>2, WorkStays
    <2> QED
        BY <2>1, <2>2
<1> QED
    BY <1>1, <1>2, <1>3, <1>4, <1>5 DEF LiveInv

LEMMA NothingAdvances ==
    ASSUME NEW t, NEW h, t.ver \in Nat
    PROVE  Advances(t, t, h, h)
BY DEF Advances

(* What an append adds at the end leaves the history in it.                 *)
LEMMA HistoryGrows ==
    ASSUME NEW h \in Seq(HistKinds), NEW g \in Seq(HistKinds)
    PROVE  /\ h \o g \in Seq(HistKinds)
           /\ \A i \in 1..Len(h) : \E j \in 1..Len(h \o g) : (h \o g)[j] = h[i]
<1>1. h \o g \in Seq(HistKinds) /\ Len(h \o g) = Len(h) + Len(g) /\ Len(h) \in Nat /\ Len(g) \in Nat
    OBVIOUS
<1>2. \A i \in 1..Len(h) : (h \o g)[i] = h[i]
    OBVIOUS
<1>3. \A i \in 1..Len(h) : i \in 1..Len(h \o g)
    BY <1>1
<1> QED
    BY <1>1, <1>2, <1>3

LEMMA HistoryAppends ==
    ASSUME NEW h \in Seq(HistKinds), NEW k \in HistKinds
    PROVE  /\ Append(h, k) \in Seq(HistKinds)
           /\ \A i \in 1..Len(h) : \E j \in 1..Len(Append(h, k)) : Append(h, k)[j] = h[i]
           /\ \E j \in 1..Len(Append(h, k)) : Append(h, k)[j] = k
<1>1. Append(h, k) \in Seq(HistKinds) /\ Len(Append(h, k)) = Len(h) + 1 /\ Len(h) \in Nat
    OBVIOUS
<1>2. \A i \in 1..Len(h) : Append(h, k)[i] = h[i] /\ i \in 1..(Len(h) + 1)
    OBVIOUS
<1>3. Append(h, k)[Len(h) + 1] = k /\ Len(h) + 1 \in 1..(Len(h) + 1)
    BY <1>1
<1> QED
    BY <1>1, <1>2, <1>3

PutCursor(w, c) == [cursor EXCEPT ![w] = c]

LEMMA SetCursor ==
    ASSUME LiveTypeOK, NEW w \in Writers, NEW c, CursorShape(c)
    PROVE  /\ CursorsShape(PutCursor(w, c))
           /\ PutCursor(w, c)[w] = c
           /\ \A v \in Writers \ {w} : PutCursor(w, c)[v] = cursor[v]
<1>1. DOMAIN cursor = Writers /\ \A v \in Writers : CursorShape(cursor[v])
    BY DEF LiveTypeOK, CursorsShape
<1>2. PICK cs : cs = PutCursor(w, c)
    OBVIOUS
<1>3. cs = [cursor EXCEPT ![w] = c]
    BY <1>2 DEF PutCursor
<1>4. DOMAIN cs = Writers /\ cs = [v \in Writers |-> cs[v]]
    BY <1>1, <1>3
<1>5. cs[w] = c /\ \A v \in Writers \ {w} : cs[v] = cursor[v]
    BY <1>1, <1>3
<1>6. \A v \in Writers : CursorShape(cs[v])
    BY <1>1, <1>5
<1> QED
    BY <1>2, <1>4, <1>5, <1>6 DEF CursorsShape

(* A worker that keeps its cursor, the turn and the rows.                   *)
LEMMA LocalStep ==
    ASSUME LiveInv, NEW w \in Workers, NEW k \in WorkRow, work' = [work EXCEPT ![w] = k],
           UNCHANGED <<turn, hist, rows, cursor>>, WorkOK(w, k, rows, turn),
           cursor[w].pc = "closed" \/ work[w].pc # "provider"
    PROVE  LiveInv'
<1>1. LiveTypeOK /\ w \in Writers
    BY DEF LiveInv, Writers
<1>2. /\ work' \in [Workers -> WorkRow] /\ work'[w] = k
      /\ \A v \in Workers \ {w} : work'[v] = work[v]
    <2>1. work \in [Workers -> WorkRow]
        BY <1>1 DEF LiveTypeOK
    <2> QED
        BY <2>1
<1>3. LiveTypeOK'
    BY <1>1, <1>2 DEF LiveTypeOK
<1>4. Advances(turn, turn', hist, hist')
    BY <1>1, NothingAdvances DEF LiveTypeOK, TurnShape
<1>5. CursorOK(cursor'[w], rows, turn', hist') /\ OwnerInv(turn')
    BY <1>1 DEF LiveInv
<1>6. DeltaOK(w, cursor'[w], work')
    BY <1>1 DEF LiveInv, DeltaOK
<1> QED
    BY <1>1, <1>2, <1>3, <1>4, <1>5, <1>6, StepOfOne

LEMMA OpenedCursor ==
    ASSUME LiveInv, NEW item
    PROVE  /\ CursorShape(Opened(item)) /\ Opened(item).pc = "waits" /\ Opened(item).item = item
           /\ Opened(item).last <= Cardinality(rows)
<1>1. LastSequence(rows) = Cardinality(rows) /\ Cardinality(rows) \in Nat
    BY LastIsCount DEF LiveInv
<1> QED
    BY <1>1 DEF Opened, CursorShape

LEMMA ClosedCursor ==
    ASSUME LiveInv, NEW ks, NEW v, NEW t, NEW h
    PROVE  /\ CursorShape(NoCursor) /\ CursorOK(NoCursor, rows, t, h) /\ DeltaOK(v, NoCursor, ks)
<1>1. Cardinality(rows) \in Nat
    BY LastIsCount DEF LiveInv
<1> QED
    BY <1>1 DEF NoCursor, CursorShape, CursorOK, DeltaOK

(* A writer that opens or moves its cursor and keeps the turn and the rows. *)
LEMMA CursorStep ==
    ASSUME LiveInv, NEW w \in Writers, NEW c, CursorShape(c), cursor' = [cursor EXCEPT ![w] = c],
           UNCHANGED <<turn, hist, rows, work>>, CursorOK(c, rows, turn, hist), DeltaOK(w, c, work)
    PROVE  LiveInv'
<1>1. LiveTypeOK
    BY DEF LiveInv
<1>2. /\ CursorsShape(cursor')
      /\ cursor'[w] = c /\ \A v \in Writers \ {w} : cursor'[v] = cursor[v]
    <2>1. cursor' = PutCursor(w, c)
        BY DEF PutCursor
    <2>2. /\ CursorsShape(PutCursor(w, c))
          /\ PutCursor(w, c)[w] = c
          /\ \A v \in Writers \ {w} : PutCursor(w, c)[v] = cursor[v]
        BY <1>1, SetCursor
    <2> QED
        BY <2>1, <2>2
<1>3. LiveTypeOK'
    BY <1>1, <1>2 DEF LiveTypeOK
<1>4. Advances(turn, turn', hist, hist') /\ OwnerInv(turn')
    BY <1>1, NothingAdvances DEF LiveInv, LiveTypeOK, TurnShape
<1>5. w \in Workers => WorkOK(w, work'[w], rows, turn')
    BY DEF LiveInv
<1>6. CursorOK(cursor'[w], rows, turn', hist') /\ DeltaOK(w, cursor'[w], work')
    BY <1>2
<1>7. \A v \in Workers \ {w} : work'[v] = work[v]
    OBVIOUS
<1> QED
    BY <1>2, <1>3, <1>4, <1>5, <1>6, <1>7, StepOfOne

(***************************************************************************)
(* The store and the stream                                                 *)
(***************************************************************************)

LEMMA LiveLockInv ==
    ASSUME LiveInv, NEW w \in Writers, LiveLock(w)
    PROVE  LiveInv'
<1> DEFINE d == cursor[w]
           c == [d EXCEPT !.pc = "holds"]
<1>1. CursorShape(d) /\ CursorOK(d, rows, turn, hist) /\ DeltaOK(w, d, work) /\ DOMAIN cursor = Writers
    BY DEF LiveInv, LiveTypeOK, CursorsShape
<1>2. d.pc = "waits" /\ cursor' = [cursor EXCEPT ![w] = c] /\ UNCHANGED <<turn, hist, rows, work>>
    BY DEF LiveLock
<1>3. c.pc = "holds" /\ c.last = d.last /\ c.item = d.item /\ CursorShape(c)
    BY <1>1 DEF CursorShape
<1>4. CursorOK(c, rows, turn, hist) /\ DeltaOK(w, c, work)
    BY <1>1, <1>2, <1>3 DEF CursorOK, DeltaOK
<1> QED
    BY <1>2, <1>3, <1>4, CursorStep

LEMMA EmitDeltaInv ==
    ASSUME LiveInv, NEW w \in Workers, EmitDelta(w)
    PROVE  LiveInv'
<1> DEFINE item == Item("answer", None, <<w, work[w].s.sent + 1>>)
           c == Opened(item)
<1>1. /\ work[w].pc = "provider" /\ work[w].s.on /\ cursor' = [cursor EXCEPT ![w] = c]
      /\ UNCHANGED <<turn, hist, rows, work>>
    BY DEF EmitDelta
<1>2. CursorShape(c) /\ c.pc = "waits" /\ c.item = item /\ c.last <= Cardinality(rows)
    BY OpenedCursor
<1>3. item.kind = None /\ item.channel = "answer"
    BY DEF Item
<1> HIDE DEF item, c
<1>4. CursorOK(c, rows, turn, hist)
    BY <1>2, <1>3 DEF CursorOK, AssertingKinds, None
<1>5. DeltaOK(w, c, work)
    BY <1>1, <1>2 DEF DeltaOK, item
<1> QED
    BY <1>1, <1>2, <1>4, <1>5, CursorStep DEF Writers

LEMMA EmitSummaryInv ==
    ASSUME LiveInv, NEW w \in Workers, EmitSummary(w)
    PROVE  LiveInv'
<1> DEFINE item == Item("reasoning", None, <<w, 0>>)
           c == Opened(item)
<1>1. cursor' = [cursor EXCEPT ![w] = c] /\ UNCHANGED <<turn, hist, rows, work>>
    BY DEF EmitSummary
<1>2. CursorShape(c) /\ c.pc = "waits" /\ c.item = item /\ c.last <= Cardinality(rows)
    BY OpenedCursor
<1>3. item.kind = None /\ item.channel = "reasoning"
    BY DEF Item
<1> HIDE DEF item, c
<1>4. CursorOK(c, rows, turn, hist) /\ DeltaOK(w, c, work)
    BY <1>2, <1>3 DEF CursorOK, DeltaOK, AssertingKinds, None
<1> QED
    BY <1>1, <1>2, <1>4, CursorStep DEF Writers

LEMMA DeltaInv ==
    ASSUME LiveInv, NEW w \in Workers, Delta(w)
    PROVE  LiveInv'
<1> DEFINE s == work[w].s
<1>1. work[w] \in WorkRow /\ WorkOK(w, work[w], rows, turn) /\ s \in StreamRow
    BY DEF LiveInv, LiveTypeOK, WorkRow
<1>2. InProvider(w) /\ UNCHANGED <<turn, hist, rows, cursor>>
    BY DEF Delta
<1>3. PICK next \in IF s.on THEN Fed(s) ELSE {[s EXCEPT !.seen = @ + 1]} :
        work' = [work EXCEPT ![w].s = next]
    BY DEF Delta
<1> HIDE DEF s
<1>4. next \in StreamRow /\ next.sent = s.sent /\ (next.on => s.on)
    <2>1. CASE s.on /\ s.seen = Pieces
        BY <1>1, <1>3, <2>1 DEF Fed, StreamRow
    <2>2. CASE s.on /\ s.seen # Pieces
        <3>1. s.seen + 1 \in Nat /\ Pieces \in Nat /\ s.due \in Nat
            BY <1>1, StreamAssumption DEF StreamRow
        <3>2. CASE next = [s EXCEPT !.on = FALSE, !.seen = @ + 1]
            BY <1>1, <3>1, <3>2 DEF StreamRow
        <3>3. CASE \E due \in {Pieces, s.due, s.seen + 1} :
                     next = [s EXCEPT !.seen = @ + 1, !.due = due]
            BY <1>1, <2>2, <3>1, <3>3 DEF StreamRow
        <3> QED
            BY <1>3, <2>2, <3>2, <3>3 DEF Fed
    <2>3. CASE ~s.on
        BY <1>1, <1>3, <2>3 DEF StreamRow
    <2> QED
        BY <2>1, <2>2, <2>3
<1> DEFINE k == [work[w] EXCEPT !.s = next]
<1>5. k \in WorkRow /\ k.pc = work[w].pc /\ k.base = work[w].base /\ k.s = next
    BY <1>1, <1>4 DEF WorkRow
<1>6. work' = [work EXCEPT ![w] = k]
    BY <1>3
<1> HIDE DEF k
<1>7. WorkOK(w, k, rows, turn)
    BY <1>1, <1>4, <1>5 DEF WorkOK, s
<1> QED
    BY <1>2, <1>5, <1>6, <1>7, LocalStep DEF InProvider, Idle

(* A step of one writer that may change the turn, the history, its cursor   *)
(* and its own work.                                                        *)
LEMMA WriterStep ==
    ASSUME LiveInv, NEW w \in Writers, rows' = rows, TurnShape(turn'), hist' \in Seq(HistKinds),
           Advances(turn, turn', hist, hist'), OwnerInv(turn'),
           NEW c, CursorShape(c), cursor' = PutCursor(w, c),
           work' \in [Workers -> WorkRow], \A v \in Workers \ {w} : work'[v] = work[v],
           CursorOK(c, rows, turn', hist'), DeltaOK(w, c, work'),
           w \in Workers => WorkOK(w, work'[w], rows, turn')
    PROVE  LiveInv'
<1>1. LiveTypeOK
    BY DEF LiveInv
<1>2. /\ CursorsShape(PutCursor(w, c))
      /\ PutCursor(w, c)[w] = c
      /\ \A v \in Writers \ {w} : PutCursor(w, c)[v] = cursor[v]
    BY <1>1, SetCursor
<1>3. CursorsShape(cursor') /\ cursor'[w] = c /\ \A v \in Writers \ {w} : cursor'[v] = cursor[v]
    BY <1>2
<1>4. LiveTypeOK'
    BY <1>3 DEF LiveTypeOK
<1>5. CursorOK(cursor'[w], rows, turn', hist') /\ DeltaOK(w, cursor'[w], work')
    BY <1>3
<1> QED
    BY <1>3, <1>4, <1>5, StepOfOne

LEMMA SameCursor ==
    ASSUME LiveInv, NEW w \in Writers
    PROVE  cursor = PutCursor(w, cursor[w]) /\ CursorShape(cursor[w])
<1>1. cursor = [v \in Writers |-> cursor[v]] /\ CursorShape(cursor[w])
    BY DEF LiveInv, LiveTypeOK, CursorsShape
<1> QED
    BY <1>1 DEF PutCursor

(* A worker outside the provider that may change the turn and the history,  *)
(* and keeps its cursor.                                                    *)
LEMMA TurnStep ==
    ASSUME LiveInv, NEW w \in Workers, UNCHANGED <<rows, cursor>>, TurnShape(turn'),
           hist' \in Seq(HistKinds), Advances(turn, turn', hist, hist'), OwnerInv(turn'),
           NEW k \in WorkRow, work' = [work EXCEPT ![w] = k], WorkOK(w, k, rows, turn'),
           work[w].pc # "provider"
    PROVE  LiveInv'
<1>1. LiveTypeOK /\ w \in Writers /\ TurnShape(turn)
    BY DEF LiveInv, LiveTypeOK, Writers
<1>2. /\ work' \in [Workers -> WorkRow] /\ work'[w] = k
      /\ \A v \in Workers \ {w} : work'[v] = work[v]
    BY <1>1 DEF LiveTypeOK
<1>3. LiveTypeOK'
    BY <1>1, <1>2 DEF LiveTypeOK
<1>4. CursorOK(cursor[w], rows, turn, hist) /\ DeltaOK(w, cursor[w], work)
    BY <1>1 DEF LiveInv
<1>5. CursorOK(cursor'[w], rows, turn', hist')
    BY <1>4, HoldsStays DEF CursorOK
<1>6. DeltaOK(w, cursor'[w], work')
    BY <1>4 DEF DeltaOK
<1> QED
    BY <1>1, <1>2, <1>3, <1>5, <1>6, StepOfOne

LEMMA ShowReasoningInv ==
    ASSUME LiveInv, NEW w \in Workers, ShowReasoning(w)
    PROVE  LiveInv'
<1> DEFINE item == Item("activity", "reasoning.started", None)
           c == Opened(item)
           k == [work[w] EXCEPT !.pc = "stage"]
<1>1. /\ work[w].pc = "prepare" /\ cursor' = [cursor EXCEPT ![w] = c]
      /\ UNCHANGED <<turn, hist, rows>> /\ work' = [work EXCEPT ![w].pc = "stage"]
    BY DEF ShowReasoning
<1>2. CursorShape(c) /\ c.pc = "waits" /\ c.item = item /\ c.last <= Cardinality(rows)
    BY OpenedCursor
<1>3. item.kind = "reasoning.started" /\ item.channel = "activity"
    BY DEF Item
<1>4. cursor' = PutCursor(w, c)
    BY <1>1 DEF PutCursor
<1> HIDE DEF item, c
<1>5. CursorOK(c, rows, turn, hist) /\ DeltaOK(w, c, work')
    BY <1>2, <1>3 DEF CursorOK, DeltaOK, AssertingKinds
<1>6. LiveTypeOK /\ TurnShape(turn) /\ work[w] \in WorkRow /\ WorkOK(w, work[w], rows, turn)
    BY DEF LiveInv, LiveTypeOK
<1>7. k \in WorkRow /\ k.pc = "stage" /\ k.base = work[w].base
    BY <1>6 DEF WorkRow, LivePcs
<1>8. work' = [work EXCEPT ![w] = k]
    BY <1>1
<1> HIDE DEF k
<1>9. work' \in [Workers -> WorkRow] /\ work'[w] = k /\ \A v \in Workers \ {w} : work'[v] = work[v]
    BY <1>6, <1>7, <1>8 DEF LiveTypeOK
<1>10. WorkOK(w, k, rows, turn)
    BY <1>1, <1>6, <1>7 DEF WorkOK
<1>11. Advances(turn, turn, hist, hist) /\ OwnerInv(turn) /\ hist \in Seq(HistKinds)
    BY <1>6, NothingAdvances DEF LiveInv, LiveTypeOK, TurnShape
<1> QED
    BY <1>1, <1>2, <1>4, <1>5, <1>6, <1>9, <1>10, <1>11, WriterStep DEF Writers

LEMMA ExecuteInv ==
    ASSUME LiveInv, NEW w \in Workers, Execute(w)
    PROVE  LiveInv'
<1>1. /\ work[w].pc = "execute" /\ cursor[w].pc = "closed" /\ UNCHANGED <<turn, hist, rows, cursor>>
    BY DEF Execute, Idle
<1>2. work[w] \in WorkRow /\ WorkOK(w, work[w], rows, turn) /\ turn.ver \in Nat
    BY DEF LiveInv, LiveTypeOK, TurnShape
<1>3. CASE turn.state = "running" /\ turn.owner = w
    <2> DEFINE k == [work[w] EXCEPT !.pc = "prepare", !.base = turn.ver]
    <2>1. work' = [work EXCEPT ![w] = k]
        BY <1>3 DEF Execute
    <2>2. k \in WorkRow /\ k.pc = "prepare" /\ k.base = turn.ver
        BY <1>2 DEF WorkRow, LivePcs
    <2> HIDE DEF k
    <2>3. WorkOK(w, k, rows, turn)
        BY <1>1, <1>2, <1>3, <2>2 DEF WorkOK
    <2> QED
        BY <1>1, <2>1, <2>2, <2>3, LocalStep
<1>4. CASE ~(turn.state = "running" /\ turn.owner = w)
    <2> DEFINE k == [work[w] EXCEPT !.pc = "ended"]
    <2>1. work' = [work EXCEPT ![w] = k]
        BY <1>4 DEF Execute
    <2>2. k \in WorkRow /\ k.pc = "ended" /\ k.base = work[w].base
        BY <1>2 DEF WorkRow, LivePcs
    <2> HIDE DEF k
    <2>3. WorkOK(w, k, rows, turn)
        BY <1>1, <1>2, <2>2 DEF WorkOK
    <2> QED
        BY <1>1, <2>1, <2>2, <2>3, LocalStep
<1> QED
    BY <1>3, <1>4

LEMMA StageReasoningInv ==
    ASSUME LiveInv, NEW w \in Workers, StageReasoning(w)
    PROVE  LiveInv'
<1>1. /\ work[w].pc = "stage" /\ cursor[w].pc = "closed" /\ UNCHANGED <<turn, hist, rows, cursor>>
      /\ StageEvent(w, "reasoning.started")
    BY DEF StageReasoning, Idle
<1>2. /\ work[w] \in WorkRow /\ WorkOK(w, work[w], rows, turn)
      /\ work[w].staged \in Seq(HistKinds)
    BY DEF LiveInv, LiveTypeOK, WorkRow
<1>3. StreamOn \in StreamRow /\ StreamOn.sent = 0
    BY DEF StreamOn, StreamOff, StreamRow
<1>4. Mine(w, rows) = {} /\ Cardinality(Mine(w, rows)) = 0
    BY <1>1, <1>2, FS_EmptySet DEF WorkOK
<1>5. ASSUME NEW g \in Seq(HistKinds),
             work' = [work EXCEPT ![w] = [work[w] EXCEPT !.staged = g, !.pc = "provider",
                                                         !.s = StreamOn]]
      PROVE  LiveInv'
    <2> DEFINE k == [work[w] EXCEPT !.staged = g, !.pc = "provider", !.s = StreamOn]
    <2>1. k \in WorkRow /\ k.pc = "provider" /\ k.base = work[w].base /\ k.s = StreamOn
        BY <1>2, <1>3 DEF WorkRow, LivePcs
    <2>2. work' = [work EXCEPT ![w] = k]
        BY <1>5
    <2> HIDE DEF k
    <2>3. WorkOK(w, k, rows, turn)
        BY <1>1, <1>2, <1>3, <1>4, <2>1 DEF WorkOK
    <2> QED
        BY <1>1, <2>1, <2>2, <2>3, LocalStep
<1>6. CASE turn.ver = work[w].base
    <2>1. "reasoning.started" \in HistKinds
        BY DEF HistKinds
    <2>2. Append(work[w].staged, "reasoning.started") \in Seq(HistKinds)
        BY <1>2, <2>1
    <2>3. work' = [work EXCEPT ![w] = [work[w] EXCEPT
                     !.staged = Append(work[w].staged, "reasoning.started"), !.pc = "provider",
                     !.s = StreamOn]]
        BY <1>1, <1>6 DEF StageEvent
    <2> QED
        BY <1>5, <2>2, <2>3
<1>7. CASE turn.ver # work[w].base
    <2>1. work' = [work EXCEPT ![w] = [work[w] EXCEPT !.pc = "provider", !.s = StreamOn]]
        BY <1>1, <1>7 DEF StageEvent
    <2>2. [work[w] EXCEPT !.pc = "provider", !.s = StreamOn] =
            [work[w] EXCEPT !.staged = work[w].staged, !.pc = "provider", !.s = StreamOn]
        BY <1>2 DEF WorkRow
    <2> QED
        BY <1>2, <1>5, <2>1, <2>2
<1> QED
    BY <1>6, <1>7

(* The provider is done with: whatever is left is in order.                 *)
LEMMA LeaveProvider ==
    ASSUME LiveInv, NEW w \in Workers, InProvider(w), NEW g \in Seq(HistKinds),
           NEW pc \in {"decided", "failing"}, UNCHANGED <<turn, hist, rows, cursor>>,
           work' = [work EXCEPT ![w] = [work[w] EXCEPT !.pc = pc, !.staged = g, !.s = StreamOff]]
    PROVE  LiveInv'
<1> DEFINE k == [work[w] EXCEPT !.pc = pc, !.staged = g, !.s = StreamOff]
<1>1. work[w].pc = "provider" /\ cursor[w].pc = "closed"
    BY DEF InProvider, Idle
<1>2. work[w] \in WorkRow /\ WorkOK(w, work[w], rows, turn)
    BY DEF LiveInv, LiveTypeOK
<1>3. StreamOff \in StreamRow
    BY DEF StreamOff, StreamRow
<1>4. k \in WorkRow /\ k.pc = pc /\ k.base = work[w].base
    BY <1>2, <1>3 DEF WorkRow, LivePcs
<1> HIDE DEF k
<1>5. WorkOK(w, k, rows, turn)
    BY <1>1, <1>2, <1>4 DEF WorkOK
<1> QED
    BY <1>1, <1>4, <1>5, LocalStep DEF k

LEMMA TurnCompletedInv ==
    ASSUME LiveInv, NEW w \in Workers, TurnCompleted(w)
    PROVE  LiveInv'
<1>1. work[w] \in WorkRow /\ work[w].staged \in Seq(HistKinds)
    BY DEF LiveInv, LiveTypeOK, WorkRow
<1>2. InProvider(w) /\ UNCHANGED <<turn, hist, rows, cursor>>
    BY DEF TurnCompleted
<1>3. work' = [work EXCEPT ![w] = [work[w] EXCEPT !.pc = "decided", !.s = StreamOff]]
    BY DEF TurnCompleted
<1>4. [work[w] EXCEPT !.pc = "decided", !.s = StreamOff] =
        [work[w] EXCEPT !.pc = "decided", !.staged = work[w].staged, !.s = StreamOff]
    BY <1>1 DEF WorkRow
<1> QED
    BY <1>1, <1>2, <1>3, <1>4, LeaveProvider

LEMMA ProviderFailsInv ==
    ASSUME LiveInv, NEW w \in Workers, ProviderFails(w)
    PROVE  LiveInv'
<1>1. InProvider(w) /\ UNCHANGED <<turn, hist, rows, cursor>>
    BY DEF ProviderFails
<1>2. work' = [work EXCEPT ![w] = [work[w] EXCEPT !.pc = "failing", !.staged = <<>>,
                                                  !.s = StreamOff]]
    BY DEF ProviderFails
<1>3. <<>> \in Seq(HistKinds)
    OBVIOUS
<1> QED
    BY <1>1, <1>2, <1>3, LeaveProvider

(***************************************************************************)
(* The turn                                                                 *)
(***************************************************************************)

(* The row of the turn in a new state, with the next version.               *)
LEMMA TurnMoves ==
    ASSUME NEW t, TurnShape(t), NEW u, TurnShape(u), NEW h,
           u.ver = t.ver + 1, t.state \in {"queued", "running"} \/ u.state = t.state
    PROVE  Advances(t, u, h, h)
BY DEF TurnShape, Advances

LEMMA ClaimInv ==
    ASSUME LiveInv, NEW w \in Workers, Claim(w)
    PROVE  LiveInv'
<1> DEFINE k == [work[w] EXCEPT !.pc = "claimed"]
           t == [turn EXCEPT !.state = "running", !.owner = w, !.ver = @ + 1, !.claims = @ + 1]
<1>1. /\ turn.state = "queued" /\ work[w].pc = "idle" /\ turn' = t
      /\ work' = [work EXCEPT ![w] = k] /\ UNCHANGED <<hist, rows, cursor>>
    BY DEF Claim
<1>2. /\ TurnShape(turn) /\ work[w] \in WorkRow /\ WorkOK(w, work[w], rows, turn)
      /\ hist \in Seq(HistKinds)
    BY DEF LiveInv, LiveTypeOK
<1>3. t.state = "running" /\ t.ver = turn.ver + 1 /\ TurnShape(t)
    <2>1. PICK load \in Workloads : turn \in TurnRow(load)
        BY <1>2 DEF TurnShape
    <2>2. turn.ver + 1 \in Nat /\ turn.claims + 1 \in Nat
        BY <2>1 DEF TurnRow
    <2>3. w \in Owners /\ None \in Owners
        BY DEF Owners
    <2>4. "running" \in TurnStates /\ "completed" \in TurnStates /\ {"queued", "failed"} \subseteq TurnStates
        BY DEF TurnStates
    <2>5. t \in TurnRow(load)
        BY <1>2, <2>1, <2>2, <2>3, <2>4 DEF TurnRow
    <2> QED
        BY <1>2, <2>1, <2>5 DEF TurnRow, TurnShape
<1>4. k \in WorkRow /\ k.pc = "claimed" /\ k.base = work[w].base /\ k.base \in Nat
    BY <1>2 DEF WorkRow, LivePcs
<1> HIDE DEF t, k
<1>5. Advances(turn, t, hist, hist)
    BY <1>1, <1>2, <1>3, TurnMoves
<1>6. OwnerInv(t)
    BY <1>3 DEF OwnerInv
<1>7. WorkOK(w, k, rows, t)
    BY <1>1, <1>2, <1>3, <1>4 DEF WorkOK, TurnShape
<1>8. TurnShape(turn') /\ hist' \in Seq(HistKinds) /\ Advances(turn, turn', hist, hist')
    BY <1>1, <1>2, <1>3, <1>5
<1>9. OwnerInv(turn') /\ WorkOK(w, k, rows, turn')
    BY <1>1, <1>6, <1>7
<1> QED
    BY <1>1, <1>4, <1>8, <1>9, TurnStep

(* An event of its own that says what holds, by a worker that is not with   *)
(* the provider and goes on to pc.                                          *)
LEMMA AnnounceInv ==
    ASSUME LiveInv, NEW w \in Workers, NEW type \in {"started", "completed", "failed"},
           AppendEvent(w, type), UNCHANGED rows,
           type # "started" => turn.state = type,
           NEW pc \in {"execute", "ended"}, work' = [work EXCEPT ![w].pc = pc],
           work[w].pc # "provider", pc = "execute" => work[w].pc = "claimed"
    PROVE  LiveInv'
<1> DEFINE k == [work[w] EXCEPT !.pc = pc]
<1>1. /\ TurnShape(turn) /\ work[w] \in WorkRow /\ WorkOK(w, work[w], rows, turn)
      /\ hist \in Seq(HistKinds) /\ OwnerInv(turn)
    BY DEF LiveInv, LiveTypeOK
<1>2. k \in WorkRow /\ k.pc = pc /\ k.base = work[w].base /\ k.base \in Nat
    BY <1>1 DEF WorkRow, LivePcs
<1>3. work' = [work EXCEPT ![w] = k]
    OBVIOUS
<1> HIDE DEF k
<1>4. WorkOK(w, k, rows, turn)
    BY <1>1, <1>2 DEF WorkOK
<1>5. CASE UNCHANGED <<hist, turn, cursor>>
    BY <1>2, <1>3, <1>4, <1>5, LocalStep
<1>6. CASE /\ hist' = Append(hist, type) /\ turn' = [turn EXCEPT !.ver = @ + 1]
           /\ cursor' = Projected(w, type)
    <2> DEFINE t == [turn EXCEPT !.ver = @ + 1]
               h == Append(hist, type)
               item == Item("activity", type, None)
               c == Opened(item)
    <2>1. t.state = turn.state /\ t.owner = turn.owner /\ t.ver = turn.ver + 1 /\ TurnShape(t)
        <3>1. PICK load \in Workloads : turn \in TurnRow(load)
            BY <1>1 DEF TurnShape
        <3>2. turn.ver + 1 \in Nat /\ turn.claims + 1 \in Nat
            BY <3>1 DEF TurnRow
        <3>3. w \in Owners /\ None \in Owners
            BY DEF Owners
        <3>4. "running" \in TurnStates /\ "completed" \in TurnStates /\ {"queued", "failed"} \subseteq TurnStates
            BY DEF TurnStates
        <3>5. t \in TurnRow(load)
            BY <3>1, <3>2, <3>3, <3>4 DEF TurnRow
        <3> QED
            BY <3>1, <3>5 DEF TurnRow, TurnShape
    <2>2. type \in HistKinds
        BY DEF HistKinds
    <2>3. /\ h \in Seq(HistKinds)
          /\ \A i \in 1..Len(hist) : \E j \in 1..Len(h) : h[j] = hist[i]
          /\ \E j \in 1..Len(h) : h[j] = type
        BY <1>1, <2>2, HistoryAppends
    <2>4. CursorShape(c) /\ c.pc = "waits" /\ c.item = item /\ c.last <= Cardinality(rows)
        BY OpenedCursor
    <2>5. item.kind = type /\ item.channel = "activity"
        BY DEF Item
    <2>6. cursor' = PutCursor(w, c)
        BY <1>6 DEF Projected, PutCursor, AssertingKinds
    <2>7. turn' = t /\ hist' = h
        BY <1>6
    <2> HIDE DEF t, h, item, c
    <2>8. Advances(turn, t, hist, h)
        BY <1>1, <2>1, <2>3 DEF Advances, TurnShape
    <2>9. Holds(type, t, h)
        BY <2>1, <2>3 DEF Holds
    <2>10. CursorOK(c, rows, t, h) /\ DeltaOK(w, c, work')
        BY <2>4, <2>5, <2>9 DEF CursorOK, DeltaOK
    <2>11. OwnerInv(t)
        BY <1>1, <2>1 DEF OwnerInv
    <2>12. WorkOK(w, k, rows, t)
        BY <1>1, <1>2, <1>4, <2>1, <2>8, WorkStays
    <2>13. LiveTypeOK
        BY DEF LiveInv
    <2>14. /\ work' \in [Workers -> WorkRow] /\ work'[w] = k
           /\ \A v \in Workers \ {w} : work'[v] = work[v]
        BY <1>2, <1>3, <2>13 DEF LiveTypeOK
    <2> QED
        BY <2>1, <2>3, <2>4, <2>6, <2>7, <2>8, <2>10, <2>11, <2>12, <2>14, WriterStep DEF Writers
<1> QED
    BY <1>5, <1>6 DEF AppendEvent

LEMMA AnnouncementsInv ==
    ASSUME LiveInv, NEW w \in Workers, AnnounceStart(w) \/ AnnounceEnd(w) \/ AnnounceFailure(w)
    PROVE  LiveInv'
<1>1. WorkOK(w, work[w], rows, turn)
    BY DEF LiveInv
<1>2. CASE AnnounceStart(w)
    <2>1. /\ AppendEvent(w, "started") /\ work[w].pc = "claimed" /\ UNCHANGED rows
          /\ work' = [work EXCEPT ![w].pc = "execute"]
        BY <1>2 DEF AnnounceStart
    <2> QED
        BY <2>1, AnnounceInv
<1>3. CASE AnnounceEnd(w)
    <2>1. /\ AppendEvent(w, "completed") /\ work[w].pc = "announce" /\ UNCHANGED rows
          /\ work' = [work EXCEPT ![w].pc = "ended"]
        BY <1>3 DEF AnnounceEnd
    <2>2. turn.state = "completed"
        BY <1>1, <2>1 DEF WorkOK
    <2> QED
        BY <2>1, <2>2, AnnounceInv
<1>4. CASE AnnounceFailure(w)
    <2>1. /\ AppendEvent(w, "failed") /\ work[w].pc = "announce.failed" /\ UNCHANGED rows
          /\ work' = [work EXCEPT ![w].pc = "ended"]
        BY <1>4 DEF AnnounceFailure
    <2>2. turn.state = "failed"
        BY <1>1, <2>1 DEF WorkOK
    <2> QED
        BY <2>1, <2>2, AnnounceInv
<1> QED
    BY <1>2, <1>3, <1>4

LEMMA CommitInv ==
    ASSUME LiveInv, NEW w \in Workers, Commit(w)
    PROVE  LiveInv'
<1>1. work[w].pc = "decided" /\ UNCHANGED <<rows, cursor>>
    BY DEF Commit
<1>2. /\ TurnShape(turn) /\ work[w] \in WorkRow /\ WorkOK(w, work[w], rows, turn)
      /\ hist \in Seq(HistKinds) /\ work[w].staged \in Seq(HistKinds) /\ work[w].base \in Nat
    BY DEF LiveInv, LiveTypeOK, WorkRow
<1>3. <<>> \in Seq(HistKinds)
    OBVIOUS
<1>4. CASE turn.ver = work[w].base
    <2> DEFINE t == [turn EXCEPT !.state = "completed", !.owner = None, !.ver = @ + 1, !.answer = w]
               k == [work[w] EXCEPT !.pc = "announce", !.staged = <<>>]
               h == hist \o work[w].staged
    <2>1. turn' = t /\ hist' = h /\ work' = [work EXCEPT ![w] = k]
        BY <1>4 DEF Commit
    <2>2. t.state = "completed" /\ t.owner = None /\ t.ver = turn.ver + 1 /\ TurnShape(t)
        <3>1. PICK load \in Workloads : turn \in TurnRow(load)
            BY <1>2 DEF TurnShape
        <3>2. turn.ver + 1 \in Nat /\ turn.claims + 1 \in Nat
            BY <3>1 DEF TurnRow
        <3>3. w \in Owners /\ None \in Owners
            BY DEF Owners
        <3>4. "running" \in TurnStates /\ "completed" \in TurnStates /\ {"queued", "failed"} \subseteq TurnStates
            BY DEF TurnStates
        <3>5. t \in TurnRow(load)
            BY <1>2, <3>1, <3>2, <3>3, <3>4 DEF TurnRow
        <3> QED
            BY <1>2, <3>1, <3>5 DEF TurnRow, TurnShape
    <2>3. k \in WorkRow /\ k.pc = "announce" /\ k.base = work[w].base
        BY <1>2, <1>3 DEF WorkRow, LivePcs
    <2>4. /\ h \in Seq(HistKinds)
          /\ \A i \in 1..Len(hist) : \E j \in 1..Len(h) : h[j] = hist[i]
        BY <1>2, HistoryGrows
    <2>5. turn.state = "running"
        BY <1>1, <1>2, <1>4 DEF WorkOK
    <2> HIDE DEF t, k, h
    <2>6. Advances(turn, t, hist, h) /\ OwnerInv(t)
        BY <1>2, <2>2, <2>4, <2>5 DEF Advances, OwnerInv, TurnShape
    <2>7. WorkOK(w, k, rows, t)
        BY <1>2, <2>2, <2>3 DEF WorkOK, TurnShape
    <2> QED
        BY <1>1, <2>1, <2>2, <2>3, <2>4, <2>6, <2>7, TurnStep
<1>5. CASE turn.ver # work[w].base
    <2> DEFINE k == [work[w] EXCEPT !.pc = "failing", !.staged = <<>>]
    <2>1. UNCHANGED <<turn, hist>> /\ work' = [work EXCEPT ![w] = k]
        BY <1>5 DEF Commit
    <2>2. k \in WorkRow /\ k.pc = "failing" /\ k.base = work[w].base
        BY <1>2, <1>3 DEF WorkRow, LivePcs
    <2> HIDE DEF k
    <2>3. WorkOK(w, k, rows, turn)
        BY <1>1, <1>2, <2>2 DEF WorkOK
    <2> QED
        BY <1>1, <2>1, <2>2, <2>3, LocalStep
<1> QED
    BY <1>4, <1>5

LEMMA FailInv ==
    ASSUME LiveInv, NEW w \in Workers, Fail(w)
    PROVE  LiveInv'
<1>1. work[w].pc = "failing" /\ UNCHANGED <<rows, cursor, hist>>
    BY DEF Fail
<1>2. /\ TurnShape(turn) /\ work[w] \in WorkRow /\ WorkOK(w, work[w], rows, turn)
      /\ hist \in Seq(HistKinds) /\ work[w].base \in Nat
    BY DEF LiveInv, LiveTypeOK, WorkRow
<1>3. ASSUME turn.owner = w, NEW state \in {"queued", "failed"}, NEW pc \in {"ended", "announce.failed"},
             pc = "announce.failed" => state = "failed",
             turn' = [turn EXCEPT !.state = state, !.owner = None, !.ver = @ + 1],
             work' = [work EXCEPT ![w] = [work[w] EXCEPT !.pc = pc]]
      PROVE  LiveInv'
    <2> DEFINE t == [turn EXCEPT !.state = state, !.owner = None, !.ver = @ + 1]
               k == [work[w] EXCEPT !.pc = pc]
    <2>1. turn' = t /\ work' = [work EXCEPT ![w] = k]
        BY <1>3
    <2>2. t.state = state /\ t.owner = None /\ t.ver = turn.ver + 1 /\ TurnShape(t)
        <3>1. PICK load \in Workloads : turn \in TurnRow(load)
            BY <1>2 DEF TurnShape
        <3>2. turn.ver + 1 \in Nat /\ turn.claims + 1 \in Nat
            BY <3>1 DEF TurnRow
        <3>3. w \in Owners /\ None \in Owners
            BY DEF Owners
        <3>4. "running" \in TurnStates /\ "completed" \in TurnStates /\ {"queued", "failed"} \subseteq TurnStates
            BY DEF TurnStates
        <3>5. t \in TurnRow(load)
            BY <1>2, <1>3, <3>1, <3>2, <3>3, <3>4 DEF TurnRow
        <3> QED
            BY <1>2, <1>3, <3>1, <3>5 DEF TurnRow, TurnShape
    <2>3. k \in WorkRow /\ k.pc = pc /\ k.base = work[w].base
        BY <1>2, <1>3 DEF WorkRow, LivePcs
    <2>4. turn.state = "running"
        BY <1>3, StreamAssumption DEF LiveInv, OwnerInv
    <2> HIDE DEF t, k
    <2>5. Advances(turn, t, hist, hist) /\ OwnerInv(t)
        BY <1>2, <2>2, <2>4, TurnMoves DEF OwnerInv
    <2>6. WorkOK(w, k, rows, t)
        BY <1>2, <1>3, <2>2, <2>3 DEF WorkOK, TurnShape
    <2>7. TurnShape(turn') /\ hist' \in Seq(HistKinds) /\ Advances(turn, turn', hist, hist')
        BY <1>1, <1>2, <2>1, <2>2, <2>5
    <2>8. OwnerInv(turn') /\ WorkOK(w, k, rows, turn')
        BY <2>1, <2>5, <2>6
    <2> QED
        BY <1>1, <2>1, <2>3, <2>7, <2>8, TurnStep
<1>4. CASE turn.owner # w
    <2> DEFINE k == [work[w] EXCEPT !.pc = "ended"]
    <2>1. UNCHANGED turn /\ work' = [work EXCEPT ![w] = k]
        BY <1>4 DEF Fail
    <2>2. k \in WorkRow /\ k.pc = "ended" /\ k.base = work[w].base
        BY <1>2 DEF WorkRow, LivePcs
    <2> HIDE DEF k
    <2>3. WorkOK(w, k, rows, turn)
        BY <1>1, <1>2, <2>2 DEF WorkOK
    <2> QED
        BY <1>1, <2>1, <2>2, <2>3, LocalStep
<1>5. CASE turn.owner = w /\ turn.claims < turn.max
    <2>1. /\ turn' = [turn EXCEPT !.state = "queued", !.owner = None, !.ver = @ + 1]
          /\ work' = [work EXCEPT ![w] = [work[w] EXCEPT !.pc = "ended"]]
        BY <1>5 DEF Fail
    <2> QED
        BY <1>3, <1>5, <2>1
<1>6. CASE turn.owner = w /\ ~(turn.claims < turn.max)
    <2>1. /\ turn' = [turn EXCEPT !.state = "failed", !.owner = None, !.ver = @ + 1]
          /\ work' = [work EXCEPT ![w] = [work[w] EXCEPT !.pc = "announce.failed"]]
        BY <1>6 DEF Fail
    <2> QED
        BY <1>3, <1>6, <2>1
<1> QED
    BY <1>4, <1>5, <1>6

LEMMA CrashInv ==
    ASSUME LiveInv, NEW w \in Workers, Crash(w)
    PROVE  LiveInv'
<1> DEFINE k == [NoWork EXCEPT !.pc = "ended"]
<1>1. /\ work' = [work EXCEPT ![w] = k] /\ cursor' = [cursor EXCEPT ![w] = NoCursor]
      /\ UNCHANGED <<turn, hist, rows>>
    BY DEF Crash
<1>2. cursor' = PutCursor(w, NoCursor)
    BY <1>1 DEF PutCursor
<1>3. <<>> \in Seq(HistKinds) /\ StreamOff \in StreamRow
    BY DEF StreamOff, StreamRow
<1>4. k \in WorkRow /\ k.pc = "ended" /\ k.base = 0
    BY <1>3 DEF NoWork, WorkRow, LivePcs
<1> HIDE DEF k
<1>5. LiveTypeOK /\ TurnShape(turn) /\ hist \in Seq(HistKinds) /\ OwnerInv(turn)
    BY DEF LiveInv, LiveTypeOK
<1>6. work' \in [Workers -> WorkRow] /\ work'[w] = k /\ \A v \in Workers \ {w} : work'[v] = work[v]
    BY <1>1, <1>4, <1>5 DEF LiveTypeOK
<1>7. CursorShape(NoCursor) /\ CursorOK(NoCursor, rows, turn, hist) /\ DeltaOK(w, NoCursor, work')
    BY ClosedCursor
<1>8. WorkOK(w, k, rows, turn)
    BY <1>4, <1>5 DEF WorkOK, TurnShape
<1>9. Advances(turn, turn, hist, hist)
    BY <1>5, NothingAdvances DEF TurnShape
<1> QED
    BY <1>1, <1>2, <1>5, <1>6, <1>7, <1>8, <1>9, WriterStep DEF Writers

LEMMA RecoverInv ==
    ASSUME LiveInv, Recover
    PROVE  LiveInv'
<1>1. turn.state = "running" /\ cursor[Cron].pc = "closed" /\ UNCHANGED <<rows, work>> /\ Cron \in Writers
    BY DEF Recover, Idle, Writers
<1>2. /\ TurnShape(turn) /\ hist \in Seq(HistKinds) /\ work \in [Workers -> WorkRow]
      /\ \A v \in Workers : WorkOK(v, work[v], rows, turn)
      /\ CursorOK(cursor[Cron], rows, turn, hist)
    BY <1>1 DEF LiveInv, LiveTypeOK
<1>3. ASSUME NEW state \in {"queued", "failed"}, NEW type \in {"requeued", "failed"}, NEW c,
             turn' = [turn EXCEPT !.state = state, !.owner = None, !.ver = @ + 1],
             hist' = Append(hist, type), cursor' = PutCursor(Cron, c), CursorShape(c),
             c.last <= Cardinality(rows),
             c.pc # "closed" => c.item.channel = "activity" /\ c.item.kind = "failed" /\ state = "failed"
                                /\ type = "failed"
      PROVE  LiveInv'
    <2> DEFINE t == [turn EXCEPT !.state = state, !.owner = None, !.ver = @ + 1]
               h == Append(hist, type)
    <2>1. turn' = t /\ hist' = h
        BY <1>3
    <2>2. t.state = state /\ t.owner = None /\ t.ver = turn.ver + 1 /\ TurnShape(t)
        <3>1. PICK load \in Workloads : turn \in TurnRow(load)
            BY <1>2 DEF TurnShape
        <3>2. turn.ver + 1 \in Nat
            BY <3>1 DEF TurnRow
        <3>3. None \in Owners /\ {"queued", "failed"} \subseteq TurnStates
            BY DEF Owners, TurnStates
        <3>4. t \in TurnRow(load)
            BY <1>3, <3>1, <3>2, <3>3 DEF TurnRow
        <3> QED
            BY <1>3, <3>1, <3>4 DEF TurnRow, TurnShape
    <2>3. type \in HistKinds
        BY <1>3 DEF HistKinds
    <2>4. /\ h \in Seq(HistKinds)
          /\ \A i \in 1..Len(hist) : \E j \in 1..Len(h) : h[j] = hist[i]
          /\ \E j \in 1..Len(h) : h[j] = type
        BY <1>2, <2>3, HistoryAppends
    <2> HIDE DEF t, h
    <2>5. Advances(turn, t, hist, h) /\ OwnerInv(t)
        <3>1. t.ver = turn.ver + 1 /\ turn.ver \in Nat /\ t.owner = None
            BY <1>2, <2>2 DEF TurnShape
        <3>2. turn.ver <= t.ver /\ t.ver # turn.ver
            BY <3>1
        <3> QED
            BY <1>1, <2>4, <3>1, <3>2 DEF Advances, OwnerInv
    <2>6. CursorOK(c, rows, t, h) /\ DeltaOK(Cron, c, work')
        BY <1>3, <2>2, <2>4 DEF CursorOK, DeltaOK, Holds
    <2>7. Cron \in Workers => WorkOK(Cron, work'[Cron], rows, t)
        BY <1>1, <1>2, <2>2, <2>5, WorkStays
    <2> QED
        BY <1>1, <1>2, <1>3, <2>1, <2>2, <2>4, <2>5, <2>6, <2>7, WriterStep
<1>4. CASE turn.claims < turn.max
    <2>1. /\ turn' = [turn EXCEPT !.state = "queued", !.owner = None, !.ver = @ + 1]
          /\ hist' = Append(hist, "requeued") /\ cursor' = cursor
        BY <1>4 DEF Recover
    <2>2. cursor' = PutCursor(Cron, cursor[Cron]) /\ CursorShape(cursor[Cron])
        BY <1>1, <2>1, SameCursor
    <2>3. cursor[Cron].last <= Cardinality(rows)
        BY <1>2 DEF CursorOK
    <2> QED
        BY <1>1, <1>3, <2>1, <2>2, <2>3
<1>5. CASE ~(turn.claims < turn.max)
    <2> DEFINE item == Item("activity", "failed", None)
               c == Opened(item)
    <2>1. /\ turn' = [turn EXCEPT !.state = "failed", !.owner = None, !.ver = @ + 1]
          /\ hist' = Append(hist, "failed") /\ cursor' = PutCursor(Cron, c)
        BY <1>5 DEF Recover, Projected, PutCursor, AssertingKinds
    <2>2. CursorShape(c) /\ c.item = item /\ c.last <= Cardinality(rows)
        BY OpenedCursor
    <2>3. item.kind = "failed" /\ item.channel = "activity"
        BY DEF Item
    <2> HIDE DEF item, c
    <2> QED
        BY <1>3, <2>1, <2>2, <2>3
<1> QED
    BY <1>4, <1>5

(***************************************************************************)
(* The append                                                               *)
(***************************************************************************)

(* The rows an accepted append leaves: the cursor had counted all of them,  *)
(* so the new ones are numbered next, and a delta is the next piece.        *)
LEMMA AppendedRows ==
    ASSUME LiveInv, NEW w \in Writers, cursor[w].pc = "holds", ~Refused(cursor[w]),
           NEW rs, rs = rows \cup NewRows(cursor[w])
    PROVE  /\ Numbered(rs) /\ Cardinality(rows) <= Cardinality(rs) /\ RowsHold(rs, turn, hist)
           /\ \A v \in Workers : Text(v, rs)
           /\ \A v \in Workers : v # w \/ cursor[w].item.channel # "answer" => Mine(v, rs) = Mine(v, rows)
           /\ w \in Workers /\ cursor[w].item.channel = "answer"
                => Cardinality(Mine(w, rs)) = Cardinality(Mine(w, rows)) + 1
<1> DEFINE c == cursor[w]
           m == Cardinality(rows)
<1>1. /\ CursorShape(c) /\ CursorOK(c, rows, turn, hist) /\ DeltaOK(w, c, work)
      /\ Numbered(rows) /\ RowsHold(rows, turn, hist)
      /\ \A v \in Workers : Text(v, rows) /\ WorkOK(v, work[v], rows, turn)
    BY DEF LiveInv, LiveTypeOK, CursorsShape
<1>2. m \in Nat /\ c.last \in Nat /\ c.last <= m
    BY <1>1, LastIsCount DEF CursorShape, CursorOK
<1>3. {r.seq : r \in rows} = 1..m
    BY <1>1 DEF Numbered
<1>4. ASSUME NEW r \in NewRows(c), r.seq = c.last + 1
      PROVE  c.last = m
    <2>1. r.seq \notin {q.seq : q \in rows}
        BY <1>4 DEF Refused
    <2>2. c.last + 1 \notin 1..m
        BY <1>3, <1>4, <2>1
    <2> QED
        BY <1>2, <2>2
<1>5. CASE c.item.channel = "answer"
    <2> DEFINE p == <<w, work[w].s.sent + 1>>
    <2>1. /\ w \in Workers /\ work[w].pc = "provider" /\ work[w].s.on
          /\ c.item = Item("answer", None, p)
        BY <1>1, <1>5 DEF DeltaOK
    <2>2. work[w].s.sent = Cardinality(Mine(w, rows))
        BY <1>1, <2>1 DEF WorkOK
    <2>3. p = <<w, Cardinality(Mine(w, rows)) + 1>>
        BY <2>2
    <2>4. ASSUME NEW old, NEW r, Numbered(old), \A v \in Workers : Mine(v, old) = Mine(v, rows),
                 RowsHold(old, turn, hist), m <= Cardinality(old),
                 r = [seq |-> Cardinality(old) + 1, channel |-> "answer", kind |-> None, piece |-> p],
                 r.seq <= MaxLive, rs = old \cup {r}
          PROVE  /\ Numbered(rs) /\ m <= Cardinality(rs) /\ RowsHold(rs, turn, hist)
                 /\ \A v \in Workers : Text(v, rs)
                 /\ \A v \in Workers : v # w => Mine(v, rs) = Mine(v, rows)
                 /\ Cardinality(Mine(w, rs)) = Cardinality(Mine(w, rows)) + 1
        <3>1. r.seq = Cardinality(old) + 1 /\ r.channel = "answer" /\ r.kind = None /\ r.piece = p
            BY <2>4
        <3>2. Numbered(rs) /\ Cardinality(rs) = Cardinality(old) + 1 /\ Cardinality(old) \in Nat
            BY <2>4, <3>1, AddNumbered, LastIsCount
        <3>3. m <= Cardinality(rs)
            BY <1>2, <2>4, <3>2
        <3>4. None \notin AssertingKinds
            BY DEF None, AssertingKinds
        <3>5. RowsHold(rs, turn, hist)
            BY <2>4, <3>1, <3>4 DEF RowsHold
        <3>6. \A v \in Workers : Text(v, old)
            BY <1>1, <2>4 DEF Text
        <3>7. r.piece = <<w, Cardinality(Mine(w, old)) + 1>>
            BY <2>1, <2>3, <2>4, <3>1
        <3>8. Text(w, rs) /\ Cardinality(Mine(w, rs)) = Cardinality(Mine(w, old)) + 1
            BY <2>1, <2>4, <3>1, <3>6, <3>7, AddPiece
        <3>9. r.piece[1] = w
            BY <3>7
        <3>10. ASSUME NEW v \in Workers, v # w
               PROVE  Mine(v, rs) = Mine(v, old) /\ Text(v, rs)
            <4>1. Mine(v, old \cup {r}) = Mine(v, old)
                BY <3>9, <3>10, AddOfAnother
            <4> QED
                BY <2>4, <3>6, <4>1 DEF Text
        <3> QED
            BY <2>1, <2>4, <3>2, <3>3, <3>5, <3>8, <3>10
    <2> HIDE DEF p
    <2>5. CASE c.answers = 0
        <3> DEFINE a == [seq |-> c.last + 1, channel |-> "activity", kind |-> "answer.started",
                         piece |-> None]
                   b == [seq |-> c.last + 1 + 1, channel |-> "answer", kind |-> None, piece |-> p]
                   old == rows \cup {a}
        <3>1. NewRows(c) = {a, b}
            BY <1>5, <2>1, <2>5 DEF NewRows, Item
        <3>2. a.seq = c.last + 1 /\ b.seq = c.last + 1 + 1 /\ a.channel = "activity" /\ a.kind = "answer.started"
            OBVIOUS
        <3>3. c.last = m
            BY <1>4, <3>1, <3>2
        <3>4. a.seq <= MaxLive /\ b.seq <= MaxLive
            BY <1>2, <3>1, <3>2, StreamAssumption DEF Refused
        <3> HIDE DEF a
        <3>5. Numbered(old) /\ Cardinality(old) = m + 1
            BY <1>1, <3>2, <3>3, <3>4, AddNumbered
        <3>6. \A v \in Workers : Mine(v, old) = Mine(v, rows)
            BY <3>2, AddOther
        <3>7. RowsHold(old, turn, hist)
            BY <1>1, <3>2 DEF RowsHold, AssertingKinds
        <3>8. rs = old \cup {b}
            BY <3>1
        <3>9. m <= Cardinality(old)
            BY <1>2, <3>5
        <3>10. b = [seq |-> Cardinality(old) + 1, channel |-> "answer", kind |-> None, piece |-> p]
            BY <3>3, <3>5
        <3> HIDE DEF old, b, c, m
        <3>11. /\ Numbered(rs) /\ m <= Cardinality(rs) /\ RowsHold(rs, turn, hist)
               /\ \A v \in Workers : Text(v, rs)
               /\ \A v \in Workers : v # w => Mine(v, rs) = Mine(v, rows)
               /\ Cardinality(Mine(w, rs)) = Cardinality(Mine(w, rows)) + 1
            BY <2>4, <3>4, <3>5, <3>6, <3>7, <3>8, <3>9, <3>10
        <3> QED
            BY <1>5, <3>11 DEF c, m
    <2>6. CASE c.answers # 0
        <3> DEFINE b == [seq |-> c.last + 1, channel |-> "answer", kind |-> None, piece |-> p]
        <3>1. NewRows(c) = {b}
            BY <2>1, <2>6 DEF NewRows, Item
        <3>2. b.seq = c.last + 1
            OBVIOUS
        <3>3. c.last = m
            BY <1>4, <3>1, <3>2
        <3>4. b.seq <= MaxLive
            BY <1>2, <3>1, <3>2, StreamAssumption DEF Refused
        <3>5. b = [seq |-> Cardinality(rows) + 1, channel |-> "answer", kind |-> None, piece |-> p]
            BY <3>3
        <3>6. rs = rows \cup {b}
            BY <3>1
        <3>7. m <= Cardinality(rows)
            BY <1>2
        <3> HIDE DEF b
        <3>8. /\ Numbered(rs) /\ m <= Cardinality(rs) /\ RowsHold(rs, turn, hist)
              /\ \A v \in Workers : Text(v, rs)
              /\ \A v \in Workers : v # w => Mine(v, rs) = Mine(v, rows)
              /\ Cardinality(Mine(w, rs)) = Cardinality(Mine(w, rows)) + 1
            BY <1>1, <2>4, <3>4, <3>5, <3>6, <3>7
        <3> QED
            BY <1>5, <3>8
    <2> QED
        BY <2>5, <2>6
<1>6. CASE c.item.channel # "answer"
    <2> DEFINE b == [seq |-> c.last + 1, channel |-> c.item.channel, kind |-> c.item.kind,
                     piece |-> c.item.piece]
    <2>1. NewRows(c) = {b}
        BY <1>6 DEF NewRows
    <2>2. b.seq = c.last + 1 /\ b.channel = c.item.channel /\ b.kind = c.item.kind
        OBVIOUS
    <2>3. c.last = m
        BY <1>4, <2>1, <2>2
    <2>4. b.seq <= MaxLive
        BY <1>2, <2>1, <2>2, StreamAssumption DEF Refused
    <2>5. rs = rows \cup {b}
        BY <2>1
    <2> HIDE DEF b
    <2>6. Numbered(rs) /\ Cardinality(rs) = m + 1
        BY <1>1, <2>2, <2>3, <2>4, <2>5, AddNumbered
    <2>7. \A v \in Workers : Mine(v, rs) = Mine(v, rows)
        BY <1>6, <2>2, <2>5, AddOther
    <2>8. \A v \in Workers : Text(v, rs)
        BY <1>1, <2>7 DEF Text
    <2>9. b.kind \in AssertingKinds => Holds(b.kind, turn, hist)
        BY <1>1, <2>2 DEF CursorOK
    <2>10. RowsHold(rs, turn, hist)
        BY <1>1, <2>5, <2>9 DEF RowsHold
    <2>11. m <= Cardinality(rs)
        BY <1>2, <2>6
    <2> QED
        BY <1>6, <2>6, <2>7, <2>8, <2>10, <2>11
<1> QED
    BY <1>5, <1>6

(* What an append makes of the stream: the next piece is counted when it    *)
(* was stored, and a stream that is refused a piece is off.                 *)
LEMMA AppendedStream ==
    ASSUME NEW s \in StreamRow, NEW channel, NEW ok \in BOOLEAN
    PROVE  /\ AfterAppend(s, channel, ok) \in StreamRow
           /\ AfterAppend(s, channel, ok).on => s.on
           /\ channel # "answer" => AfterAppend(s, channel, ok).sent = s.sent
           /\ channel = "answer" /\ ok => AfterAppend(s, channel, ok).sent = s.sent + 1
           /\ channel = "answer" /\ ~ok => ~AfterAppend(s, channel, ok).on
<1>1. s.sent + 1 \in Nat
    BY DEF StreamRow
<1>2. CASE channel = "answer" /\ ok
    <2>1. AfterAppend(s, channel, ok) = [s EXCEPT !.sent = @ + 1]
        BY <1>2 DEF AfterAppend
    <2> QED
        BY <1>1, <1>2, <2>1 DEF StreamRow
<1>3. CASE channel = "answer" /\ ~ok
    <2>1. AfterAppend(s, channel, ok) = [s EXCEPT !.on = FALSE]
        BY <1>3 DEF AfterAppend
    <2> QED
        BY <1>3, <2>1 DEF StreamRow
<1>4. CASE channel = "reasoning" /\ ~ok
    <2>1. AfterAppend(s, channel, ok) = [s EXCEPT !.summary = FALSE]
        BY <1>4 DEF AfterAppend
    <2> QED
        BY <1>4, <2>1 DEF StreamRow
<1>5. CASE channel # "answer" /\ ~(channel = "reasoning" /\ ~ok)
    <2>1. AfterAppend(s, channel, ok) = s
        BY <1>5 DEF AfterAppend
    <2> QED
        BY <1>5, <2>1
<1> QED
    BY <1>2, <1>3, <1>4, <1>5

LEMMA LiveAppendInv ==
    ASSUME LiveInv, NEW w \in Writers, LiveAppend(w)
    PROVE  LiveInv'
<1> DEFINE c == cursor[w]
           channel == c.item.channel
<1>1. c.pc = "holds" /\ cursor' = [cursor EXCEPT ![w] = NoCursor] /\ UNCHANGED <<turn, hist>>
    BY DEF LiveAppend
<1>2. PICK ok \in IF Refused(c) THEN {FALSE} ELSE BOOLEAN :
        /\ rows' = IF ok THEN rows \cup NewRows(c) ELSE rows
        /\ work' = IF w \in Workers
                     THEN [work EXCEPT ![w].s = AfterAppend(@, channel, ok)]
                     ELSE work
    BY DEF LiveAppend
<1>3. ok \in BOOLEAN /\ (ok => ~Refused(c))
    BY <1>2
<1>4. LiveTypeOK /\ Numbered(rows) /\ Cardinality(rows) \in Nat
    BY LastIsCount DEF LiveInv
<1>5. /\ Numbered(rows') /\ Cardinality(rows) <= Cardinality(rows')
      /\ RowsHold(rows', turn, hist) /\ \A v \in Workers : Text(v, rows')
      /\ \A v \in Workers : v # w \/ channel # "answer" \/ ~ok => Mine(v, rows') = Mine(v, rows)
      /\ w \in Workers /\ channel = "answer" /\ ok
           => Cardinality(Mine(w, rows')) = Cardinality(Mine(w, rows)) + 1
    <2>1. CASE ok
        <3>1. rows' = rows \cup NewRows(c) /\ ~Refused(c)
            BY <1>2, <1>3, <2>1
        <3> QED
            BY <1>1, <2>1, <3>1, AppendedRows
    <2>2. CASE ~ok
        <3>1. rows' = rows
            BY <1>2, <2>2
        <3> QED
            BY <1>4, <2>2, <3>1 DEF LiveInv
    <2> QED
        BY <2>1, <2>2
<1>6. cursor' = PutCursor(w, NoCursor)
    BY <1>1 DEF PutCursor
<1>7. CursorShape(NoCursor) /\ NoCursor.pc = "closed" /\ NoCursor.last = 0
    BY DEF NoCursor, CursorShape
<1>8. CursorsShape(cursor') /\ cursor'[w] = NoCursor /\ \A v \in Writers \ {w} : cursor'[v] = cursor[v]
    <2>1. /\ CursorsShape(PutCursor(w, NoCursor))
          /\ PutCursor(w, NoCursor)[w] = NoCursor
          /\ \A v \in Writers \ {w} : PutCursor(w, NoCursor)[v] = cursor[v]
        BY <1>4, <1>7, SetCursor
    <2> QED
        BY <1>6, <2>1
<1>9. /\ work' \in [Workers -> WorkRow] /\ \A v \in Workers \ {w} : work'[v] = work[v]
      /\ w \in Workers => WorkOK(w, work'[w], rows', turn)
    <2>1. CASE w \in Workers
        <3> DEFINE s == work[w].s
                   n == AfterAppend(s, channel, ok)
                   k == [work[w] EXCEPT !.s = n]
        <3>1. work[w] \in WorkRow /\ s \in StreamRow /\ WorkOK(w, work[w], rows, turn) /\ DeltaOK(w, c, work)
            BY <1>4, <2>1 DEF LiveInv, LiveTypeOK, WorkRow
        <3>2. /\ n \in StreamRow /\ (n.on => s.on)
              /\ channel # "answer" => n.sent = s.sent
              /\ channel = "answer" /\ ok => n.sent = s.sent + 1
              /\ channel = "answer" /\ ~ok => ~n.on
            BY <1>3, <3>1, AppendedStream
        <3>3. work' = [work EXCEPT ![w] = k]
            BY <1>2, <2>1
        <3> HIDE DEF n, channel
        <3>4. k \in WorkRow /\ k.pc = work[w].pc /\ k.base = work[w].base /\ k.s = n
            BY <3>1, <3>2 DEF WorkRow
        <3>5. channel = "answer" => work[w].pc = "provider"
            BY <1>1, <3>1 DEF DeltaOK, channel
        <3> HIDE DEF k, s, c
        <3>6. work' \in [Workers -> WorkRow] /\ work'[w] = k /\ \A v \in Workers \ {w} : work'[v] = work[v]
            BY <1>4, <2>1, <3>3, <3>4 DEF LiveTypeOK
        <3>7. k.pc \in {"idle", "claimed", "execute", "prepare", "stage"} => Mine(w, rows') = {}
            <4>1. SUFFICES ASSUME k.pc \in {"idle", "claimed", "execute", "prepare", "stage"}
                           PROVE  Mine(w, rows') = {}
                OBVIOUS
            <4>2. channel # "answer" /\ Mine(w, rows) = {}
                BY <3>1, <3>4, <3>5, <4>1 DEF WorkOK
            <4> QED
                BY <1>5, <2>1, <4>2
        <3>8. k.pc = "provider" /\ k.s.on => k.s.sent = Cardinality(Mine(w, rows'))
            <4>1. SUFFICES ASSUME k.pc = "provider", k.s.on
                           PROVE  k.s.sent = Cardinality(Mine(w, rows'))
                OBVIOUS
            <4>2. s.on /\ s.sent = Cardinality(Mine(w, rows))
                BY <3>1, <3>2, <3>4, <4>1 DEF WorkOK, s
            <4>3. CASE channel = "answer"
                BY <1>3, <1>5, <2>1, <3>2, <3>4, <4>1, <4>2, <4>3
            <4>4. CASE channel # "answer"
                BY <1>5, <2>1, <3>2, <3>4, <4>2, <4>4
            <4> QED
                BY <4>3, <4>4
        <3>9. WorkOK(w, k, rows', turn)
            BY <3>1, <3>4, <3>7, <3>8 DEF WorkOK
        <3> QED
            BY <3>6, <3>9
    <2>2. CASE w \notin Workers
        BY <1>2, <1>4, <2>2 DEF LiveTypeOK
    <2> QED
        BY <2>1, <2>2
<1>10. ASSUME NEW v \in Workers
       PROVE  WorkOK(v, work'[v], rows', turn')
    <2>1. CASE v = w
        BY <1>1, <1>9, <2>1
    <2>2. CASE v # w
        <3>1. Mine(v, rows') = Mine(v, rows) /\ work'[v] = work[v] /\ turn' = turn
            BY <1>1, <1>5, <1>9, <2>2
        <3>2. WorkOK(v, work[v], rows, turn)
            BY DEF LiveInv
        <3> QED
            BY <3>1, <3>2 DEF WorkOK
    <2> QED
        BY <2>1, <2>2
<1>11. ASSUME NEW v \in Writers
       PROVE  CursorOK(cursor'[v], rows', turn', hist') /\ DeltaOK(v, cursor'[v], work')
    <2>1. Cardinality(rows') \in Nat
        BY <1>5, LastIsCount
    <2>2. CASE v = w
        BY <1>7, <1>8, <2>1, <2>2 DEF CursorOK, DeltaOK
    <2>3. CASE v # w
        <3>1. /\ cursor'[v] = cursor[v] /\ CursorOK(cursor[v], rows, turn, hist)
              /\ DeltaOK(v, cursor[v], work) /\ cursor[v].last \in Nat
            BY <1>4, <1>8, <2>3 DEF LiveInv, LiveTypeOK, CursorsShape, CursorShape
        <3>2. v \in Workers => work'[v] = work[v]
            BY <1>9, <2>3
        <3>3. cursor[v].last <= Cardinality(rows')
            BY <1>4, <1>5, <2>1, <3>1 DEF CursorOK
        <3> QED
            BY <1>1, <3>1, <3>2, <3>3 DEF CursorOK, DeltaOK
    <2> QED
        BY <2>2, <2>3
<1>12. LiveTypeOK' /\ OwnerInv(turn') /\ RowsHold(rows', turn', hist')
    BY <1>1, <1>4, <1>5, <1>8, <1>9 DEF LiveInv, LiveTypeOK
<1> QED
    BY <1>5, <1>10, <1>11, <1>12 DEF LiveInv

(***************************************************************************)
(* The theorem                                                              *)
(***************************************************************************)

LEMMA InitLiveInv ==
    ASSUME Init
    PROVE  LiveInv
<1>1. /\ hist = <<>> /\ rows = {} /\ work = [w \in Workers |-> NoWork]
      /\ cursor = [w \in Writers |-> NoCursor]
    BY DEF Init
<1>2. TurnShape(turn) /\ turn.owner = None /\ turn.ver = 0
    <2>1. PICK load \in Workloads :
            turn = [state |-> "queued", owner |-> None, ver |-> 0, claims |-> 0,
                    max |-> load.attempts, summaries |-> load.summaries, answer |-> None]
        BY DEF Init
    <2>2. None \in Owners /\ "queued" \in TurnStates
        BY DEF Owners, TurnStates
    <2>3. turn \in TurnRow(load)
        BY <2>1, <2>2 DEF TurnRow
    <2> QED
        BY <2>1, <2>2, <2>3 DEF TurnShape
<1>3. <<>> \in Seq(HistKinds) /\ StreamOff \in StreamRow
    BY DEF StreamOff, StreamRow
<1>4. NoWork \in WorkRow /\ NoWork.pc = "idle" /\ NoWork.base = 0
    BY <1>3 DEF NoWork, WorkRow, LivePcs
<1>5. CursorShape(NoCursor) /\ NoCursor.pc = "closed" /\ NoCursor.last = 0
    BY DEF NoCursor, CursorShape
<1>6. CursorsShape(cursor)
    BY <1>1, <1>5 DEF CursorsShape
<1>7. LiveTypeOK
    BY <1>1, <1>2, <1>3, <1>4, <1>6 DEF LiveTypeOK
<1>8. IsFiniteSet(rows) /\ Cardinality(rows) = 0
    BY <1>1, FS_EmptySet
<1>9. Numbered(rows)
    BY <1>1, <1>8, StreamAssumption DEF Numbered
<1>10. \A w \in Workers : Mine(w, rows) = {}
    BY <1>1 DEF Mine, AnswerRows
<1>11. \A w \in Workers : Text(w, rows)
    BY <1>10, FS_EmptySet DEF Text
<1>12. RowsHold(rows, turn, hist) /\ OwnerInv(turn)
    BY <1>1, <1>2 DEF RowsHold, OwnerInv
<1>13. \A v \in Writers : CursorOK(cursor[v], rows, turn, hist) /\ DeltaOK(v, cursor[v], work)
    BY <1>1, <1>5, <1>8 DEF CursorOK, DeltaOK
<1>14. \A w \in Workers : WorkOK(w, work[w], rows, turn)
    BY <1>1, <1>2, <1>4, <1>10 DEF WorkOK
<1> QED
    BY <1>7, <1>9, <1>11, <1>12, <1>13, <1>14 DEF LiveInv

LEMMA StepLiveInv ==
    ASSUME LiveInv, [Next]_vars
    PROVE  LiveInv'
<1>1. CASE \E w \in Writers : LiveLock(w) \/ LiveAppend(w)
    BY <1>1, LiveLockInv, LiveAppendInv
<1>2. ASSUME NEW w \in Workers,
             \/ Claim(w) \/ AnnounceStart(w) \/ Execute(w) \/ ShowReasoning(w) \/ StageReasoning(w)
             \/ Delta(w) \/ EmitDelta(w) \/ EmitSummary(w) \/ TurnCompleted(w) \/ ProviderFails(w)
             \/ Commit(w) \/ AnnounceEnd(w) \/ Fail(w) \/ AnnounceFailure(w) \/ Crash(w)
      PROVE  LiveInv'
    BY <1>2, ClaimInv, AnnouncementsInv, ExecuteInv, ShowReasoningInv, StageReasoningInv, DeltaInv,
       EmitDeltaInv, EmitSummaryInv, TurnCompletedInv, ProviderFailsInv, CommitInv, FailInv, CrashInv
<1>3. CASE Recover
    BY <1>3, RecoverInv
<1>4. ASSUME UNCHANGED <<turn, hist, rows, work, cursor>>
      PROVE  LiveInv'
    BY <1>4 DEF LiveInv, LiveTypeOK
<1>5. CASE CallFails \/ Drain \/ PollStatus \/ Present \/ Reconcile
    BY <1>4, <1>5 DEF CallFails, Drain, PollStatus, Present, Reconcile
<1>6. CASE UNCHANGED vars
    BY <1>4, <1>6 DEF vars
<1> QED
    BY <1>1, <1>2, <1>3, <1>5, <1>6 DEF Next

(* What the table of live rows says is true: the text every attempt has     *)
(* stored is a prefix of its answer, the rows are numbered without a gap    *)
(* and within _MAX_LIVE_EVENTS, and a row that asserts a state of the turn  *)
(* speaks of a committed event and of the state the turn is in, however     *)
(* many attempts share the turn and wherever they crash.                    *)
THEOREM LiveRowsAreTrue ==
    Spec => []LiveRowsTrue
<1>1. Init => LiveInv
    BY InitLiveInv
<1>2. LiveInv /\ [Next]_vars => LiveInv'
    BY StepLiveInv
<1>3. LiveInv => LiveRowsTrue
    <2>1. SUFFICES ASSUME LiveInv PROVE LiveRowsTrue
        OBVIOUS
    <2>2. StreamIsPrefix
        BY <2>1 DEF LiveInv, Numbered, Text, Mine, StreamIsPrefix
    <2>3. CommittedOnly
        BY <2>1 DEF LiveInv, RowsHold, Holds, CommittedOnly
    <2> QED
        BY <2>2, <2>3 DEF LiveRowsTrue
<1> QED
    BY <1>1, <1>2, <1>3, PTL DEF Spec

(***************************************************************************)
(* The order of the rows                                                    *)
(***************************************************************************)

(* Finitely many rows, each with a number of its own.                       *)
Tidy(rs) ==
    /\ IsFiniteSet(rs)
    /\ \A r \in rs : r.seq \in Nat
    /\ \A r, q \in rs : r.seq = q.seq => r = q

Nth(rs, i) == CHOOSE r \in rs : Rank(r, rs) = i

LEMMA TidySubset ==
    ASSUME NEW rs, Tidy(rs), NEW qs \in SUBSET rs
    PROVE  Tidy(qs) /\ Cardinality(qs) \in Nat /\ Cardinality(qs) <= Cardinality(rs)
BY FS_Subset, FS_CardinalityType DEF Tidy

LEMMA RankRange ==
    ASSUME NEW rs, Tidy(rs), NEW r \in rs
    PROVE  Rank(r, rs) \in 1..Cardinality(rs)
<1> DEFINE below == {q \in rs : q.seq <= r.seq}
<1>1. below \subseteq rs /\ r \in below
    BY DEF Tidy
<1>2. IsFiniteSet(below) /\ Cardinality(below) \in Nat /\ Cardinality(below) <= Cardinality(rs)
    BY <1>1, FS_Subset, FS_CardinalityType DEF Tidy
<1>3. Cardinality(below) # 0
    BY <1>1, <1>2, FS_EmptySet
<1>4. Cardinality(rs) \in Nat
    BY FS_CardinalityType DEF Tidy
<1> QED
    BY <1>2, <1>3, <1>4 DEF Rank

LEMMA RankOrder ==
    ASSUME NEW rs, Tidy(rs), NEW r \in rs, NEW q \in rs
    PROVE  /\ r.seq <= q.seq => Rank(r, rs) <= Rank(q, rs)
           /\ r.seq < q.seq => Rank(r, rs) < Rank(q, rs)
           /\ Rank(r, rs) = Rank(q, rs) => r = q
<1> DEFINE below(x) == {y \in rs : y.seq <= x.seq}
<1>1. \A x \in rs : IsFiniteSet(below(x)) /\ Cardinality(below(x)) \in Nat /\ x \in below(x)
    <2>1. TAKE x \in rs
    <2>2. below(x) \subseteq rs /\ x \in below(x)
        BY DEF Tidy
    <2> QED
        BY <2>2, FS_Subset, FS_CardinalityType DEF Tidy
<1>2. ASSUME NEW x \in rs, NEW y \in rs, x.seq <= y.seq
      PROVE  Cardinality(below(x)) <= Cardinality(below(y))
    <2>1. below(x) \subseteq below(y)
        BY <1>2 DEF Tidy
    <2> QED
        BY <1>1, <2>1, FS_Subset
<1>3. ASSUME NEW x \in rs, NEW y \in rs, x.seq < y.seq
      PROVE  Cardinality(below(x)) < Cardinality(below(y))
    <2>1. below(x) \subseteq below(y) /\ y \in below(y) /\ y \notin below(x)
        BY <1>3 DEF Tidy
    <2>2. Cardinality(below(x)) <= Cardinality(below(y))
        BY <1>1, <2>1, FS_Subset
    <2>3. Cardinality(below(x)) # Cardinality(below(y))
        BY <1>1, <2>1, FS_Subset
    <2> HIDE DEF below
    <2> QED
        BY <1>1, <2>2, <2>3
<1>4. \A x \in rs : Rank(x, rs) = Cardinality(below(x))
    BY DEF Rank
<1> HIDE DEF below
<1>5. r.seq <= q.seq => Rank(r, rs) <= Rank(q, rs)
    BY <1>2, <1>4
<1>6. r.seq < q.seq => Rank(r, rs) < Rank(q, rs)
    BY <1>3, <1>4
<1>7. Rank(r, rs) = Rank(q, rs) => r = q
    <2>1. CASE r.seq < q.seq
        BY <1>1, <1>4, <1>6, <2>1
    <2>2. CASE q.seq < r.seq
        BY <1>1, <1>3, <1>4, <2>2
    <2>3. CASE r.seq = q.seq
        BY <2>3 DEF Tidy
    <2> QED
        BY <2>1, <2>2, <2>3 DEF Tidy
<1> QED
    BY <1>5, <1>6, <1>7

(* Every place is taken, and by one row.                                    *)
LEMMA NthRow ==
    ASSUME NEW rs, Tidy(rs)
    PROVE  /\ \A i \in 1..Cardinality(rs) : Nth(rs, i) \in rs /\ Rank(Nth(rs, i), rs) = i
           /\ \A r \in rs : Nth(rs, Rank(r, rs)) = r
<1> DEFINE n == Cardinality(rs)
           f == [r \in rs |-> Rank(r, rs)]
<1>1. n \in Nat /\ IsFiniteSet(rs)
    BY FS_CardinalityType DEF Tidy
<1>2. f \in [rs -> 1..n]
    BY RankRange
<1>3. \A r, q \in rs : f[r] = f[q] => r = q
    BY RankOrder
<1>4. f \in Injection(rs, 1..n)
    BY <1>2, <1>3 DEF Injection, IsInjective
<1>5. IsFiniteSet(1..n) /\ Cardinality(1..n) = n
    BY <1>1, FS_Interval
<1>6. f \in Surjection(rs, 1..n)
    BY <1>4, <1>5, FS_Injection
<1>7. \A i \in 1..n : \E r \in rs : Rank(r, rs) = i
    BY <1>6 DEF Surjection
<1>8. \A i \in 1..n : Nth(rs, i) \in rs /\ Rank(Nth(rs, i), rs) = i
    BY <1>7 DEF Nth
<1>9. ASSUME NEW r \in rs
      PROVE  Nth(rs, Rank(r, rs)) = r
    <2>1. Rank(r, rs) \in 1..n
        BY RankRange
    <2>2. Nth(rs, Rank(r, rs)) \in rs /\ Rank(Nth(rs, Rank(r, rs)), rs) = Rank(r, rs)
        BY <1>8, <2>1
    <2> QED
        BY <2>2, RankOrder
<1> QED
    BY <1>8, <1>9

(* Rows that come after others keep their order behind them.                *)
LEMMA RankSplit ==
    ASSUME NEW low, NEW high, Tidy(low \cup high), \A a \in low, b \in high : a.seq < b.seq
    PROVE  /\ Cardinality(low \cup high) = Cardinality(low) + Cardinality(high)
           /\ \A a \in low : Rank(a, low \cup high) = Rank(a, low)
           /\ \A b \in high : Rank(b, low \cup high) = Cardinality(low) + Rank(b, high)
<1>0. \A a \in low, b \in high : a.seq \in Nat /\ b.seq \in Nat /\ a.seq < b.seq
    BY DEF Tidy
<1>1. Tidy(low) /\ Tidy(high) /\ Cardinality(low) \in Nat /\ Cardinality(high) \in Nat
    BY TidySubset
<1>2. low \cap high = {}
    BY <1>0
<1>3. ASSUME NEW xs \in SUBSET low, NEW ys \in SUBSET high
      PROVE  Cardinality(xs \cup ys) = Cardinality(xs) + Cardinality(ys)
    <2>1. IsFiniteSet(xs) /\ IsFiniteSet(ys) /\ Cardinality(xs) \in Nat /\ Cardinality(ys) \in Nat
        BY <1>1, FS_Subset, FS_CardinalityType DEF Tidy
    <2>2. xs \cap ys = {} /\ Cardinality({}) = 0
        BY <1>2, FS_EmptySet
    <2> QED
        <3>1. Cardinality(xs \cup ys) = Cardinality(xs) + Cardinality(ys) - Cardinality(xs \cap ys)
            BY <2>1, FS_Union
        <3>2. Cardinality(xs \cap ys) = 0
            BY <2>2
        <3> DEFINE m == Cardinality(xs)
                   n == Cardinality(ys)
        <3>3. m \in Nat /\ n \in Nat
            BY <2>1
        <3>4. Cardinality(xs \cup ys) = m + n - 0
            BY <3>1, <3>2
        <3> HIDE DEF m, n
        <3>5. m + n - 0 = m + n
            BY <3>3
        <3> QED
            BY <3>4, <3>5 DEF m, n
<1>4. Cardinality(low \cup high) = Cardinality(low) + Cardinality(high)
    BY <1>3
<1>5. ASSUME NEW a \in low
      PROVE  Rank(a, low \cup high) = Rank(a, low)
    <2>1. {q \in low \cup high : q.seq <= a.seq} = {q \in low : q.seq <= a.seq}
        <3>1. \A q \in high : ~(q.seq <= a.seq)
            BY <1>0
        <3> QED
            BY <3>1
    <2> QED
        BY <2>1 DEF Rank
<1>6. ASSUME NEW b \in high
      PROVE  Rank(b, low \cup high) = Cardinality(low) + Rank(b, high)
    <2>1. {q \in low \cup high : q.seq <= b.seq} = low \cup {q \in high : q.seq <= b.seq}
        <3>1. \A q \in low : q.seq <= b.seq
            BY <1>0
        <3> QED
            BY <3>1
    <2>2. Cardinality(low \cup {q \in high : q.seq <= b.seq}) =
            Cardinality(low) + Cardinality({q \in high : q.seq <= b.seq})
        BY <1>3
    <2> QED
        BY <2>1, <2>2 DEF Rank
<1> QED
    BY <1>4, <1>5, <1>6

LEMMA NthLow ==
    ASSUME NEW low, NEW high, Tidy(low \cup high), \A a \in low, b \in high : a.seq < b.seq,
           NEW i \in 1..Cardinality(low)
    PROVE  Nth(low \cup high, i) = Nth(low, i)
<1>1. Tidy(low) /\ Cardinality(low) \in Nat
    BY TidySubset
<1>2. Nth(low, i) \in low /\ Rank(Nth(low, i), low) = i
    BY <1>1, NthRow
<1>3. Rank(Nth(low, i), low \cup high) = i /\ Nth(low, i) \in low \cup high
    BY <1>2, RankSplit
<1> QED
    BY <1>3, NthRow

LEMMA NthHigh ==
    ASSUME NEW low, NEW high, Tidy(low \cup high), \A a \in low, b \in high : a.seq < b.seq,
           NEW i \in 1..Cardinality(high), NEW k, k = Cardinality(low) + i
    PROVE  Nth(low \cup high, k) = Nth(high, i)
<1>1. Tidy(high) /\ Cardinality(high) \in Nat
    BY TidySubset
<1>2. Nth(high, i) \in high /\ Rank(Nth(high, i), high) = i
    BY <1>1, NthRow
<1>3. PICK b \in high : b = Nth(high, i)
    BY <1>2
<1>4. Rank(b, low \cup high) = Cardinality(low) + Rank(b, high)
    BY RankSplit
<1>5. Rank(b, low \cup high) = k /\ b \in low \cup high
    BY <1>2, <1>3, <1>4
<1> QED
    BY <1>3, <1>5, NthRow

(***************************************************************************)
(* The text and the pages                                                   *)
(***************************************************************************)

LEMMA TextType ==
    ASSUME NEW rs, Tidy(rs), NEW P, \A r \in AnswerRows(rs) : r.piece \in P
    PROVE  /\ TextOf(rs) \in Seq(P) /\ Len(TextOf(rs)) = Cardinality(AnswerRows(rs))
           /\ Cardinality(AnswerRows(rs)) \in Nat
           /\ \A i \in 1..Cardinality(AnswerRows(rs)) : TextOf(rs)[i] = Nth(AnswerRows(rs), i).piece
           /\ \A r \in AnswerRows(rs) : \E i \in 1..Len(TextOf(rs)) : TextOf(rs)[i] = r.piece
<1> DEFINE answers == AnswerRows(rs)
           n == Cardinality(answers)
           f == [i \in 1..n |-> Nth(answers, i).piece]
<1>1. Tidy(answers) /\ n \in Nat
    BY TidySubset DEF AnswerRows
<1>2. TextOf(rs) = f
    BY DEF TextOf, Nth
<1>3. \A i \in 1..n : Nth(answers, i) \in answers
    BY <1>1, NthRow
<1> HIDE DEF n
<1>4. f \in Seq(P) /\ Len(f) = n
    BY <1>1, <1>3
<1>5. ASSUME NEW r \in answers
      PROVE  \E i \in 1..n : f[i] = r.piece
    <2>1. PICK i \in 1..n : i = Rank(r, answers)
        BY <1>1, RankRange DEF n
    <2>2. Nth(answers, i) = r
        BY <1>1, <2>1, NthRow
    <2> QED
        BY <2>1, <2>2
<1> QED
    BY <1>1, <1>2, <1>4, <1>5 DEF n

(* The text of rows that follow others is the rest of the text.             *)
LEMMA TextSplit ==
    ASSUME NEW low, NEW high, Tidy(low \cup high), \A a \in low, b \in high : a.seq < b.seq,
           NEW P, \A r \in AnswerRows(low \cup high) : r.piece \in P
    PROVE  TextOf(low \cup high) = TextOf(low) \o TextOf(high)
<1> DEFINE la == AnswerRows(low)
           ha == AnswerRows(high)
           m == Cardinality(la)
           n == Cardinality(ha)
           whole == TextOf(low \cup high)
           head == TextOf(low)
           tail == TextOf(high)
<1>1. AnswerRows(low \cup high) = la \cup ha /\ la \subseteq low /\ ha \subseteq high
    BY DEF AnswerRows
<1>2. Tidy(low) /\ Tidy(high) /\ Tidy(la \cup ha)
    BY <1>1, TidySubset
<1>3. \A a \in la, b \in ha : a.seq < b.seq
    BY <1>1
<1>4. (\A r \in la : r.piece \in P) /\ (\A r \in ha : r.piece \in P)
    BY <1>1
<1>5. /\ head \in Seq(P) /\ Len(head) = m /\ m \in Nat
      /\ \A i \in 1..m : head[i] = Nth(la, i).piece
    BY <1>2, <1>4, TextType
<1>6. /\ tail \in Seq(P) /\ Len(tail) = n /\ n \in Nat
      /\ \A i \in 1..n : tail[i] = Nth(ha, i).piece
    BY <1>2, <1>4, TextType
<1>7. Cardinality(la \cup ha) = m + n
    BY <1>2, <1>3, RankSplit
<1>8. /\ whole \in Seq(P) /\ Len(whole) = m + n
      /\ \A i \in 1..(m + n) : whole[i] = Nth(la \cup ha, i).piece
    <2>1. /\ whole \in Seq(P) /\ Len(whole) = Cardinality(AnswerRows(low \cup high))
          /\ \A i \in 1..Cardinality(AnswerRows(low \cup high)) :
               whole[i] = Nth(AnswerRows(low \cup high), i).piece
        <3>1. PICK all : all = low \cup high
            OBVIOUS
        <3> QED
            BY <3>1, TextType
    <2> QED
        BY <1>1, <1>7, <2>1
<1>9. /\ \A i \in 1..m : Nth(la \cup ha, i) = Nth(la, i)
      /\ \A i \in 1..n : Nth(la \cup ha, m + i) = Nth(ha, i)
    <2>1. \A i \in 1..m : Nth(la \cup ha, i) = Nth(la, i)
        BY <1>2, <1>3, NthLow
    <2>2. ASSUME NEW i \in 1..n, NEW k, k = m + i
          PROVE  Nth(la \cup ha, k) = Nth(ha, i)
        <3> HIDE DEF la, ha
        <3> QED
            BY <1>2, <1>3, <2>2, NthHigh
    <2> QED
        BY <2>1, <2>2
<1> HIDE DEF la, ha, m, n, whole, head, tail
<1>10. head \o tail \in Seq(P) /\ Len(head \o tail) = m + n
    BY <1>5, <1>6
<1>11. ASSUME NEW i \in 1..(m + n)
       PROVE  whole[i] = (head \o tail)[i]
    <2>1. CASE i \in 1..m
        <3>1. (head \o tail)[i] = head[i]
            BY <1>5, <1>6, <2>1
        <3> QED
            BY <1>5, <1>8, <1>9, <2>1, <3>1
    <2>2. CASE i \notin 1..m
        <3>1. PICK j \in 1..n : i = m + j
            <4>1. i - m \in 1..n /\ i = m + (i - m)
                BY <1>5, <1>6, <1>11, <2>2
            <4> QED
                BY <4>1
        <3>2. (head \o tail)[i] = tail[j]
            BY <1>5, <1>6, <1>11, <2>2, <3>1
        <3>3. Nth(la \cup ha, i) = Nth(ha, j)
            BY <1>9, <3>1
        <3> QED
            BY <1>6, <1>8, <1>11, <3>1, <3>2, <3>3
    <2> QED
        BY <2>1, <2>2
<1>12. whole = head \o tail
    BY <1>8, <1>10, <1>11
<1> QED
    BY <1>12 DEF whole, head, tail

(* Rows that are not empty have a last one.                                 *)
LEMMA LastOfRows ==
    ASSUME NEW rs, Tidy(rs), rs # {}
    PROVE  \E r \in rs : LastSequence(rs) = r.seq /\ \A q \in rs : q.seq <= r.seq
<1> DEFINE n == Cardinality(rs)
           r == Nth(rs, n)
           seqs == {q.seq : q \in rs}
<1>1. n \in Nat /\ n # 0 /\ IsFiniteSet(rs)
    BY FS_CardinalityType, FS_EmptySet DEF Tidy
<1>2. n \in 1..n
    BY <1>1
<1>3. r \in rs /\ Rank(r, rs) = n
    BY <1>2, NthRow
<1> HIDE DEF r
<1>4. {q \in rs : q.seq <= r.seq} \subseteq rs /\ Cardinality({q \in rs : q.seq <= r.seq}) = n
    BY <1>3 DEF Rank
<1>5. {q \in rs : q.seq <= r.seq} = rs
    BY <1>1, <1>4, FS_Subset
<1>6. \A q \in rs : q.seq <= r.seq
    BY <1>5
<1>7. r.seq \in seqs /\ \A y \in seqs : r.seq >= y
    BY <1>3, <1>6 DEF Tidy
<1>8. \A x \in seqs : (\A y \in seqs : x >= y) => x = r.seq
    <2>1. \A x \in seqs : x \in Nat
        BY DEF Tidy
    <2> QED
        <3> HIDE DEF seqs
        <3>1. r.seq \in Nat
            BY <1>7, <2>1
        <3>2. ASSUME NEW x \in seqs, \A y \in seqs : x >= y
              PROVE  x = r.seq
            <4>1. x >= r.seq /\ r.seq >= x /\ x \in Nat
                BY <1>7, <2>1, <3>2
            <4> QED
                BY <3>1, <4>1
        <3> QED
            BY <3>2
<1> HIDE DEF seqs
<1>9. Max(seqs) = r.seq
    BY <1>7, <1>8 DEF Max
<1>10. LastSequence(rs) = Max(seqs)
    BY DEF LastSequence, seqs
<1> QED
    BY <1>3, <1>6, <1>9, <1>10

(* A page is what lies between two cursors, and the last page is the rest.  *)
LEMMA PageIs ==
    ASSUME Tidy(rows), PageSize \in Nat, NEW at \in Nat, NEW bound \in Nat, at <= bound,
           \A r \in rows : r.seq <= bound, NEW to,
           to = IF Page(at) = {} THEN at ELSE LastSequence(Page(at))
    PROVE  /\ to \in Nat /\ at <= to /\ to <= bound
           /\ Page(at) = {r \in rows : at < r.seq /\ r.seq <= to}
           /\ ~HasMore(at) => \A r \in rows : r.seq <= to
<1> DEFINE later == After(at)
           page == Page(at)
<1>1. later \subseteq rows /\ page \subseteq later /\ page \subseteq rows
    BY DEF After, Page
<1>2. Tidy(later) /\ Tidy(page) /\ Cardinality(later) \in Nat
    BY <1>1, TidySubset
<1>3. \A r \in later : r \in page <=> Rank(r, later) <= PageSize
    BY DEF Page
<1>4. \A r \in rows : r \in later <=> r.seq > at
    BY DEF After
<1>5. \A r \in rows : r.seq \in Nat
    BY DEF Tidy
<1>6. ~HasMore(at) => later = page
    <2>1. SUFFICES ASSUME ~HasMore(at), NEW r \in later PROVE r \in page
        BY <1>1
    <2>2. Cardinality(later) <= PageSize
        BY <1>2, <2>1 DEF HasMore
    <2>3. Rank(r, later) \in 1..Cardinality(later)
        BY <1>2, RankRange
    <2>4. Rank(r, later) <= PageSize
        BY <1>2, <2>2, <2>3
    <2> QED
        BY <1>3, <2>4
<1> HIDE DEF later, page
<1>7. CASE page = {}
    <2>1. to = at
        BY <1>7 DEF page
    <2>2. page = {r \in rows : at < r.seq /\ r.seq <= to}
        BY <1>5, <1>7, <2>1
    <2>3. ~HasMore(at) => \A r \in rows : r.seq <= to
        BY <1>4, <1>5, <1>6, <1>7, <2>1
    <2> QED
        <3>1. to \in Nat /\ at <= to /\ to <= bound
            BY <2>1
        <3> QED
            BY <2>2, <2>3, <3>1 DEF page
<1>8. CASE page # {}
    <2>1. PICK l \in page : LastSequence(page) = l.seq /\ \A q \in page : q.seq <= l.seq
        BY <1>2, <1>8, LastOfRows
    <2>2. to = l.seq /\ l \in later /\ l \in rows
        BY <1>1, <1>8, <2>1 DEF page
    <2>3. to \in Nat /\ at <= to /\ to <= bound
        BY <1>4, <1>5, <2>2
    <2>4. ASSUME NEW r \in rows, at < r.seq, r.seq <= to
          PROVE  r \in page
        <3>1. r \in later
            BY <1>4, <1>5, <2>4
        <3>2. Rank(r, later) <= Rank(l, later)
            BY <1>2, <2>2, <2>4, <3>1, RankOrder
        <3>3. Rank(l, later) <= PageSize
            BY <1>3, <2>1, <2>2
        <3>4. Rank(r, later) \in 1..Cardinality(later) /\ Rank(l, later) \in 1..Cardinality(later)
            BY <1>2, <2>2, <3>1, RankRange
        <3>5. Rank(r, later) <= PageSize
            BY <1>2, <3>2, <3>3, <3>4
        <3> QED
            BY <1>3, <3>1, <3>5
    <2>5. page = {r \in rows : at < r.seq /\ r.seq <= to}
        BY <1>1, <1>4, <1>5, <2>1, <2>2, <2>4
    <2>6. ~HasMore(at) => \A r \in rows : r.seq <= to
        BY <1>4, <1>5, <1>6, <2>1, <2>2, <2>3
    <2> QED
        BY <2>3, <2>5, <2>6 DEF page
<1> QED
    BY <1>7, <1>8

(***************************************************************************)
(* The browser                                                              *)
(***************************************************************************)

AnswerPieces == Workers \X Nat

RowsInv == Tidy(rows) /\ \A r \in AnswerRows(rows) : r.piece \in AnswerPieces

(* The attempt whose answer is the turn's is done with its provider.        *)
AnswerInv ==
    turn.state = "completed" =>
      turn.answer \in Workers /\ work[turn.answer].pc \in {"announce", "ended"}

BrowserRow ==
    [pc : {"away", "drain", "status", "reconcile", "shown", "error"}, after : Nat, at : Nat,
     page : Nat, failures : Nat, polls : Nat, final : BOOLEAN, redone : BOOLEAN,
     got : Seq(AnswerPieces), displayed : Nat, shown : Owners]

Upto(rs, n) == {r \in rs : r.seq <= n}

Received(b, piece) == \E i \in 1..Len(b.got) : b.got[i] = piece

(* The browser has received what lies before its cursor; from the final     *)
(* drain on the turn is completed, and after it the browser has all of the  *)
(* answer's text.                                                           *)
BrowserOK(b, rs, t) ==
    /\ b.after <= b.at /\ b.at <= Cardinality(rs)
    /\ ~b.redone /\ b.pc # "error" => b.got = TextOf(Upto(rs, b.at))
    /\ b.pc # "error" => \A r \in AnswerRows(rs) : r.seq <= b.at => Received(b, r.piece)
    /\ b.final \/ b.pc \in {"reconcile", "shown"} => t.state = "completed"
    /\ b.pc \in {"reconcile", "shown"} =>
         \A r \in AnswerRows(rs) : r.piece[1] = t.answer => Received(b, r.piece)
    /\ b.pc = "shown" => b.shown = t.answer

BrowserInv ==
    /\ LiveInv /\ RowsInv /\ AnswerInv
    /\ br \in BrowserRow /\ BrowserOK(br, rows, turn)

(* What the rows of a step are: those that were there, and new ones with    *)
(* later numbers, whose text comes from an attempt with its provider.       *)
LEMMA RowsGrow ==
    ASSUME LiveInv, [Next]_vars
    PROVE  /\ rows \subseteq rows'
           /\ \A r \in rows' \ rows :
                /\ r.seq \in Nat /\ r.seq > Cardinality(rows)
                /\ r.channel = "answer" =>
                     \E w \in Workers : work[w].pc = "provider" /\ r.piece = <<w, work[w].s.sent + 1>>
           /\ \A r, q \in rows' \ rows : r.seq = q.seq => r = q
<1>1. CASE rows' = rows
    BY <1>1
<1>2. ASSUME NEW w \in Writers, LiveAppend(w), rows' # rows
      PROVE  /\ rows \subseteq rows'
             /\ \A r \in rows' \ rows :
                  /\ r.seq \in Nat /\ r.seq > Cardinality(rows)
                  /\ r.channel = "answer" =>
                       \E v \in Workers : work[v].pc = "provider" /\ r.piece = <<v, work[v].s.sent + 1>>
             /\ \A r, q \in rows' \ rows : r.seq = q.seq => r = q
    <2> DEFINE c == cursor[w]
               n == c.last + 1
               m == Cardinality(rows)
               a == [seq |-> n, channel |-> "activity", kind |-> "answer.started", piece |-> None]
               b == [seq |-> n + 1, channel |-> "answer", kind |-> c.item.kind, piece |-> c.item.piece]
               d == [seq |-> n, channel |-> c.item.channel, kind |-> c.item.kind, piece |-> c.item.piece]
    <2>1. rows' = rows \cup NewRows(c) /\ ~Refused(c) /\ c.pc = "holds"
        BY <1>2 DEF LiveAppend
    <2>2. CursorShape(c) /\ CursorOK(c, rows, turn, hist) /\ DeltaOK(w, c, work) /\ Numbered(rows)
        BY DEF LiveInv, LiveTypeOK, CursorsShape
    <2>3. m \in Nat /\ c.last \in Nat /\ c.last <= m /\ {r.seq : r \in rows} = 1..m
        BY <2>2, LastIsCount DEF CursorShape, CursorOK, Numbered
    <2>4. NewRows(c) = {a, b} \/ NewRows(c) = {d}
        BY DEF NewRows, Item
    <2>5. \E r \in NewRows(c) : r.seq = n
        <3>1. a.seq = n /\ d.seq = n
            OBVIOUS
        <3> HIDE DEF a, b, d
        <3> QED
            BY <2>4, <3>1
    <2>6. \A r \in NewRows(c) : r.seq \notin {q.seq : q \in rows}
        BY <2>1 DEF Refused
    <2>7. n \notin 1..m
        BY <2>3, <2>5, <2>6
    <2>8. c.last = m
        BY <2>3, <2>7
    <2>9. c.item.channel = "answer" =>
            \E v \in Workers : work[v].pc = "provider" /\ c.item.piece = <<v, work[v].s.sent + 1>>
        BY <2>1, <2>2 DEF DeltaOK, Item
    <2>10. NewRows(c) = {a, b} => c.item.channel = "answer"
        <3>1. b \in {a, b} /\ b.channel = "answer"
            OBVIOUS
        <3>2. CASE c.item.channel # "answer"
            <4>1. NewRows(c) = {d}
                BY <3>2 DEF NewRows
            <4>2. d.channel # "answer"
                BY <3>2
            <4> HIDE DEF a, b, d
            <4> QED
                BY <3>1, <4>1, <4>2
        <3> QED
            BY <3>2
    <2>11. /\ a.seq = n /\ b.seq = n + 1 /\ d.seq = n
           /\ a.channel = "activity" /\ d.channel = c.item.channel
           /\ b.piece = c.item.piece /\ d.piece = c.item.piece
        OBVIOUS
    <2>12. n \in Nat /\ n > m /\ n + 1 > m /\ n + 1 \in Nat /\ n # n + 1
        BY <2>3, <2>8
    <2> HIDE DEF a, b, c, d, m, n
    <2>13. \A r \in NewRows(c) : r.seq \in Nat /\ r.seq > m
        BY <2>4, <2>11, <2>12
    <2>14. \A r, q \in NewRows(c) : r.seq = q.seq => r = q
        BY <2>4, <2>11, <2>12
    <2>15. \A r \in NewRows(c) : r.channel = "answer" => c.item.channel = "answer" /\ r.piece = c.item.piece
        BY <2>4, <2>10, <2>11
    <2>16. rows' \ rows \subseteq NewRows(c)
        BY <2>1
    <2> QED
        BY <2>1, <2>9, <2>13, <2>14, <2>15, <2>16 DEF m
<1>3. rows' = rows \/ \E w \in Writers : LiveAppend(w)
    BY DEF Next, vars, LiveLock, Claim, AnnounceStart, Execute, ShowReasoning, StageReasoning, Delta,
       EmitDelta, EmitSummary, TurnCompleted, ProviderFails, Commit, AnnounceEnd, Fail, AnnounceFailure,
       Crash, Recover, CallFails, Drain, PollStatus, Present, Reconcile
<1> QED
    BY <1>1, <1>2, <1>3

LEMMA RowsStep ==
    ASSUME LiveInv, RowsInv, [Next]_vars
    PROVE  RowsInv'
<1>1. Numbered(rows) /\ Numbered(rows')
    BY StepLiveInv DEF LiveInv
<1>2. Cardinality(rows) \in Nat /\ \A r \in rows : r.seq \in Nat /\ r.seq <= Cardinality(rows)
    <2>1. \A r \in rows : r.seq \in 1..Cardinality(rows)
        BY <1>1 DEF Numbered
    <2>2. Cardinality(rows) \in Nat
        BY <1>1, LastIsCount
    <2> QED
        BY <2>1, <2>2
<1>3. \A r \in rows' \ rows : r.seq \in Nat /\ r.seq > Cardinality(rows)
    BY RowsGrow
<1>4. \A r \in rows' : r.seq \in Nat
    BY <1>2, <1>3
<1>5. ASSUME NEW r \in rows', NEW q \in rows', r.seq = q.seq
      PROVE  r = q
    <2>1. CASE r \in rows /\ q \in rows
        BY <1>5, <2>1 DEF RowsInv, Tidy
    <2>2. CASE r \in rows /\ q \notin rows
        BY <1>2, <1>3, <1>5, <2>2
    <2>3. CASE r \notin rows /\ q \in rows
        BY <1>2, <1>3, <1>5, <2>3
    <2>4. CASE r \notin rows /\ q \notin rows
        BY <1>5, <2>4, RowsGrow
    <2> QED
        BY <2>1, <2>2, <2>3, <2>4
<1>6. Tidy(rows')
    BY <1>1, <1>4, <1>5 DEF Tidy, Numbered
<1>7. ASSUME NEW r \in AnswerRows(rows')
      PROVE  r.piece \in AnswerPieces
    <2>1. CASE r \in rows
        BY <2>1 DEF RowsInv, AnswerRows
    <2>2. CASE r \notin rows
        <3>1. r \in rows' \ rows /\ r.channel = "answer"
            BY <2>2 DEF AnswerRows
        <3>2. PICK w \in Workers : r.piece = <<w, work[w].s.sent + 1>>
            BY <3>1, RowsGrow
        <3>3. work[w].s.sent + 1 \in Nat
            BY DEF LiveInv, LiveTypeOK, WorkRow, StreamRow
        <3> QED
            BY <3>2, <3>3 DEF AnswerPieces
    <2> QED
        BY <2>1, <2>2
<1> QED
    BY <1>6, <1>7 DEF RowsInv

(* A completed turn stays completed, with its answer.                       *)
LEMMA AnswerStep ==
    ASSUME LiveInv, AnswerInv, [Next]_vars
    PROVE  /\ AnswerInv'
           /\ turn.state = "completed" => turn'.state = "completed" /\ turn'.answer = turn.answer
<1>1. /\ LiveTypeOK /\ TurnShape(turn) /\ OwnerInv(turn)
      /\ \A w \in Workers : WorkOK(w, work[w], rows, turn)
    BY DEF LiveInv, LiveTypeOK
<1>2. PICK load \in Workloads : turn \in TurnRow(load)
    BY <1>1 DEF TurnShape
<1>3. work \in [Workers -> WorkRow]
    BY <1>1 DEF LiveTypeOK
<1> DEFINE Goal == /\ AnswerInv'
                   /\ turn.state = "completed" => turn'.state = "completed" /\ turn'.answer = turn.answer
(* A step that leaves the state and the answer, and every attempt that was  *)
(* at its end, as they are.                                                 *)
<1>4. ASSUME turn'.state = turn.state, turn'.answer = turn.answer,
             \A v \in Workers : work[v].pc \in {"announce", "ended"} =>
                                  work'[v].pc \in {"announce", "ended"}
      PROVE  Goal
    BY <1>4 DEF AnswerInv
<1>5. ASSUME turn.state # "completed", turn'.state # "completed"
      PROVE  Goal
    BY <1>5 DEF AnswerInv
<1>6. ASSUME NEW w \in Workers, NEW k, work' = [work EXCEPT ![w] = k],
             work[w].pc \in {"announce", "ended"} => k.pc = "ended"
      PROVE  \A v \in Workers : work[v].pc \in {"announce", "ended"} =>
                                  work'[v].pc \in {"announce", "ended"}
    <2> SUFFICES ASSUME NEW v \in Workers, work[v].pc \in {"announce", "ended"}
                 PROVE  work'[v].pc \in {"announce", "ended"}
        OBVIOUS
    <2>1. CASE v = w
        <3>1. work'[v] = k
            BY <1>3, <1>6, <2>1
        <3> QED
            BY <1>6, <2>1, <3>1
    <2>2. CASE v # w
        <3>1. work'[v] = work[v]
            BY <1>3, <1>6, <2>2
        <3> QED
            BY <3>1
    <2> QED
        BY <2>1, <2>2
<1>7. ASSUME NEW w \in Workers, NEW pc, work' = [work EXCEPT ![w].pc = pc],
             work[w].pc \in {"announce", "ended"} => pc = "ended"
      PROVE  \A v \in Workers : work[v].pc \in {"announce", "ended"} =>
                                  work'[v].pc \in {"announce", "ended"}
    <2> DEFINE k == [work[w] EXCEPT !.pc = pc]
    <2>1. k.pc = pc
        BY <1>3 DEF WorkRow
    <2>2. work' = [work EXCEPT ![w] = k]
        BY <1>7
    <2> HIDE DEF k
    <2> QED
        BY <1>6, <1>7, <2>1, <2>2
<1>8. ASSUME NEW w \in Workers, NEW type, AppendEvent(w, type)
      PROVE  turn'.state = turn.state /\ turn'.answer = turn.answer
    <2>1. CASE turn' = [turn EXCEPT !.ver = @ + 1]
        BY <1>2, <2>1 DEF TurnRow
    <2> QED
        BY <1>8, <2>1 DEF AppendEvent
<1> HIDE DEF Goal
<1>23. ASSUME turn' = turn, work' = work
       PROVE  Goal
    BY <1>4, <1>23
<1>9. ASSUME NEW w \in Writers, LiveLock(w)
      PROVE  Goal
    BY <1>23, <1>9 DEF LiveLock
<1>10. ASSUME NEW w \in Writers, LiveAppend(w)
       PROVE  Goal
    <2>1. turn' = turn
        BY <1>10 DEF LiveAppend
    <2>2. CASE w \in Workers
        <3>1. PICK ok : work' = [work EXCEPT ![w].s = AfterAppend(@, cursor[w].item.channel, ok)]
            BY <1>10, <2>2 DEF LiveAppend
        <3> DEFINE k == [work[w] EXCEPT !.s = AfterAppend(work[w].s, cursor[w].item.channel, ok)]
        <3>2. work' = [work EXCEPT ![w] = k]
            BY <3>1
        <3>3. k.pc = work[w].pc
            BY <1>3, <2>2 DEF WorkRow
        <3> HIDE DEF k
        <3>4. \A v \in Workers : work'[v].pc = work[v].pc
            BY <1>3, <2>2, <3>2, <3>3
        <3> QED
            BY <1>4, <2>1, <3>4
    <2>3. CASE w \notin Workers
        BY <1>4, <1>10, <2>1, <2>3 DEF LiveAppend
    <2> QED
        BY <2>2, <2>3
<1>11. ASSUME NEW w \in Workers, Claim(w)
       PROVE  Goal
    <2>1. turn.state = "queued" /\ turn'.state = "running"
        BY <1>2, <1>11 DEF Claim, TurnRow
    <2> QED
        BY <1>5, <2>1
<1>12. ASSUME NEW w \in Workers, AnnounceStart(w) \/ AnnounceEnd(w) \/ AnnounceFailure(w)
       PROVE  Goal
    <2>1. turn'.state = turn.state /\ turn'.answer = turn.answer
        BY <1>8, <1>12 DEF AnnounceStart, AnnounceEnd, AnnounceFailure
    <2>2. \/ work[w].pc = "claimed" /\ work' = [work EXCEPT ![w].pc = "execute"]
          \/ work' = [work EXCEPT ![w].pc = "ended"]
        BY <1>12 DEF AnnounceStart, AnnounceEnd, AnnounceFailure
    <2>3. \A v \in Workers : work[v].pc \in {"announce", "ended"} =>
                               work'[v].pc \in {"announce", "ended"}
        BY <1>7, <2>2
    <2> QED
        BY <1>4, <2>1, <2>3
<1>13. ASSUME NEW w \in Workers, Execute(w) \/ ShowReasoning(w)
       PROVE  Goal
    <2>1. turn' = turn /\ work[w].pc \in {"execute", "prepare"}
        BY <1>13 DEF Execute, ShowReasoning
    <2>2. \E k : work' = [work EXCEPT ![w] = k]
        BY <1>13 DEF Execute, ShowReasoning
    <2>3. PICK k : work' = [work EXCEPT ![w] = k]
        BY <2>2
    <2>4. \A v \in Workers : work[v].pc \in {"announce", "ended"} =>
                               work'[v].pc \in {"announce", "ended"}
        BY <1>6, <2>1, <2>3
    <2> QED
        BY <1>4, <2>1, <2>4
<1>14. ASSUME NEW w \in Workers, StageReasoning(w)
       PROVE  Goal
    <2>1. turn' = turn /\ work[w].pc = "stage"
        BY <1>14 DEF StageReasoning
    <2>2. PICK k : work' = [work EXCEPT ![w] = k]
        BY <1>14 DEF StageReasoning, StageEvent
    <2>3. \A v \in Workers : work[v].pc \in {"announce", "ended"} =>
                               work'[v].pc \in {"announce", "ended"}
        BY <1>6, <2>1, <2>2
    <2> QED
        BY <1>4, <2>1, <2>3
<1>15. ASSUME NEW w \in Workers, Delta(w) \/ TurnCompleted(w) \/ ProviderFails(w)
       PROVE  Goal
    <2>1. turn' = turn /\ work[w].pc = "provider"
        BY <1>15 DEF Delta, TurnCompleted, ProviderFails, InProvider
    <2>2. PICK k : work' = [work EXCEPT ![w] = k]
        BY <1>15 DEF Delta, TurnCompleted, ProviderFails
    <2>3. \A v \in Workers : work[v].pc \in {"announce", "ended"} =>
                               work'[v].pc \in {"announce", "ended"}
        BY <1>6, <2>1, <2>2
    <2> QED
        BY <1>4, <2>1, <2>3
<1>16. ASSUME NEW w \in Workers, EmitDelta(w) \/ EmitSummary(w)
       PROVE  Goal
    BY <1>4, <1>16 DEF EmitDelta, EmitSummary
<1>17. ASSUME NEW w \in Workers, Commit(w)
       PROVE  Goal
    <2>1. work[w].pc = "decided"
        BY <1>17 DEF Commit
    <2>2. CASE turn.ver = work[w].base
        <3>1. turn.state = "running"
            BY <1>1, <2>1, <2>2 DEF WorkOK
        <3>2. turn'.state = "completed" /\ turn'.answer = w
            BY <1>2, <1>17, <2>2 DEF Commit, TurnRow
        <3>3. work'[w].pc = "announce"
            <4>1. work' = [work EXCEPT ![w] = [work[w] EXCEPT !.pc = "announce", !.staged = <<>>]]
                BY <1>17, <2>2 DEF Commit
            <4> QED
                BY <1>3, <4>1 DEF WorkRow
        <3> QED
            BY <3>1, <3>2, <3>3 DEF Goal, AnswerInv
    <2>3. CASE turn.ver # work[w].base
        <3>1. turn' = turn
            BY <1>17, <2>3 DEF Commit
        <3>2. PICK k : work' = [work EXCEPT ![w] = k]
            BY <1>17, <2>3 DEF Commit
        <3>3. \A v \in Workers : work[v].pc \in {"announce", "ended"} =>
                                   work'[v].pc \in {"announce", "ended"}
            BY <1>6, <2>1, <3>2
        <3> QED
            BY <1>4, <3>1, <3>3
    <2> QED
        BY <2>2, <2>3
<1>18. ASSUME NEW w \in Workers, Fail(w)
       PROVE  Goal
    <2>1. CASE turn.owner = w
        <3>1. turn.state = "running"
            BY <1>1, <2>1, StreamAssumption DEF OwnerInv
        <3>2. turn'.state \in {"queued", "failed"}
            BY <1>2, <1>18, <2>1 DEF Fail, TurnRow
        <3> QED
            BY <1>5, <3>1, <3>2
    <2>2. CASE turn.owner # w
        <3>1. turn' = turn /\ work[w].pc = "failing" /\ work' = [work EXCEPT ![w].pc = "ended"]
            BY <1>18, <2>2 DEF Fail
        <3> QED
            BY <1>4, <1>7, <3>1
    <2> QED
        BY <2>1, <2>2
<1>19. ASSUME NEW w \in Workers, Crash(w)
       PROVE  Goal
    <2>1. turn' = turn /\ work' = [work EXCEPT ![w] = [NoWork EXCEPT !.pc = "ended"]]
        BY <1>19 DEF Crash
    <2>2. [NoWork EXCEPT !.pc = "ended"].pc = "ended"
        BY DEF NoWork
    <2>3. \A v \in Workers : work[v].pc \in {"announce", "ended"} =>
                               work'[v].pc \in {"announce", "ended"}
        BY <1>6, <2>1, <2>2
    <2> QED
        BY <1>4, <2>1, <2>3
<1>20. ASSUME Recover
       PROVE  Goal
    <2>1. turn.state = "running" /\ turn'.state \in {"queued", "failed"}
        <3>1. CASE turn.claims < turn.max
            BY <1>2, <1>20, <3>1 DEF Recover, TurnRow
        <3>2. CASE ~(turn.claims < turn.max)
            BY <1>2, <1>20, <3>2 DEF Recover, TurnRow
        <3> QED
            BY <1>20, <3>1, <3>2 DEF Recover
    <2> QED
        BY <1>5, <2>1
<1>21. ASSUME CallFails \/ Drain \/ PollStatus \/ Present \/ Reconcile \/ UNCHANGED vars
       PROVE  Goal
    <2>1. turn' = turn /\ work' = work
        BY <1>21 DEF CallFails, Drain, PollStatus, Present, Reconcile, vars
    <2> QED
        BY <1>23, <2>1
<1>22. Goal
    BY <1>9, <1>10, <1>11, <1>12, <1>13, <1>14, <1>15, <1>16, <1>17, <1>18, <1>19, <1>20, <1>21 DEF Next
<1> QED
    BY <1>22 DEF Goal

(* Rows that arrive change nothing of what the browser has been told: they  *)
(* lie past its cursor, and none of them is the answer's once it is decided.*)
LEMMA WorldStep ==
    ASSUME BrowserInv, [Next]_vars
    PROVE  BrowserOK(br, rows', turn')
<1>1. LiveInv /\ RowsInv /\ AnswerInv /\ br \in BrowserRow /\ BrowserOK(br, rows, turn)
    BY DEF BrowserInv
<1>2. RowsInv' /\ IsFiniteSet(rows) /\ IsFiniteSet(rows')
    BY <1>1, RowsStep DEF RowsInv, Tidy
<1>3. rows \subseteq rows' /\ \A r \in rows' \ rows : r.seq \in Nat /\ r.seq > Cardinality(rows)
    BY <1>1, RowsGrow
<1>4. turn.state = "completed" => turn'.state = "completed" /\ turn'.answer = turn.answer
    BY <1>1, AnswerStep
<1> DEFINE m == Cardinality(rows)
           n == Cardinality(rows')
<1>5. m \in Nat /\ n \in Nat /\ m <= n
    BY <1>2, <1>3, FS_Subset, FS_CardinalityType
<1>6. br.after \in Nat /\ br.at \in Nat /\ br.after <= br.at /\ br.at <= m
    BY <1>1 DEF BrowserOK, BrowserRow
<1>7. \A r \in rows' \ rows : r.seq > m /\ r.seq \in Nat
    BY <1>3
<1> HIDE DEF m, n
<1>8. \A r \in rows' : r.seq <= br.at => r \in rows
    BY <1>5, <1>6, <1>7
<1>9. Upto(rows', br.at) = Upto(rows, br.at)
    BY <1>3, <1>8 DEF Upto
<1>10. br.after <= br.at /\ br.at <= Cardinality(rows')
    BY <1>5, <1>6 DEF n
<1>11. ~br.redone /\ br.pc # "error" => br.got = TextOf(Upto(rows', br.at))
    BY <1>1, <1>9 DEF BrowserOK
<1>12. br.pc # "error" => \A r \in AnswerRows(rows') : r.seq <= br.at => Received(br, r.piece)
    BY <1>1, <1>8 DEF BrowserOK, AnswerRows
<1>13. br.final \/ br.pc \in {"reconcile", "shown"} => turn'.state = "completed"
    BY <1>1, <1>4 DEF BrowserOK
<1>14. ASSUME br.pc \in {"reconcile", "shown"}, NEW r \in AnswerRows(rows'), r.piece[1] = turn'.answer
       PROVE  Received(br, r.piece)
    <2>1. turn.state = "completed" /\ turn'.answer = turn.answer
        BY <1>1, <1>4, <1>14 DEF BrowserOK
    <2>2. CASE r \in rows
        BY <1>1, <1>14, <2>1, <2>2 DEF BrowserOK, AnswerRows
    <2>3. CASE r \notin rows
        <3>1. r \in rows' \ rows /\ r.channel = "answer"
            BY <2>3 DEF AnswerRows
        <3>2. PICK w \in Workers : work[w].pc = "provider" /\ r.piece = <<w, work[w].s.sent + 1>>
            BY <1>1, <3>1, RowsGrow
        <3>3. w = turn.answer
            BY <1>14, <2>1, <3>2
        <3>4. work[turn.answer].pc \in {"announce", "ended"}
            BY <1>1, <2>1 DEF AnswerInv
        <3> QED
            BY <3>2, <3>3, <3>4
    <2> QED
        BY <2>2, <2>3
<1>15. br.pc = "shown" => br.shown = turn'.answer
    BY <1>1, <1>4 DEF BrowserOK
<1> QED
    BY <1>10, <1>11, <1>12, <1>13, <1>14, <1>15 DEF BrowserOK

(* A browser that goes on from where it is, with what it has received.      *)
LEMMA SameText ==
    ASSUME NEW b, NEW c, NEW rs, NEW t, BrowserOK(b, rs, t), b \in BrowserRow, c \in BrowserRow,
           c.got = b.got, c.redone = b.redone, c.after = b.after, c.at = b.at,
           b.pc # "error" \/ c.pc = "error",
           c.final \/ c.pc \in {"reconcile", "shown"} => t.state = "completed",
           c.pc \in {"reconcile", "shown"} => b.pc \in {"reconcile", "shown"},
           c.pc = "shown" => c.shown = t.answer
    PROVE  BrowserOK(c, rs, t)
<1>1. \A p : Received(b, p) <=> Received(c, p)
    BY DEF Received
<1> QED
    BY <1>1 DEF BrowserOK

(* A failed call: the next poll starts at the cursor of the last drain that *)
(* ended, which lies before what has been received.                         *)
LEMMA CallFailsStep ==
    ASSUME BrowserInv, CallFails
    PROVE  br' \in BrowserRow /\ BrowserOK(br', rows, turn)
<1>1. br \in BrowserRow /\ BrowserOK(br, rows, turn) /\ Cardinality(rows) \in Nat
    BY FS_CardinalityType DEF BrowserInv, RowsInv, Tidy
<1>2. br.pc \in {"drain", "status"} /\ br' = Failed
    BY DEF CallFails
<1>3. CASE br' = [br EXCEPT !.pc = "error"]
    <2>1. br' \in BrowserRow
        BY <1>1, <1>3 DEF BrowserRow
    <2>2. /\ br'.got = br.got /\ br'.redone = br.redone /\ br'.after = br.after /\ br'.at = br.at
          /\ br'.pc = "error" /\ br'.final = br.final
        BY <1>1, <1>3 DEF BrowserRow
    <2>3. br.final => turn.state = "completed"
        BY <1>1 DEF BrowserOK
    <2> QED
        BY <1>1, <2>1, <2>2, <2>3, SameText
<1>4. CASE br' = [br EXCEPT !.failures = @ + 1, !.polls = @ + 1, !.pc = "drain", !.at = br.after,
                            !.page = 1, !.final = FALSE, !.redone = br.redone \/ br.at # br.after]
    <2>1. (br.redone \/ br.at # br.after) \in BOOLEAN
        OBVIOUS
    <2>2. PICK redone \in BOOLEAN : redone = (br.redone \/ br.at # br.after)
        BY <2>1
    <2>10. br.failures + 1 \in Nat /\ br.polls + 1 \in Nat /\ br.after \in Nat
        BY <1>1 DEF BrowserRow
    <2>11. PICK f \in Nat, p \in Nat, to \in Nat :
             f = br.failures + 1 /\ p = br.polls + 1 /\ to = br.after
        BY <2>10
    <2>3. br' = [br EXCEPT !.failures = f, !.polls = p, !.pc = "drain", !.at = to,
                           !.page = 1, !.final = FALSE, !.redone = redone]
        BY <1>4, <2>2, <2>11
    <2>4. br' \in BrowserRow
        BY <1>1, <2>3 DEF BrowserRow
    <2>5. /\ br'.got = br.got /\ br'.redone = redone /\ br'.after = br.after /\ br'.at = br.after
          /\ br'.pc = "drain" /\ br'.final = FALSE
        BY <1>1, <2>3, <2>11 DEF BrowserRow
    <2>6. br.after \in Nat /\ br.at \in Nat /\ br.after <= br.at /\ br.at <= Cardinality(rows)
        BY <1>1 DEF BrowserOK, BrowserRow
    <2>7. br'.after <= br'.at /\ br'.at <= Cardinality(rows)
        BY <1>1, <2>5, <2>6
    <2>8. ~br'.redone => br'.got = TextOf(Upto(rows, br'.at))
        BY <1>1, <1>2, <2>2, <2>5 DEF BrowserOK
    <2>9. ASSUME NEW r \in AnswerRows(rows), r.seq <= br'.at
          PROVE  Received(br', r.piece)
        <3>1. r.seq \in Nat
            BY DEF BrowserInv, RowsInv, Tidy, AnswerRows
        <3>2. r.seq <= br.at
            BY <2>5, <2>6, <2>9, <3>1
        <3>3. Received(br, r.piece)
            BY <1>1, <1>2, <3>2 DEF BrowserOK
        <3> QED
            BY <2>5, <3>3 DEF Received
    <2> QED
        BY <2>4, <2>5, <2>7, <2>8, <2>9 DEF BrowserOK
<1> QED
    BY <1>2, <1>3, <1>4 DEF Failed

(* The answer to a poll: only a completed turn is drained once more.        *)
LEMMA PollStatusStep ==
    ASSUME BrowserInv, PollStatus
    PROVE  br' \in BrowserRow /\ BrowserOK(br', rows, turn)
<1>1. br \in BrowserRow /\ BrowserOK(br, rows, turn)
    BY DEF BrowserInv
<1>2. br.pc = "status" /\ br' = AfterStatus(br, turn.state)
    BY DEF PollStatus
<1>3. \/ turn.state = "completed" /\ br' = [br EXCEPT !.pc = "drain", !.final = TRUE, !.failures = 0]
      \/ br' = [br EXCEPT !.pc = "error"]
      \/ br' = [br EXCEPT !.pc = "drain", !.polls = @ + 1, !.failures = 0]
    BY <1>2 DEF AfterStatus
<1>4. br' \in BrowserRow
    <2>1. br.polls + 1 \in Nat
        BY <1>1 DEF BrowserRow
    <2>2. PICK p \in Nat : p = br.polls + 1
        BY <2>1
    <2>3. CASE br' = [br EXCEPT !.pc = "drain", !.final = TRUE, !.failures = 0]
        BY <1>1, <2>3 DEF BrowserRow
    <2>4. CASE br' = [br EXCEPT !.pc = "error"]
        BY <1>1, <2>4 DEF BrowserRow
    <2>5. ASSUME br' = [br EXCEPT !.pc = "drain", !.polls = p, !.failures = 0]
          PROVE  br' \in BrowserRow
        BY <1>1, <2>5 DEF BrowserRow
    <2> QED
        BY <1>3, <2>2, <2>3, <2>4, <2>5
<1>5. /\ br'.got = br.got /\ br'.redone = br.redone /\ br'.after = br.after /\ br'.at = br.at
      /\ br'.pc \in {"drain", "error"}
      /\ br'.final => br.final \/ turn.state = "completed"
    BY <1>1, <1>3 DEF BrowserRow
<1>6. br.final => turn.state = "completed"
    BY <1>1 DEF BrowserOK
<1> QED
    BY <1>1, <1>2, <1>4, <1>5, <1>6, SameText

LEMMA PresentStep ==
    ASSUME BrowserInv, Present
    PROVE  br' \in BrowserRow /\ BrowserOK(br', rows, turn)
<1>1. br \in BrowserRow /\ BrowserOK(br, rows, turn)
    BY DEF BrowserInv
<1>2. br' = [br EXCEPT !.displayed = Len(br.got)] /\ br.pc \notin {"error", "shown"}
    BY DEF Present
<1>3. Len(br.got) \in Nat
    BY <1>1 DEF BrowserRow
<1>4. PICK n \in Nat : n = Len(br.got)
    BY <1>3
<1>5. br' = [br EXCEPT !.displayed = n]
    BY <1>2, <1>4
<1>6. br' \in BrowserRow
    BY <1>1, <1>5 DEF BrowserRow
<1>7. /\ br'.got = br.got /\ br'.redone = br.redone /\ br'.after = br.after /\ br'.at = br.at
      /\ br'.pc = br.pc /\ br'.final = br.final
    BY <1>1, <1>5 DEF BrowserRow
<1>8. br.final \/ br.pc \in {"reconcile", "shown"} => turn.state = "completed"
    BY <1>1 DEF BrowserOK
<1> QED
    BY <1>1, <1>2, <1>6, <1>7, <1>8, SameText

(* The message shown is the turn's answer.                                  *)
LEMMA ReconcileStep ==
    ASSUME BrowserInv, Reconcile
    PROVE  br' \in BrowserRow /\ BrowserOK(br', rows, turn)
<1>1. br \in BrowserRow /\ BrowserOK(br, rows, turn) /\ AnswerInv
    BY DEF BrowserInv
<1>2. br.pc = "reconcile" /\ br' = [br EXCEPT !.pc = "shown", !.shown = turn.answer]
    BY DEF Reconcile
<1>3. turn.state = "completed"
    BY <1>1, <1>2 DEF BrowserOK
<1>4. turn.answer \in Owners
    BY <1>1, <1>3 DEF AnswerInv, Owners
<1>5. br' \in BrowserRow
    BY <1>1, <1>2, <1>4 DEF BrowserRow
<1>6. /\ br'.got = br.got /\ br'.redone = br.redone /\ br'.after = br.after /\ br'.at = br.at
      /\ br'.pc = "shown" /\ br'.shown = turn.answer
    BY <1>1, <1>2 DEF BrowserRow
<1> QED
    BY <1>1, <1>2, <1>3, <1>5, <1>6, SameText

Has(s, x) == \E i \in 1..Len(s) : s[i] = x

(* Every element of either of two sequences is one of their concatenation.  *)
LEMMA ConcatHas ==
    ASSUME NEW P, NEW s \in Seq(P), NEW t \in Seq(P), NEW x
    PROVE  /\ s \o t \in Seq(P)
           /\ Has(s, x) => Has(s \o t, x)
           /\ Has(t, x) => Has(s \o t, x)
<1>1. s \o t \in Seq(P) /\ Len(s \o t) = Len(s) + Len(t) /\ Len(s) \in Nat /\ Len(t) \in Nat
    OBVIOUS
<1>2. ASSUME NEW i \in 1..Len(s), s[i] = x
      PROVE  \E j \in 1..Len(s \o t) : (s \o t)[j] = x
    <2>1. (s \o t)[i] = s[i] /\ i \in 1..Len(s \o t)
        BY <1>1
    <2> QED
        BY <1>2, <2>1
<1>3. ASSUME NEW i \in 1..Len(t), t[i] = x
      PROVE  \E j \in 1..Len(s \o t) : (s \o t)[j] = x
    <2>1. Len(s) + i \in 1..Len(s \o t)
        BY <1>1
    <2>2. (s \o t)[Len(s) + i] = t[i]
        BY <1>1, <2>1
    <2> QED
        BY <1>3, <2>1, <2>2
<1> QED
    BY <1>1, <1>2, <1>3 DEF Has

(* One page: what the browser has is what lies before the new cursor.       *)
LEMMA DrainStep ==
    ASSUME BrowserInv, Drain
    PROVE  br' \in BrowserRow /\ BrowserOK(br', rows, turn)
<1> DEFINE at == br.at
           page == Page(at)
           to == IF page = {} THEN at ELSE LastSequence(page)
           got == br.got \o TextOf(page)
           more == HasMore(at)
<1>1. /\ br \in BrowserRow /\ BrowserOK(br, rows, turn) /\ Tidy(rows) /\ Numbered(rows)
      /\ \A r \in AnswerRows(rows) : r.piece \in AnswerPieces
    BY DEF BrowserInv, RowsInv, LiveInv
<1>2. Cardinality(rows) \in Nat /\ \A r \in rows : r.seq \in Nat /\ r.seq <= Cardinality(rows)
    <2>1. \A r \in rows : r.seq \in 1..Cardinality(rows)
        BY <1>1 DEF Numbered
    <2>2. Cardinality(rows) \in Nat
        BY <1>1, LastIsCount
    <2> QED
        BY <2>1, <2>2
<1>3. br.after \in Nat /\ at \in Nat /\ br.after <= at /\ at <= Cardinality(rows)
    BY <1>1 DEF BrowserRow, BrowserOK
<1>4. br.pc = "drain"
    BY DEF Drain
<1>5. \/ br' = [br EXCEPT !.pc = "error"]
      \/ /\ ~more
         /\ br' = [br EXCEPT !.got = got, !.at = to, !.after = to, !.page = 1,
                             !.pc = IF br.final THEN "reconcile" ELSE "status"]
      \/ br' = [br EXCEPT !.got = got, !.at = to, !.page = @ + 1]
      \/ br' = [br EXCEPT !.got = got, !.pc = "error"]
    BY DEF Drain
<1>6. /\ to \in Nat /\ at <= to /\ to <= Cardinality(rows)
      /\ page = {r \in rows : at < r.seq /\ r.seq <= to}
      /\ ~more => \A r \in rows : r.seq <= to
    <2>1. PICK bound \in Nat : bound = Cardinality(rows)
        BY <1>2
    <2>2. PICK n \in Nat : n = br.at
        BY <1>3
    <2>3. PICK m : m = IF Page(n) = {} THEN n ELSE LastSequence(Page(n))
        OBVIOUS
    <2>4. /\ m \in Nat /\ n <= m /\ m <= bound
          /\ Page(n) = {r \in rows : n < r.seq /\ r.seq <= m}
          /\ ~HasMore(n) => \A r \in rows : r.seq <= m
        BY <1>1, <1>2, <1>3, <2>1, <2>2, <2>3, PageIs, StreamAssumption
    <2> QED
        BY <2>1, <2>2, <2>3, <2>4
<1> HIDE DEF page, to, more
<1>7. Tidy(page) /\ \A r \in AnswerRows(page) : r.piece \in AnswerPieces
    BY <1>1, <1>6, TidySubset DEF AnswerRows
<1>8. /\ TextOf(page) \in Seq(AnswerPieces)
      /\ \A r \in AnswerRows(page) : \E i \in 1..Len(TextOf(page)) : TextOf(page)[i] = r.piece
    BY <1>7, TextType
<1>9. br.got \in Seq(AnswerPieces)
    BY <1>1 DEF BrowserRow
<1>10. got \in Seq(AnswerPieces)
    BY <1>8, <1>9, ConcatHas
<1>11. \A p : Received(br, p) => Has(got, p)
    BY <1>8, <1>9, ConcatHas DEF Received, Has
<1>12. \A r \in AnswerRows(page) : Has(got, r.piece)
    <2>1. TAKE r \in AnswerRows(page)
    <2>2. Has(TextOf(page), r.piece)
        BY <1>8 DEF Has
    <2> QED
        BY <1>8, <1>9, <2>2, ConcatHas
<1>13. Upto(rows, to) = Upto(rows, at) \cup page
    <2> HIDE DEF at
    <2> QED
        BY <1>2, <1>3, <1>6 DEF Upto
<1>14. TextOf(Upto(rows, to)) = TextOf(Upto(rows, at)) \o TextOf(page)
    <2> DEFINE low == Upto(rows, at)
    <2>1. low \cup page \subseteq rows
        BY <1>6 DEF Upto
    <2>2. Tidy(low \cup page)
        BY <1>1, <2>1, TidySubset
    <2>3. \A r \in AnswerRows(low \cup page) : r.piece \in AnswerPieces
        BY <1>1, <2>1 DEF AnswerRows
    <2>4. \A a \in low, b \in page : a.seq < b.seq
        <3> HIDE DEF at
        <3> QED
            BY <1>2, <1>3, <1>6 DEF Upto
    <2> HIDE DEF low
    <2>5. TextOf(low \cup page) = TextOf(low) \o TextOf(page)
        BY <2>2, <2>3, <2>4, TextSplit
    <2> QED
        BY <1>13, <2>5 DEF low
<1>15. ~br.redone => got = TextOf(Upto(rows, to))
    BY <1>1, <1>4, <1>14 DEF BrowserOK
<1>16. ASSUME NEW r \in AnswerRows(rows), r.seq <= to
       PROVE  Has(got, r.piece)
    <2>1. r \in rows /\ r.seq \in Nat
        BY <1>2 DEF AnswerRows
    <2>2. CASE r.seq <= at
        <3>1. Received(br, r.piece)
            BY <1>1, <1>4, <2>2 DEF BrowserOK
        <3> QED
            BY <1>11, <3>1
    <2>3. CASE ~(r.seq <= at)
        <3>1. r \in AnswerRows(page)
            <4> HIDE DEF at
            <4> QED
                BY <1>3, <1>6, <1>16, <2>1, <2>3 DEF AnswerRows
        <3> QED
            BY <1>12, <3>1
    <2> QED
        BY <2>2, <2>3
<1>17. br.final => turn.state = "completed"
    BY <1>1 DEF BrowserOK
<1> HIDE DEF got
<1>18. CASE br' = [br EXCEPT !.pc = "error"]
    <2>1. br' \in BrowserRow
        BY <1>1, <1>18 DEF BrowserRow
    <2>2. /\ br'.got = br.got /\ br'.redone = br.redone /\ br'.after = br.after /\ br'.at = br.at
          /\ br'.pc = "error" /\ br'.final = br.final
        BY <1>1, <1>18 DEF BrowserRow
    <2> QED
        BY <1>1, <1>17, <2>1, <2>2, SameText
<1>19. CASE br' = [br EXCEPT !.got = got, !.pc = "error"]
    <2>1. br' \in BrowserRow
        BY <1>1, <1>10, <1>19 DEF BrowserRow
    <2>2. br'.after = br.after /\ br'.at = br.at /\ br'.pc = "error" /\ br'.final = br.final
        BY <1>1, <1>19 DEF BrowserRow
    <2> QED
        BY <1>3, <1>17, <2>1, <2>2 DEF BrowserOK
<1>20. CASE br' = [br EXCEPT !.got = got, !.at = to, !.page = @ + 1]
    <2>1. br.page + 1 \in Nat
        BY <1>1 DEF BrowserRow
    <2>2. PICK p \in Nat : p = br.page + 1
        BY <2>1
    <2>3. br' = [br EXCEPT !.got = got, !.at = to, !.page = p]
        BY <1>20, <2>2
    <2>4. br' \in BrowserRow
        BY <1>1, <1>6, <1>10, <2>3 DEF BrowserRow
    <2>5. /\ br'.after = br.after /\ br'.at = to /\ br'.pc = "drain" /\ br'.final = br.final
          /\ br'.got = got /\ br'.redone = br.redone
        BY <1>1, <1>4, <2>3 DEF BrowserRow
    <2>6. br'.after <= br'.at /\ br'.at <= Cardinality(rows)
        BY <1>2, <1>3, <1>6, <2>5
    <2>7. \A r \in AnswerRows(rows) : r.seq <= br'.at => Received(br', r.piece)
        BY <1>16, <2>5 DEF Received, Has
    <2> QED
        BY <1>15, <1>17, <2>4, <2>5, <2>6, <2>7 DEF BrowserOK
<1>21. CASE /\ ~more
            /\ br' = [br EXCEPT !.got = got, !.at = to, !.after = to, !.page = 1,
                                !.pc = IF br.final THEN "reconcile" ELSE "status"]
    <2>1. PICK pc \in {"reconcile", "status"} : pc = IF br.final THEN "reconcile" ELSE "status"
        OBVIOUS
    <2>2. br' = [br EXCEPT !.got = got, !.at = to, !.after = to, !.page = 1, !.pc = pc]
        BY <1>21, <2>1
    <2>3. br' \in BrowserRow
        BY <1>1, <1>6, <1>10, <2>2 DEF BrowserRow
    <2>4. /\ br'.after = to /\ br'.at = to /\ br'.pc = pc /\ br'.final = br.final
          /\ br'.got = got /\ br'.redone = br.redone
        BY <1>1, <2>2 DEF BrowserRow
    <2>5. br'.after <= br'.at /\ br'.at <= Cardinality(rows)
        BY <1>6, <2>4
    <2>6. \A r \in AnswerRows(rows) : r.seq <= br'.at => Received(br', r.piece)
        BY <1>16, <2>4 DEF Received, Has
    <2>7. \A r \in AnswerRows(rows) : Received(br', r.piece)
        BY <1>6, <1>21, <2>4, <2>6 DEF AnswerRows
    <2>8. br'.final \/ br'.pc \in {"reconcile", "shown"} => turn.state = "completed"
        BY <1>17, <2>1, <2>4
    <2> QED
        BY <1>15, <2>1, <2>3, <2>4, <2>5, <2>7, <2>8 DEF BrowserOK
<1> QED
    BY <1>5, <1>18, <1>19, <1>20, <1>21

LEMMA InitBrowserInv ==
    ASSUME Init
    PROVE  BrowserInv
<1>1. LiveInv /\ rows = {} /\ turn.state = "queued"
    <2>1. LiveInv
        BY InitLiveInv
    <2>2. rows = {} /\ turn.state = "queued"
        BY DEF Init
    <2> QED
        BY <2>1, <2>2
<1>2. RowsInv
    BY <1>1, FS_EmptySet DEF RowsInv, Tidy, AnswerRows
<1>3. AnswerInv
    BY <1>1 DEF AnswerInv
<1>4. PICK pc \in {"away", "drain"} :
        br = [pc |-> pc, after |-> 0, at |-> 0, page |-> 1, failures |-> 0, polls |-> 1,
              final |-> FALSE, redone |-> FALSE, got |-> <<>>, displayed |-> 0, shown |-> None]
    BY DEF Init
<1>5. <<>> \in Seq(AnswerPieces) /\ None \in Owners
    BY DEF Owners
<1>6. br \in BrowserRow
    BY <1>4, <1>5 DEF BrowserRow
<1>7. TextOf({}) = <<>>
    <2>1. Tidy({}) /\ AnswerRows({}) = {}
        BY FS_EmptySet DEF Tidy, AnswerRows
    <2>2. TextOf({}) \in Seq(AnswerPieces) /\ Len(TextOf({})) = Cardinality(AnswerRows({}))
        BY <2>1, TextType
    <2>3. Len(TextOf({})) = 0
        BY <2>1, <2>2, FS_EmptySet
    <2> QED
        BY <2>2, <2>3
<1>8. Cardinality(rows) = 0 /\ Upto(rows, 0) = {} /\ AnswerRows(rows) = {}
    BY <1>1, FS_EmptySet DEF Upto, AnswerRows
<1>9. /\ br.after = 0 /\ br.at = 0 /\ br.got = <<>> /\ br.final = FALSE
      /\ br.pc \in {"away", "drain"}
    BY <1>4
<1>10. BrowserOK(br, rows, turn)
    <2>1. br.after <= br.at /\ br.at <= Cardinality(rows)
        BY <1>8, <1>9
    <2>2. br.got = TextOf(Upto(rows, br.at))
        BY <1>7, <1>8, <1>9
    <2> QED
        BY <1>8, <1>9, <2>1, <2>2 DEF BrowserOK
<1> QED
    BY <1>1, <1>2, <1>3, <1>6, <1>10 DEF BrowserInv

LEMMA StepBrowserInv ==
    ASSUME BrowserInv, [Next]_vars
    PROVE  BrowserInv'
<1>1. LiveInv' /\ RowsInv' /\ AnswerInv'
    BY StepLiveInv, RowsStep, AnswerStep DEF BrowserInv
<1>2. CASE br' = br
    BY <1>1, <1>2, WorldStep DEF BrowserInv
<1>3. CASE CallFails \/ Drain \/ PollStatus \/ Present \/ Reconcile
    <2>1. rows' = rows /\ turn' = turn
        BY <1>3 DEF CallFails, Drain, PollStatus, Present, Reconcile
    <2>2. br' \in BrowserRow /\ BrowserOK(br', rows, turn)
        BY <1>3, CallFailsStep, DrainStep, PollStatusStep, PresentStep, ReconcileStep
    <2> QED
        BY <1>1, <2>1, <2>2 DEF BrowserInv
<1>4. ASSUME NEW w \in Writers, LiveLock(w) \/ LiveAppend(w)
      PROVE  br' = br
    BY <1>4 DEF LiveLock, LiveAppend
<1>5. ASSUME NEW w \in Workers,
             \/ Claim(w) \/ AnnounceStart(w) \/ Execute(w) \/ ShowReasoning(w) \/ StageReasoning(w)
             \/ Delta(w) \/ EmitDelta(w) \/ EmitSummary(w) \/ TurnCompleted(w) \/ ProviderFails(w)
             \/ Commit(w) \/ AnnounceEnd(w) \/ Fail(w) \/ AnnounceFailure(w) \/ Crash(w)
      PROVE  br' = br
    BY <1>5 DEF Claim, AnnounceStart, Execute, ShowReasoning, StageReasoning, Delta, EmitDelta,
       EmitSummary, TurnCompleted, ProviderFails, Commit, AnnounceEnd, Fail, AnnounceFailure, Crash
<1>6. Recover \/ UNCHANGED vars => br' = br
    BY DEF Recover, vars
<1> QED
    BY <1>2, <1>3, <1>4, <1>5, <1>6 DEF Next

(* However pages, polls, failed calls and late rows interleave, the browser *)
(* has the text before its cursor, once and in order unless a drain was cut *)
(* short, and it shows the answer of the attempt that completed the turn    *)
(* after having received all that this attempt had streamed.                *)
THEOREM BrowserIsTold ==
    Spec => []BrowserShowsTurn
<1>1. Init => BrowserInv
    BY InitBrowserInv
<1>2. BrowserInv /\ [Next]_vars => BrowserInv'
    BY StepBrowserInv
<1>3. BrowserInv => BrowserShowsTurn
    BY DEF BrowserInv, BrowserOK, BrowserShowsTurn, Upto, Received
<1> QED
    BY <1>1, <1>2, <1>3, PTL DEF Spec
=============================================================================
