------------------------------- MODULE Account -------------------------------
(***************************************************************************)
(* The account of the installation: requests of several Odoo processes     *)
(* that read its status, start, cancel or undo a device login, and the     *)
(* detached worker process that owns one login.  They share three files:   *)
(* the state of the login, the request to cancel it, and the lock, whose   *)
(* descriptor the worker inherits.  Any of the processes may be killed     *)
(* between two steps.                                                      *)
(***************************************************************************)
EXTENDS Naturals, FiniteSets

CONSTANTS
    Callers,    \* Odoo processes
    Attempts,   \* logins that may be started, numbered from 1
    Budgets     \* requests and kills of one behaviour, and the logins started so far

VARIABLES
    req,    \* what each caller is doing
    login,  \* the worker of each attempt
    disk,   \* the state file, the cancel file and the credentials
    lock,   \* the processes that hold the locked descriptor
    rest    \* what is left of the budget

avars == <<req, login, disk, lock, rest>>

Active == {"starting", "pending"}

\* How a request to the runtime ends: with its answer, with an error (of the pipe, of the
\* frame, of the provider or of time), or because the runtime has no such request.
Answers == {"ok", "error", "unsupported"}

NoRequest == [op |-> "none", pc |-> "idle", attempt |-> 0]

NoLogin == [pc |-> "none", result |-> "none"]

Worker(a) == <<"worker", a>>

Caller(c) == <<"caller", c>>

Running(a) == login[a].pc \notin {"none", "dead"}

AccountInit ==
    /\ req = [c \in Callers |-> NoRequest]
    /\ login = [a \in Attempts |-> NoLogin]
    /\ disk = [attempt |-> 0, state |-> "none", cancel |-> FALSE, auth |-> FALSE]
    /\ lock = {}
    /\ rest \in Budgets

\* The caller goes on at another line.
Goes(c, pc) == req' = [req EXCEPT ![c].pc = pc]

Ends(c) == req' = [req EXCEPT ![c] = NoRequest]

Writes(a, state) == disk' = [disk EXCEPT !.attempt = a, !.state = state]

\* The check of _terminal: the file is of the same attempt, or there is none.
SameAttempt(a) == disk.attempt \in {0, a}

-----------------------------------------------------------------------------
(* Requests.                                                               *)

Request(c) ==
    /\ req[c].pc = "idle" /\ rest.requests > 0
    /\ \E op \in {"status", "login", "cancel", "logout"} :
        req' = [req EXCEPT ![c] = [NoRequest EXCEPT !.op = op,
                    !.pc = CASE op = "login" -> "lock" [] op = "logout" -> "probe" [] OTHER -> "read"]]
    /\ rest' = [rest EXCEPT !.requests = @ - 1]
    /\ UNCHANGED <<login, disk, lock>>

\* status and cancel_login read the state file first.
ReadState(c) ==
    /\ req[c].pc = "read"
    /\ req' = IF disk.state \in Active
              THEN [req EXCEPT ![c].attempt = disk.attempt, ![c].pc = "probe"]
              ELSE [req EXCEPT ![c].op = "status",
                               ![c].pc = IF req[c].op = "cancel" THEN "read" ELSE "runtime"]
    /\ UNCHANGED <<login, disk, lock, rest>>

\* _lock_held: a lock that is free is taken for an instant.
ProbeHeld(c) ==
    /\ req[c].pc = "probe" /\ lock # {}
    /\ IF req[c].op = "cancel" THEN Goes(c, "touch") ELSE Ends(c)
    /\ UNCHANGED <<login, disk, lock, rest>>

ProbeTaken(c) ==
    /\ req[c].pc = "probe" /\ lock = {}
    /\ lock' = {Caller(c)}
    /\ Goes(c, "release")
    /\ UNCHANGED <<login, disk, rest>>

ProbeReleased(c) ==
    /\ req[c].pc = "release"
    /\ lock' = lock \ {Caller(c)}
    /\ Goes(c, CASE req[c].op = "logout" -> "logout"
                 [] req[c].op = "login" -> "runtime"
                 [] OTHER -> "interrupt")
    /\ UNCHANGED <<login, disk, rest>>

\* What follows the record: cancel_login asks for the status, the others end.
Recorded(c, pc) ==
    req' = IF req[c].op = "cancel" /\ pc = "runtime"
           THEN [req EXCEPT ![c].op = "status", ![c].pc = "read"]
           ELSE [req EXCEPT ![c].pc = pc]

\* A login without a worker is recorded as failed, unless another one began.
Interrupt(c) ==
    /\ req[c].pc = "interrupt"
    /\ Recorded(c, IF SameAttempt(req[c].attempt) THEN "write" ELSE "runtime")
    /\ UNCHANGED <<login, disk, lock, rest>>

InterruptWrite(c) ==
    /\ req[c].pc = "write"
    /\ Writes(req[c].attempt, "failed")
    /\ Recorded(c, "runtime")
    /\ UNCHANGED <<login, lock, rest>>

\* The answer of the runtime; an account that is there goes before any recorded failure.
\* A login that could not start closes its descriptor here.
RuntimeStatus(c) ==
    /\ req[c].pc = "runtime"
    /\ Ends(c)
    /\ lock' = lock \ {Caller(c)}
    /\ UNCHANGED <<login, disk, rest>>

TouchCancel(c) ==
    /\ req[c].pc = "touch"
    /\ disk' = [disk EXCEPT !.cancel = TRUE]
    /\ req' = [req EXCEPT ![c].op = "status", ![c].pc = "read"]
    /\ UNCHANGED <<login, lock, rest>>

\* logout asks the runtime to forget the account, which may fail, and removes the files.
Logout(c) ==
    /\ req[c].pc = "logout"
    /\ \E answer \in Answers :
        IF answer = "ok" THEN disk' = [disk EXCEPT !.auth = FALSE] /\ Goes(c, "unlink")
        ELSE UNCHANGED disk /\ Ends(c)
    /\ UNCHANGED <<login, lock, rest>>

UnlinkCancel(c) ==
    /\ req[c].pc = "unlink"
    /\ disk' = [disk EXCEPT !.cancel = FALSE]
    /\ Goes(c, "forget")
    /\ UNCHANGED <<login, lock, rest>>

UnlinkState(c) ==
    /\ req[c].pc = "forget"
    /\ disk' = [disk EXCEPT !.attempt = 0, !.state = "none"]
    /\ req' = [req EXCEPT ![c].op = "status", ![c].pc = "read"]
    /\ UNCHANGED <<login, lock, rest>>

-----------------------------------------------------------------------------
(* start_login.                                                            *)

\* A lock that is held answers with the login under way, or that one is busy.
LockLogin(c) ==
    /\ req[c].pc = "lock"
    /\ IF lock # {} THEN Ends(c) /\ UNCHANGED lock
       ELSE lock' = {Caller(c)} /\ Goes(c, "check")
    /\ UNCHANGED <<login, disk, rest>>

\* Nothing to do when the runtime has an account, or cannot tell; any other error of the
\* question lets the login go on.
CheckAccount(c) ==
    /\ req[c].pc = "check"
    /\ \E answer \in Answers :
        IF answer = "unsupported" \/ (answer = "ok" /\ disk.auth)
        THEN Ends(c) /\ lock' = lock \ {Caller(c)}
        ELSE Goes(c, "clear") /\ UNCHANGED lock
    /\ UNCHANGED <<login, disk, rest>>

ClearCancel(c) ==
    /\ req[c].pc = "clear"
    /\ disk' = [disk EXCEPT !.cancel = FALSE]
    /\ Goes(c, "start")
    /\ UNCHANGED <<login, lock, rest>>

WriteStarting(c) ==
    /\ req[c].pc = "start" /\ rest.started + 1 \in Attempts
    /\ Writes(rest.started + 1, "starting")
    /\ req' = [req EXCEPT ![c].attempt = rest.started + 1, ![c].pc = "spawn"]
    /\ rest' = [rest EXCEPT !.started = @ + 1]
    /\ UNCHANGED <<login, lock>>

\* As if the descriptor of the lock were closed on exec.
SpawnWithoutLock(c) ==
    /\ req[c].pc = "spawn"
    /\ login' = [login EXCEPT ![req[c].attempt].pc = "starting"]
    /\ Goes(c, "close")
    /\ UNCHANGED <<disk, lock, rest>>

\* The worker inherits the locked descriptor.
Spawn(c) ==
    /\ req[c].pc = "spawn"
    /\ login' = [login EXCEPT ![req[c].attempt].pc = "starting"]
    /\ lock' = lock \union {Worker(req[c].attempt)}
    /\ Goes(c, "close")
    /\ UNCHANGED <<disk, rest>>

\* The failure is recorded under the lock.
SpawnFails(c) ==
    /\ req[c].pc = "spawn"
    /\ Goes(c, "interrupt")
    /\ UNCHANGED <<login, disk, lock, rest>>

CloseLock(c) ==
    /\ req[c].pc = "close"
    /\ lock' = lock \ {Caller(c)}
    /\ Goes(c, "poll")
    /\ UNCHANGED <<login, disk, rest>>

\* The caller waits for the code to show, for the end of the worker or for its deadline,
\* when it looks at the lock once more.
PollLogin(c) ==
    /\ req[c].pc = "poll"
    /\ LET a == req[c].attempt
           state == IF disk.attempt = a THEN disk.state ELSE "none"
       IN  \/ state = "succeeded" /\ req' = [req EXCEPT ![c].op = "status", ![c].pc = "read"]
           \/ state # "succeeded" /\ Ends(c)
           \/ state \in Active /\ login[a].pc = "dead" /\ Goes(c, "interrupt")
           \/ state \in Active /\ Goes(c, "probe")
    /\ UNCHANGED <<login, disk, lock, rest>>

-----------------------------------------------------------------------------
(* The worker.                                                             *)

Leaves(a, result) == login' = [login EXCEPT ![a] = [pc |-> "ending", result |-> result]]

\* The runtime is spawned and shaken hands with; a home outside of the runtime directory
\* ends the worker without a record.
StartRuntime(a) ==
    /\ login[a].pc = "starting"
    /\ \/ login' = [login EXCEPT ![a].pc = "started"]
       \/ Leaves(a, "failed")
       \/ login' = [login EXCEPT ![a].pc = "exiting"]
    /\ UNCHANGED <<req, disk, lock, rest>>

\* The device code is written whatever the file holds.
DeviceCode(a) ==
    /\ login[a].pc = "started"
    /\ \E answer \in Answers :
        IF answer = "ok" THEN login' = [login EXCEPT ![a].pc = "waiting"] /\ Writes(a, "pending")
        ELSE Leaves(a, "failed") /\ UNCHANGED disk
    /\ UNCHANGED <<req, lock, rest>>

\* One turn of the loop: the cancel file, the runtime's event, or the deadline.  The user may
\* have logged in whatever the worker records: reading the account back or hardening its
\* file may fail, and a request to cancel or the deadline may come too late.
AwaitLogin(a) ==
    /\ login[a].pc = "waiting"
    /\ \E result \in {"succeeded", "failed", "cancelled", "timed_out"}, loggedIn \in BOOLEAN :
        /\ result = "cancelled" => disk.cancel
        /\ result = "succeeded" => loggedIn
        /\ Leaves(a, result)
        /\ disk' = [disk EXCEPT !.auth = @ \/ loggedIn]
    /\ UNCHANGED <<req, lock, rest>>

RecordEnd(a) ==
    /\ login[a].pc = "ending"
    /\ login' = [login EXCEPT ![a].pc = IF SameAttempt(a) THEN "writing" ELSE "closing"]
    /\ UNCHANGED <<req, disk, lock, rest>>

WriteEnd(a) ==
    /\ login[a].pc = "writing"
    /\ Writes(a, login[a].result)
    /\ login' = [login EXCEPT ![a].pc = "closing"]
    /\ UNCHANGED <<req, lock, rest>>

\* The runtime is asked to leave, then told to, then killed: the worker waits for its end.
CloseRuntime(a) ==
    /\ login[a].pc = "closing"
    /\ login' = [login EXCEPT ![a].pc = "closed"]
    /\ UNCHANGED <<req, disk, lock, rest>>

CloseWorker(a) ==
    /\ login[a].pc = "closed"
    /\ disk' = [disk EXCEPT !.cancel = FALSE]
    /\ login' = [login EXCEPT ![a].pc = "exiting"]
    /\ UNCHANGED <<req, lock, rest>>

ExitWorker(a) ==
    /\ login[a].pc = "exiting"
    /\ login' = [login EXCEPT ![a].pc = "dead"]
    /\ lock' = lock \ {Worker(a)}
    /\ UNCHANGED <<req, disk, rest>>

-----------------------------------------------------------------------------
(* Kills.  The kernel closes the descriptors of a process that ends.       *)

KillCaller(c) ==
    /\ req[c].pc # "idle" /\ rest.kills > 0
    /\ Ends(c)
    /\ lock' = lock \ {Caller(c)}
    /\ rest' = [rest EXCEPT !.kills = @ - 1]
    /\ UNCHANGED <<login, disk>>

KillWorker(a) ==
    /\ Running(a) /\ rest.kills > 0
    /\ login' = [login EXCEPT ![a].pc = "dead"]
    /\ lock' = lock \ {Worker(a)}
    /\ rest' = [rest EXCEPT !.kills = @ - 1]
    /\ UNCHANGED <<req, disk>>

-----------------------------------------------------------------------------

AccountNext ==
    \/ \E c \in Callers :
        \/ Request(c) \/ ReadState(c) \/ ProbeHeld(c) \/ ProbeTaken(c) \/ ProbeReleased(c)
        \/ Interrupt(c) \/ InterruptWrite(c) \/ RuntimeStatus(c)
        \/ TouchCancel(c) \/ Logout(c) \/ UnlinkCancel(c) \/ UnlinkState(c)
        \/ LockLogin(c) \/ CheckAccount(c) \/ ClearCancel(c) \/ WriteStarting(c)
        \/ Spawn(c) \/ SpawnFails(c) \/ CloseLock(c) \/ PollLogin(c) \/ KillCaller(c)
    \/ \E a \in Attempts :
        \/ StartRuntime(a) \/ DeviceCode(a) \/ AwaitLogin(a) \/ RecordEnd(a) \/ WriteEnd(a)
        \/ CloseRuntime(a) \/ CloseWorker(a) \/ ExitWorker(a) \/ KillWorker(a)

AccountSpec == AccountInit /\ [][AccountNext]_avars

\* Whichever process is killed at whichever step, at most one worker drives a login of the
\* installation, and no request prepares another one while it lives.
OneLogin ==
    /\ Cardinality({a \in Attempts : Running(a)}) <= 1
    /\ \A c \in Callers, a \in Attempts :
        req[c].pc \in {"check", "clear", "start", "spawn"} => ~Running(a)
=============================================================================
