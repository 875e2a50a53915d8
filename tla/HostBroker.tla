----------------------------- MODULE HostBroker -----------------------------
(***************************************************************************)
(* The optional local privilege broker and its Odoo-side client.           *)
(*                                                                         *)
(* The broker serves one connection at a time.  An execute request writes  *)
(* a "running" row to a SQLite ledger before it crosses the privileged     *)
(* barrier and a terminal receipt after it; a request id that is already   *)
(* in the ledger is answered from it.  Commands (systemctl, systemd-run)   *)
(* run outside the broker and may outlive it.  A call is one connection:   *)
(* its client may give up at any time, and may ask again with the same     *)
(* request id, which is derived from the plan step.                        *)
(***************************************************************************)
EXTENDS Naturals, FiniteSets

CONSTANTS Steps,    \* effectful plan steps; the stable request id is one per step
          Targets,  \* logical targets of the broker policy
          Calls,    \* connections a client may open
          StepOf,   \* the step a call asks for
          DbOf,     \* the database a call comes from (a copied database shares step ids)
          Workloads, \* the sets of steps that the turns may ask for together
          KindOf,   \* "config", "service" or "module", per step
          TargetOf, \* the target of each step
          ValueOf,  \* the value a config patch writes
          Values,   \* contents of a target
          MaxGeneration \* bound on restarts and outside changes

ASSUME StepAssumption ==
    /\ KindOf \in [Steps -> {"config", "service", "module"}]
    /\ TargetOf \in [Steps -> Targets]
    /\ ValueOf \in [Steps -> Values]
    /\ Workloads \subseteq SUBSET Steps
ASSUME CallAssumption == StepOf \in [Calls -> Steps]
ASSUME GenerationAssumption == MaxGeneration \in Nat

VARIABLES host,    \* host[t]: content or version of a target, and its start generation
          plan,    \* plan[s]: the fingerprint the preview of s returned (precondition)
          ledger,  \* ledger[s]: the row of broker_execution
          backup,  \* backup[s]: the private backup file of a config patch
          command, \* command[s]: the external process started for s
          broker,  \* the server process and the connection it serves
          policy,  \* the targets of the loaded policy
          inbox,   \* calls in the listen backlog
          expired, \* calls whose request lifetime has passed
          call,    \* call[k]: the client's side of a connection and its answer
          verdict, \* verdict[k]: what the verification after an answer found
          effects  \* effects[s]: how often the effect of s happened (history)

vars == <<host, plan, ledger, backup, command, broker, policy, inbox, expired, call, verdict, effects>>
brokerVars == <<ledger, backup, command, broker, policy>>
hostVars == <<host, effects>>
clientVars == <<plan, expired, verdict>>

-----------------------------------------------------------------------------
(* Fingerprints, receipts and rows *)

NoState == [value |-> "none", generation |-> 0]

\* The precondition of a step that no turn asks for.
NotAsked == [value |-> "none", generation |-> 1]

\* OperationOutcome as far as the client tells outcomes apart.
Outcome(status, effect) ==
    [status |-> status, effect |-> effect, token |-> FALSE, post |-> NoState]
NoOutcome == Outcome("none", "none")
Uncertain == Outcome("uncertain", "unknown")
Denied == Outcome("denied", "none")

\* A verified success with the fingerprint it left; an applied patch carries its backup.
Success(effect, token, h) ==
    [status |-> "ok", effect |-> effect, token |-> token, post |-> h]

AbsentRow == [state |-> "absent", db |-> "none", receipt |-> NoOutcome]
RunningRow(k) == [state |-> "running", db |-> DbOf[k], receipt |-> NoOutcome]

Idle == [pc |-> "idle", call |-> "none", out |-> NoOutcome]
Down == [Idle EXCEPT !.pc = "down"]

Serving == broker.pc \notin {"idle", "down"}
Step == StepOf[broker.call]
Target == TargetOf[Step]

\* A config file's fingerprint is its content: _read_file, _fingerprint and _read_option.
ConfigFingerprint(h) == [h EXCEPT !.generation = 0]

\* A unit's fingerprint is its start time: _status_fields.
ServiceFingerprint(h) == [value |-> "unit", generation |-> h.generation]

\* A module's fingerprint is its versions in a fresh registry: _inspect.
ModuleFingerprint(h) == [h EXCEPT !.generation = 0]

Fingerprint(s) ==
    LET h == host[TargetOf[s]] IN
    CASE KindOf[s] = "config"  -> ConfigFingerprint(h)
      [] KindOf[s] = "service" -> ServiceFingerprint(h)
      [] KindOf[s] = "module"  -> ModuleFingerprint(h)

\* The state of a target after the effect of s.
AfterEffect(s, h) ==
    CASE KindOf[s] = "service" -> [h EXCEPT !.generation = @ + 1]
      [] OTHER                 -> [h EXCEPT !.value = ValueOf[s]]

-----------------------------------------------------------------------------
(* The deployment's policy file, read when the broker starts *)

PolicyFile == [safe : BOOLEAN, targets : SUBSET Targets, malformed : SUBSET Targets]

\* The parsers of the three target sections: one bad entry rejects the whole policy.
TargetsParse(f) == f.targets \intersect f.malformed = {}

\* load_policy: owner and mode of the file and of every executable and directory it names.
PolicyIsSafe(f) == f.safe

-----------------------------------------------------------------------------
Init ==
    /\ host \in [Targets -> [value : Values, generation : {0}]]
    /\ \E asked \in Workloads : plan = [s \in Steps |-> IF s \in asked THEN NoState ELSE NotAsked]
    /\ ledger = [s \in Steps |-> AbsentRow]
    /\ backup = [s \in Steps |-> NoState]
    /\ command = [s \in Steps |-> "none"]
    /\ broker = Down
    /\ policy = {}
    /\ inbox = {}
    /\ expired = {}
    /\ call = [k \in Calls |-> "none"]
    /\ verdict = [k \in Calls |-> "none"]
    /\ effects = [s \in Steps |-> 0]

\* main and serve_forever: a fresh process with the policy as it is now.
Start ==
    /\ broker.pc = "down"
    /\ \E f \in PolicyFile :
        /\ PolicyIsSafe(f)
        /\ TargetsParse(f)
        /\ policy' = f.targets
    /\ broker' = Idle
    /\ UNCHANGED <<hostVars, clientVars, ledger, backup, command, inbox, call>>

-----------------------------------------------------------------------------
(* The client *)

\* A read-only call that returns the current fingerprint, for the plan's preview.
Preview(s) ==
    /\ broker.pc = "idle"
    /\ TargetOf[s] \in policy
    /\ plan[s] = NoState
    /\ plan' = [plan EXCEPT ![s] = Fingerprint(s)]
    /\ UNCHANGED <<brokerVars, hostVars, inbox, expired, call, verdict>>

PreviewPatch(s) == KindOf[s] = "config" /\ Preview(s)
PreviewRestart(s) == KindOf[s] = "service" /\ Preview(s)

\* The capability is only offered while broker.status names module targets.
PreviewUpdate(s) == KindOf[s] = "module" /\ policy # {} /\ Preview(s)

\* The code of a transport failure, before and after sending has started.
TransportCode(dispatched) == IF dispatched THEN "uncertain" ELSE "unavailable"


Asked(k) == plan[StepOf[k]] \notin {NoState, NotAsked} /\ call[k] = "none"

\* connect fails: nothing was sent.
ConnectFails(k) ==
    /\ Asked(k)
    /\ broker.pc = "down"
    /\ call' = [call EXCEPT ![k] = TransportCode(FALSE)]
    /\ UNCHANGED <<brokerVars, hostVars, clientVars, inbox>>

\* The request goes into the backlog of the listening socket.
Send(k) ==
    /\ Asked(k)
    /\ broker.pc # "down"
    /\ call' = [call EXCEPT ![k] = "sent"]
    /\ inbox' = inbox \union {k}
    /\ UNCHANGED <<brokerVars, hostVars, clientVars>>

\* The client gives up; the request stays where it is.
ClientTimeout(k) ==
    /\ call[k] = "sent"
    /\ call' = [call EXCEPT ![k] = TransportCode(TRUE)]
    /\ UNCHANGED <<brokerVars, hostVars, clientVars, inbox>>

\* Time passes for a request that waits: expires_at lies behind now.
Expire(k) ==
    /\ k \in inbox \ expired
    /\ expired' = expired \union {k}
    /\ UNCHANGED <<brokerVars, hostVars, plan, inbox, call, verdict>>

\* HostBrokerClient.call: the receipt's status as the capability sees it.
AnswerOf(out) ==
    CASE out.status = "ok" /\ out.effect = "applied"             -> "ok"
      [] out.status = "ok" /\ out.effect = "none"                -> "unchanged"
      [] out.status = "stale"                                    -> "stale"
      [] out.status = "uncertain" \/ out.effect = "unknown"      -> "uncertain"
      [] out.status = "denied" /\ out.effect = "none"            -> "denied"

\* verify_patch and verify_update: the target is as the receipt left it.
VerifiedPatch(s) == Fingerprint(s) = ledger[s].receipt.post
VerifiedUpdate(s) == Fingerprint(s) = ledger[s].receipt.post /\ host[TargetOf[s]].value = ValueOf[s]

\* The verification of a step whose execution was answered ok; verify_restart only asks
\* whether the unit is active, which it may or may not be.
VerifyCall(k) ==
    /\ call[k] \in {"ok", "unchanged"}
    /\ verdict[k] = "none"
    /\ broker.pc = "idle"
    /\ TargetOf[StepOf[k]] \in policy
    /\ LET s == StepOf[k] IN
       \E ok \in BOOLEAN :
        /\ KindOf[s] = "config" => ok = VerifiedPatch(s)
        /\ KindOf[s] = "module" => ok = VerifiedUpdate(s)
        /\ verdict' = [verdict EXCEPT ![k] = IF ok THEN "verified" ELSE "unverified"]
    /\ UNCHANGED <<brokerVars, hostVars, plan, inbox, expired, call>>

-----------------------------------------------------------------------------
(* The server: one connection from accept to its reply *)

\* A reply reaches the client only while it still waits.
Deliver(k, out) ==
    call' = IF call[k] = "sent" THEN [call EXCEPT ![k] = AnswerOf(out)] ELSE call

\* validate_request: the lifetime is checked when the request is read.
ValidRequest(k) == k \notin expired

\* As if a row left running by a dead broker were run again.
BeginStateRerun(k) ==
    LET row == ledger[StepOf[k]] IN
    CASE row.state \in {"absent", "running"} -> "new"
      [] row.state = "terminal"             -> "terminal"

\* ledger.begin on the row of this request id, under its lock.
BeginState(k) ==
    LET row == ledger[StepOf[k]] IN
    CASE row.state = "absent"    -> "new"
      [] row.state # "absent" /\ row.db # DbOf[k] -> "conflict"
      [] row.state = "running" /\ row.db = DbOf[k] -> "running"
      [] row.state = "terminal" /\ row.db = DbOf[k] -> "terminal"

\* handle and _effectful up to ledger.begin, for a request already known or refused.
AnswerKnown(k) ==
    /\ broker.pc = "idle"
    /\ k \in inbox
    /\ inbox' = inbox \ {k}
    /\ \/ ~ValidRequest(k) /\ Deliver(k, Denied)
       \/ /\ ValidRequest(k)
          /\ \/ BeginState(k) = "conflict" /\ Deliver(k, Denied)
             \/ BeginState(k) = "running" /\ Deliver(k, Uncertain)
             \/ BeginState(k) = "terminal" /\ Deliver(k, ledger[StepOf[k]].receipt)
    /\ UNCHANGED <<brokerVars, hostVars, clientVars>>

\* _effectful: the running row is committed before the implementation starts.
Begin(k) ==
    /\ broker.pc = "idle"
    /\ k \in inbox
    /\ ValidRequest(k)
    /\ BeginState(k) = "new"
    /\ inbox' = inbox \ {k}
    /\ ledger' = [ledger EXCEPT ![StepOf[k]] = RunningRow(k)]
    /\ broker' = [Idle EXCEPT !.pc = "begun", !.call = k]
    /\ UNCHANGED <<hostVars, backup, command, policy, clientVars, call>>

Goto(pc) == broker' = [broker EXCEPT !.pc = pc]
Conclude(out) == broker' = [broker EXCEPT !.pc = "finish", !.out = out]

\* The target is not in the policy, or it cannot be read.
RefuseTarget ==
    /\ broker.pc = "begun"
    /\ Conclude(Denied)
    /\ UNCHANGED <<hostVars, ledger, backup, command, policy, clientVars, inbox, call>>

PreconditionHolds(s) == Fingerprint(s) = plan[s]

\* The fingerprint is compared with the one the plan was previewed on.
CheckPrecondition ==
    /\ broker.pc = "begun"
    /\ Target \in policy
    /\ \/ ~PreconditionHolds(Step) /\ Conclude(Outcome("stale", "none"))
       \/ PreconditionHolds(Step) /\ Goto("checked")
    /\ UNCHANGED <<hostVars, ledger, backup, command, policy, clientVars, inbox, call>>

\* execute_patch: nothing to change.
PatchUnchanged ==
    /\ broker.pc = "checked"
    /\ KindOf[Step] = "config"
    /\ plan[Step].value = ValueOf[Step]
    /\ Goto("unchanged")
    /\ UNCHANGED <<hostVars, ledger, backup, command, policy, clientVars, inbox, call>>

\* As if the backup were read from the file again.
WriteBackupReread ==
    /\ broker.pc = "checked"
    /\ KindOf[Step] = "config"
    /\ plan[Step].value # ValueOf[Step]
    /\ backup' = [backup EXCEPT ![Step] = Fingerprint(Step)]
    /\ Goto("backed")
    /\ UNCHANGED <<hostVars, ledger, command, policy, clientVars, inbox, call>>

\* _backup: the content that was read, created exclusively.
WriteBackup ==
    /\ broker.pc = "checked"
    /\ KindOf[Step] = "config"
    /\ plan[Step].value # ValueOf[Step]
    /\ \/ backup[Step] = NoState /\ backup' = [backup EXCEPT ![Step] = plan[Step]] /\ Goto("backed")
       \/ Conclude(Uncertain) /\ UNCHANGED backup
    /\ UNCHANGED <<hostVars, ledger, command, policy, clientVars, inbox, call>>

\* The effect of s becomes real.
Happen(s) ==
    /\ host' = [host EXCEPT ![TargetOf[s]] = AfterEffect(s, @)]
    /\ effects' = [effects EXCEPT ![s] = @ + 1]

\* _atomic_replace; an exception of it is answered uncertain.
ReplaceFile ==
    /\ broker.pc = "backed"
    /\ \/ Happen(Step) /\ Goto("effected")
       \/ Conclude(Uncertain) /\ UNCHANGED hostVars
    /\ UNCHANGED <<ledger, backup, command, policy, clientVars, inbox, call>>

\* The runner starts the external command.
Launch ==
    /\ command' = [command EXCEPT ![Step] = "running"]
    /\ Goto("waiting")

\* execute_restart: systemctl; a runner that cannot start it raises an unexpected error.
LaunchRestart ==
    /\ broker.pc = "checked"
    /\ KindOf[Step] = "service"
    /\ \/ Launch
       \/ Conclude(Uncertain) /\ UNCHANGED command
    /\ UNCHANGED <<hostVars, ledger, backup, policy, clientVars, inbox, call>>

\* execute_update and _run: systemd-run; a runner that cannot start it is a refusal.
LaunchUpdate ==
    /\ broker.pc = "checked"
    /\ KindOf[Step] = "module"
    /\ \/ Launch
       \/ Conclude(Denied) /\ UNCHANGED command
    /\ UNCHANGED <<hostVars, ledger, backup, policy, clientVars, inbox, call>>

\* The command ends on its own, also after the broker stopped waiting for it.
CommandEnds(s) ==
    /\ command[s] = "running"
    /\ host[TargetOf[s]].generation < MaxGeneration
    /\ \/ Happen(s) /\ command' = [command EXCEPT ![s] = "succeeded"]
       \/ Happen(s) /\ command' = [command EXCEPT ![s] = "failed"]
       \/ UNCHANGED hostVars /\ command' = [command EXCEPT ![s] = "failed"]
    /\ UNCHANGED <<ledger, backup, broker, policy, clientVars, inbox, call>>

\* As if a command that timed out counted as ended.
CommandReturnsEarly ==
    /\ broker.pc = "waiting"
    /\ \/ command[Step] \in {"succeeded", "running"} /\ Goto("effected")
       \/ command[Step] = "failed" /\ Conclude(Uncertain)
    /\ UNCHANGED <<hostVars, ledger, backup, command, policy, clientVars, inbox, call>>

\* execute_restart, execute_update: return code or timeout.
CommandReturns ==
    /\ broker.pc = "waiting"
    /\ \/ command[Step] = "succeeded" /\ Goto("effected")
       \/ command[Step] \in {"failed", "running"} /\ Conclude(Uncertain)
    /\ UNCHANGED <<hostVars, ledger, backup, command, policy, clientVars, inbox, call>>

\* The outcome of the reading after the effect that could not be made.
UnreadableAfter == Denied

\* execute_patch reads the file again: the value is there, is not, or it cannot be read.
InspectPatch ==
    /\ broker.pc \in {"effected", "unchanged"}
    /\ KindOf[Step] = "config"
    /\ \/ /\ host[Target].value = ValueOf[Step]
          /\ Conclude(IF broker.pc = "unchanged" THEN Success("none", FALSE, Fingerprint(Step))
                      ELSE Success("applied", TRUE, Fingerprint(Step)))
       \/ host[Target].value # ValueOf[Step] /\ Conclude(Uncertain)
       \/ Conclude(UnreadableAfter)
    /\ UNCHANGED <<hostVars, ledger, backup, command, policy, clientVars, inbox, call>>

\* execute_restart and execute_update ask for the new status: healthy, not healthy, no answer.
InspectCommand ==
    /\ broker.pc = "effected"
    /\ KindOf[Step] # "config"
    /\ \/ /\ KindOf[Step] = "module" => host[Target].value = ValueOf[Step]
          /\ Conclude(Success("applied", FALSE, Fingerprint(Step)))
       \/ Conclude(Uncertain)
       \/ Conclude(UnreadableAfter)
    /\ UNCHANGED <<hostVars, ledger, backup, command, policy, clientVars, inbox, call>>

\* ledger.finish, then the reply; when the ledger fails the row stays running.
Finish ==
    /\ broker.pc = "finish"
    /\ broker' = Idle
    /\ \/ /\ ledger' = [ledger EXCEPT ![Step].state = "terminal", ![Step].receipt = broker.out]
          /\ Deliver(broker.call, broker.out)
       \/ /\ Deliver(broker.call, Uncertain)
          /\ UNCHANGED ledger
    /\ UNCHANGED <<hostVars, backup, command, policy, clientVars, inbox>>

-----------------------------------------------------------------------------
(* Faults and the outside *)

\* The broker dies; every client that waits loses its socket.
Crash ==
    /\ broker.pc # "down"
    /\ broker' = Down
    /\ inbox' = {}
    /\ call' = [k \in Calls |-> IF call[k] = "sent" THEN TransportCode(TRUE) ELSE call[k]]
    /\ UNCHANGED <<hostVars, ledger, backup, command, policy, clientVars>>

\* Somebody else edits the file, restarts the unit or updates the module.
OutsideChange(t) ==
    /\ host[t].generation < MaxGeneration
    /\ \E v \in Values :
        host' = [host EXCEPT ![t] = [value |-> v, generation |-> @.generation + 1]]
    /\ UNCHANGED <<brokerVars, effects, clientVars, inbox, call>>

-----------------------------------------------------------------------------
ClientStep(k) ==
    \/ ConnectFails(k) \/ Send(k) \/ ClientTimeout(k) \/ Expire(k) \/ VerifyCall(k)

BrokerStep ==
    \/ Start
    \/ \E k \in Calls : AnswerKnown(k) \/ Begin(k)
    \/ RefuseTarget \/ CheckPrecondition
    \/ PatchUnchanged \/ WriteBackup \/ ReplaceFile
    \/ LaunchRestart \/ LaunchUpdate \/ CommandReturns
    \/ InspectPatch \/ InspectCommand \/ Finish

Next ==
    \/ \E s \in Steps : PreviewPatch(s) \/ PreviewRestart(s) \/ PreviewUpdate(s) \/ CommandEnds(s)
    \/ \E k \in Calls : ClientStep(k)
    \/ BrokerStep
    \/ Crash
    \/ \E t \in Targets : OutsideChange(t)

Spec == Init /\ [][Next]_vars

-----------------------------------------------------------------------------
(* Properties *)

\* A row of the ledger that nobody works on any more: its effect is unknown.
Abandoned(s) ==
    /\ ledger[s].state = "running"
    /\ s \notin {StepOf[k] : k \in {c \in Calls : Serving /\ broker.call = c}}

\* A receipt that promises a backup has one, of the very state the plan was previewed on.
BackupIsPreviewed ==
    \A s \in Steps : ledger[s].receipt.token => backup[s] = plan[s] /\ backup[s] # NoState

\* A request that was abandoned is never resumed: every replay is answered uncertain and only
\* a command that still runs can change anything (ledger.begin, state "running").
AbandonedIsNeverResumed ==
    [][\A s \in Steps : Abandoned(s) =>
          /\ Abandoned(s)'
          /\ effects'[s] # effects[s] => command[s] = "running"]_vars

\* A call that waits has no answer yet.
ContractAnswer == [k \in Calls |-> IF call[k] = "sent" THEN "none" ELSE call[k]]

Contract == INSTANCE EffectContract WITH answer <- ContractAnswer

\* The broker with all its faults implements the contract of privileged effects: at most once,
\* and no answer that a later effect contradicts (engine.py, ledger.py, host_broker.py).
KeepsContract == Contract!Spec
=============================================================================
