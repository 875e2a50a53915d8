---------------------------- MODULE TurnLifecycle ----------------------------
(***************************************************************************)
(* The durable life of an Assistant turn: the queue row (odoo.ai.turn),    *)
(* the independent control row (odoo.ai.turn.control), the cron slots that *)
(* claim and run turns, and the browser requests that stop, redirect,      *)
(* approve or reject them.                                                 *)
(*                                                                         *)
(* PostgreSQL runs Odoo cursors at REPEATABLE READ.  A worker's write to   *)
(* the turn row fails with a serialization error when another transaction  *)
(* changed the row since the worker's snapshot; only recovery and a new    *)
(* claim change a running row, and both change its lease, so such a write  *)
(* is guarded by Owns.  The conversation row is written by many (a new     *)
(* message, a redirect, a proposal, an answer), so the transactions whose  *)
(* snapshot it outdated are kept in conflict.  A browser request reads     *)
(* through the snapshot it took before it waited for the effect lock; that *)
(* snapshot is explicit.  Row locks only make recovery skip a row for a    *)
(* while, and recovery may always come late, so they are not represented.  *)
(***************************************************************************)
EXTENDS Integers, FiniteSets

CONSTANTS Turns,            \* ids of the turns (natural numbers, in creation order)
          Conversations,    \* conversations
          ConversationOf,   \* the conversation each turn belongs to
          Slots,            \* the cron slots
          Requests,         \* browser requests that can be in flight together
          Capacity,         \* effective concurrent turns
          MaxAttempts,      \* _MAX_ATTEMPTS
          MaxInterventions, \* _MAX_INTERVENTIONS
          MaxReplans,       \* policy max_replans
          MaxUnits          \* bound on the recovery units of one plan

ASSUME TurnsAssumption == Turns \subseteq Nat /\ Turns # {}
ASSUME ConversationAssumption == ConversationOf \in [Turns -> Conversations]
ASSUME BoundsAssumption ==
    /\ Capacity \in Nat \ {0}
    /\ MaxAttempts \in Nat \ {0}
    /\ MaxInterventions \in Nat
    /\ MaxReplans \in Nat
    /\ MaxUnits \in Nat \ {0}
ASSUME FiniteAssumption == IsFiniteSet(Turns)
ASSUME DisjointAssumption == Slots \intersect Requests = {}

VARIABLES turn,     \* turn[t]: the odoo.ai.turn row
          control,  \* control[t]: the odoo.ai.turn.control row
          slot,     \* slot[s]: the worker running in cron slot s
          request,  \* request[r]: a browser request and its snapshot
          conflict, \* the slots and requests that can no longer write the conversation row
          effects   \* effects[t]: the claims whose effects became durable (history)

vars == <<turn, control, slot, request, conflict, effects>>

-----------------------------------------------------------------------------
(* Rows and their initial values *)

\* The ceiling that redirects may raise max_attempts to.
MaxAttemptsWithRedirects == MaxAttempts + MaxInterventions

TerminalStates == {"completed", "failed", "cancelled", "recovery_required"}
TurnStates == {"absent", "queued", "running", "awaiting_confirmation"}
                 \union TerminalStates
\* "executing_atomic" is an executing plan of one odoo_atomic unit: when it fails, the
\* journal has no other rows and calls them all rolled back.
PlanStates == {"none", "awaiting_confirmation", "authorized", "executing",
               "executing_atomic", "completed", "rejected"}
\* Error codes, up to what the queue distinguishes: "transient" is any code that
\* may be retried, "fatal" any code of _NON_RETRYABLE_TURN_ERRORS.
Errors == {"none", "agent_cancelled", "agent_redirected", "transient", "fatal",
           "worker_lost", "worker_lost_after_write_barrier"}

TurnRow == [state : TurnStates, attempts : Nat, max : Nat, lease : Nat,
            expired : BOOLEAN, barrier : BOOLEAN, plan : PlanStates,
            result : BOOLEAN, error : Errors, replans : Nat, social : BOOLEAN]

NewTurn == [state |-> "absent", attempts |-> 0, max |-> MaxAttempts, lease |-> 0,
            expired |-> FALSE, barrier |-> FALSE, plan |-> "none",
            result |-> FALSE, error |-> "none", replans |-> 0, social |-> FALSE]

ControlRow == [seq : Nat, applied : Nat, cancel : BOOLEAN]
NewControl == [seq |-> 0, applied |-> 0, cancel |-> FALSE]

Locations == {
    "idle",       \* next: ClaimNextTurn
    "claimed",    \* next: CancelClaimedTurn, AbandonClaim, SocialAnswer, Reason, ResumePlan
    "reasoning",  \* next: ObserveIntervention, AcceptDecision
    "decided",    \* next: NextDecision, FinishReasoning
    "planning",   \* next: PreparePlan, PrepareError
    "proposing",  \* next: PersistAwaitingPlan
    "unit",       \* next: BeforeUnit, RepairPreflight
    "boundary",   \* holds the effect lock; next: CommitUnit
    "executing",  \* next: RunUnit, RepairExecution
    "effected",   \* next: AfterUnit, FinishPlan
    "synthesis",  \* next: PersistReceipt, FinishSynthesis
    "answered",   \* next: CompleteTurn
    "failing" }   \* next: FailClaimedTurn
Modes == {"odoo_atomic", "external"}

Job == [pc : Locations, turn : Turns, claim : Nat, seen : Nat, unit : Nat, units : Nat,
        mode : Modes, dirty : BOOLEAN, fault : Errors]

\* An idle slot still names some turn; nothing reads it.
IdleJob == [pc |-> "idle", turn |-> CHOOSE t \in Turns : TRUE, claim |-> 0, seen |-> 0,
            unit |-> 0, units |-> 0, mode |-> "odoo_atomic", dirty |-> FALSE,
            fault |-> "none"]

RequestRow == [kind : {"none", "redirect", "cancel"}, turn : Turns,
               row : TurnRow, ctl : ControlRow]
NoRequest == [kind |-> "none", turn |-> IdleJob.turn, row |-> NewTurn, ctl |-> NewControl]

Init ==
    /\ turn = [t \in Turns |-> NewTurn]
    /\ control = [t \in Turns |-> NewControl]
    /\ slot = [s \in Slots |-> IdleJob]
    /\ request = [r \in Requests |-> NoRequest]
    /\ conflict = {}
    /\ effects = [t \in Turns |-> {}]

-----------------------------------------------------------------------------
(* Questions about the state *)

\* Mutant of HoldsLease: the lease token is not compared.
AnyLease(s) == TRUE

\* The lease of the turn is the one the worker in slot s claimed.
HoldsLease(s) == turn[slot[s].turn].lease = slot[s].claim

\* The worker in slot s still owns the turn it claimed.
Owns(s) == turn[slot[s].turn].state = "running" /\ HoldsLease(s)

\* Mutant of Active: rows whose lease expired are not counted.
ActiveUnexpired == {t \in Turns : turn[t].state = "running" /\ ~turn[t].expired}

\* The rows that use up capacity.
Active == {t \in Turns : turn[t].state = "running"}

Claimable(t) == turn[t].state = "queued" /\ turn[t].attempts < turn[t].max

\* Mutant of Blocks: a turn that awaits confirmation lets the next one pass.
BlocksOnlyActive(p, t) ==
    /\ ConversationOf[p] = ConversationOf[t]
    /\ p < t
    /\ turn[p].state = "running" \/ Claimable(p)

\* An earlier turn of the conversation that still holds its place in the order.
Blocks(p, t) ==
    /\ ConversationOf[p] = ConversationOf[t]
    /\ p < t
    /\ turn[p].state \in {"running", "awaiting_confirmation"} \/ Claimable(p)

\* Mutant of EffectLockHeld: the effect lock is not taken.
EffectLockIgnored(t) == FALSE

\* The advisory effect lock of t is held by a worker between its last control
\* check and the commit of the unit.
EffectLockHeld(t) == \E s \in Slots : slot[s].pc = "boundary" /\ slot[s].turn = t

\* _ensure_turn_control_current: the codes it raises, "none" when it passes.
ControlFault(t) ==
    IF control[t].cancel THEN "agent_cancelled"
    ELSE IF control[t].seq # control[t].applied THEN "agent_redirected"
    ELSE "none"

SetTurn(t, row) == turn' = [turn EXCEPT ![t] = row]

\* A transition that releases the lease.
Released(row) == [row EXCEPT !.lease = 0, !.expired = FALSE]

SetJob(s, job) == slot' = [slot EXCEPT ![s] = job]

Goto(s, pc) == SetJob(s, [slot[s] EXCEPT !.pc = pc])

\* An exception leaves the worker transaction: uncommitted effects roll back.
Fault(s, code) ==
    SetJob(s, [IdleJob EXCEPT !.pc = "failing", !.turn = slot[s].turn,
                              !.claim = slot[s].claim, !.fault = code])

Retire(s) == SetJob(s, IdleJob)

\* Locations whose transaction has yet to write the conversation row.
WritesConversation == {"planning", "proposing", "executing", "effected", "synthesis",
                       "answered"}

\* A committed write of the conversation row of t, by the transaction ended here (if
\* any): the other open transactions that mean to write the row will fail.
TouchConversation(t, ended) ==
    conflict' = (conflict
                   \union {s \in Slots : /\ slot[s].pc \in WritesConversation
                                         /\ ConversationOf[slot[s].turn]
                                               = ConversationOf[t]}
                   \union {r \in Requests : /\ request[r].kind = "redirect"
                                            /\ ConversationOf[request[r].turn]
                                                  = ConversationOf[t]})
                \ ended

\* The transaction of a slot or request ends; the next one has a new snapshot.
EndTransaction(x) == conflict' = conflict \ {x}

\* Mutant of CanWriteConversation: writes of the conversation row never conflict.
ConversationUnversioned(x) == TRUE

\* The snapshot of a slot or request still has the current conversation row.
CanWriteConversation(x) == x \notin conflict

\* Effects made durable when the worker in slot s commits.
CommitEffects(s) ==
    effects' = [effects EXCEPT ![slot[s].turn] =
                   IF slot[s].dirty THEN @ \union {slot[s].claim} ELSE @]
-----------------------------------------------------------------------------
(* The queue *)

\* enqueue_for_current_user; whether the message is small talk is fixed by its text.
Enqueue(t) ==
    /\ turn[t].state = "absent"
    /\ \A p \in Turns : p < t => turn[p].state # "absent"
    /\ \E b \in BOOLEAN : SetTurn(t, [turn[t] EXCEPT !.state = "queued", !.social = b])
    /\ TouchConversation(t, {})
    /\ UNCHANGED <<control, slot, request, effects>>

\* Mutant of NewLease: every claim gets the same token.
NewLeaseConstant(row) == 1

\* The random token of a claim: no two claims of a turn share one.
NewLease(row) == row.attempts + 1

\* _claim_next_turn, under the scheduler's advisory lock.  The order among the
\* eligible candidates is left open: FOR UPDATE SKIP LOCKED may pass over any of them.
ClaimNextTurn(s, t) ==
    /\ slot[s].pc = "idle"
    /\ Cardinality(Active) < Capacity
    /\ Claimable(t)
    /\ ~ \E p \in Turns : Blocks(p, t)
    /\ SetTurn(t, [turn[t] EXCEPT !.state = "running", !.attempts = @ + 1,
                                 !.lease = NewLease(turn[t]), !.expired = FALSE])
    /\ SetJob(s, [IdleJob EXCEPT !.pc = "claimed", !.turn = t, !.claim = NewLease(turn[t])])
    /\ EndTransaction(s)
    /\ UNCHANGED <<control, request, effects>>

\* The lease is five minutes long and is never renewed, so a slow worker loses it.
ExpireLease(t) ==
    /\ turn[t].lease # 0
    /\ ~turn[t].expired
    /\ SetTurn(t, [turn[t] EXCEPT !.expired = TRUE])
    /\ UNCHANGED <<control, slot, request, conflict, effects>>

\* What _recover_stale_turns makes of a row whose lease expired, in the code's order.
RecoveredRow(t) ==
    LET row == Released(turn[t]) IN
    CASE control[t].cancel -> [row EXCEPT !.state = "cancelled"]
      [] ~control[t].cancel /\ row.result -> [row EXCEPT !.state = "completed"]
      [] ~control[t].cancel /\ ~row.result /\ row.barrier ->
            [row EXCEPT !.state = "recovery_required",
                        !.error = "worker_lost_after_write_barrier"]
      [] ~control[t].cancel /\ ~row.result /\ ~row.barrier /\ row.attempts < row.max ->
            [row EXCEPT !.state = "queued", !.error = "none"]
      [] OTHER -> [row EXCEPT !.state = "failed", !.error = "worker_lost"]

\* Every cron slot recovers stale turns before it claims one.
RecoverStaleTurn(t) ==
    /\ \E s \in Slots : slot[s].pc = "idle"
    /\ turn[t].state = "running"
    /\ turn[t].expired
    /\ SetTurn(t, RecoveredRow(t))
    /\ UNCHANGED <<control, slot, request, conflict, effects>>

-----------------------------------------------------------------------------
(* The worker, up to the plan *)

CancelClaimedTurn(s) ==
    /\ slot[s].pc = "claimed"
    /\ Owns(s)
    /\ control[slot[s].turn].cancel
    /\ SetTurn(slot[s].turn, [Released(turn[slot[s].turn]) EXCEPT !.state = "cancelled"])
    /\ Retire(s)
    /\ EndTransaction(s)
    /\ UNCHANGED <<control, request, effects>>

\* _execute_claimed_turn returns silently when the claim is no longer its own.
AbandonClaim(s) ==
    /\ slot[s].pc = "claimed"
    /\ ~Owns(s)
    /\ Retire(s)
    /\ EndTransaction(s)
    /\ UNCHANGED <<turn, control, request, effects>>

\* The claim passed the checks of _execute_claimed_turn.
Started(s) == slot[s].pc = "claimed" /\ Owns(s) /\ ~control[slot[s].turn].cancel

\* Small talk is answered by the host, without a provider decision.
SocialAnswer(s) ==
    LET fault == ControlFault(slot[s].turn) IN
    /\ Started(s)
    /\ turn[slot[s].turn].social
    /\ IF fault # "none" THEN Fault(s, fault) ELSE Goto(s, "answered")
    /\ EndTransaction(s)
    /\ UNCHANGED <<turn, control, request, effects>>

\* plans.execute begins: the plan has some number of recovery units.
StartPlan(s) ==
    \E n \in 1..MaxUnits :
        SetJob(s, [slot[s] EXCEPT !.pc = "unit", !.unit = 1, !.units = n])

\* An approved plan is resumed without another decision.
ResumePlan(s) ==
    /\ Started(s)
    /\ ~turn[slot[s].turn].social
    /\ turn[slot[s].turn].plan = "authorized"
    /\ StartPlan(s)
    /\ EndTransaction(s)
    /\ UNCHANGED <<turn, control, request, effects>>

\* Otherwise the worker reasons; unapplied redirects drop the working transcript.
Reason(s) ==
    LET t == slot[s].turn IN
    /\ Started(s)
    /\ ~turn[t].social
    /\ turn[t].plan # "authorized"
    /\ IF control[t].seq > control[t].applied
         THEN SetTurn(t, [turn[t] EXCEPT !.replans = 0])
         ELSE UNCHANGED turn
    /\ SetJob(s, [slot[s] EXCEPT !.pc = "reasoning", !.seen = control[t].seq])
    /\ EndTransaction(s)
    /\ UNCHANGED <<control, request, effects>>

\* A redirect reaches the running decision: steered into it, or it is restarted.
ObserveIntervention(s) ==
    /\ slot[s].pc = "reasoning"
    /\ control[slot[s].turn].seq > slot[s].seen
    /\ SetJob(s, [slot[s] EXCEPT !.seen = control[slot[s].turn].seq])
    /\ UNCHANGED <<turn, control, request, conflict, effects>>

\* The decision is current: mark_runtime_control_applied, on a cursor of its own.
AcceptDecision(s) ==
    LET t == slot[s].turn IN
    /\ slot[s].pc = "reasoning"
    /\ \/ /\ control[t].cancel
          /\ Fault(s, "agent_cancelled")
          /\ UNCHANGED control
       \/ /\ ~control[t].cancel
          /\ control[t].seq = slot[s].seen
          /\ control' = [control EXCEPT ![t].applied = control[t].seq]
          /\ SetJob(s, [slot[s] EXCEPT !.pc = "decided", !.seen = 0])
    /\ UNCHANGED <<turn, request, conflict, effects>>

\* The decision was a capability call, a plan step or a task plan: it is recorded by
\* persist_working_transcript and the loop asks for the next one, on a new control snapshot.
NextDecision(s) ==
    /\ slot[s].pc = "decided"
    /\ Owns(s)
    /\ SetJob(s, [slot[s] EXCEPT !.pc = "reasoning", !.seen = control[slot[s].turn].seq])
    /\ EndTransaction(s)
    /\ UNCHANGED <<turn, control, request, effects>>

\* After the loop: _ensure_turn_control_current, then an answer or a plan.
FinishReasoning(s) ==
    LET fault == ControlFault(slot[s].turn) IN
    /\ slot[s].pc = "decided"
    /\ Owns(s)
    /\ \/ fault # "none" /\ Fault(s, fault)
       \/ fault = "none" /\ Goto(s, "answered")
       \/ fault = "none" /\ Goto(s, "planning")
    /\ EndTransaction(s)
    /\ UNCHANGED <<turn, control, request, effects>>

\* A prepared plan waits for approval or, under the policy, runs at once.
PreparePlan(s) ==
    LET fault == ControlFault(slot[s].turn) IN
    /\ slot[s].pc = "planning"
    /\ \/ fault # "none" /\ Fault(s, fault)
       \/ fault = "none" /\ Goto(s, "proposing")
       \/ fault = "none" /\ StartPlan(s)
    /\ UNCHANGED <<turn, control, request, conflict, effects>>

\* The next location after a plan error was given back to the model, bounded by
\* max_replans: reason again, or finish safely with an answer.
Replan(s, t) ==
    SetJob(s, [slot[s] EXCEPT
                 !.pc = IF turn[t].replans >= MaxReplans THEN "answered" ELSE "reasoning",
                 !.seen = control[t].seq, !.unit = 0, !.units = 0, !.dirty = FALSE])

PrepareError(s) ==
    LET t == slot[s].turn IN
    /\ slot[s].pc = "planning"
    /\ Owns(s)
    /\ SetTurn(t, [turn[t] EXCEPT !.replans = @ + 1])
    /\ Replan(s, t)
    /\ EndTransaction(s)
    /\ UNCHANGED <<control, request, effects>>

\* _persist_awaiting_plan, committed by _execute_claimed_turn.
PersistAwaitingPlan(s) ==
    LET t == slot[s].turn IN
    /\ slot[s].pc = "proposing"
    /\ Owns(s)
    /\ CanWriteConversation(s)
    /\ SetTurn(t, [Released(turn[t]) EXCEPT !.state = "awaiting_confirmation",
                                            !.plan = "awaiting_confirmation",
                                            !.result = TRUE])
    /\ Retire(s)
    /\ TouchConversation(t, {s})
    /\ UNCHANGED <<control, request, effects>>

-----------------------------------------------------------------------------
(* The worker, executing a plan unit by unit *)

\* recovery_checkpoint("before_unit"): take the effect lock, then check the control row.
\* The lease it looks at before comes from an older snapshot, so a lost lease may only be
\* found by the commit.
BeforeUnit(s) ==
    LET t == slot[s].turn
        fault == ControlFault(t) IN
    /\ slot[s].pc = "unit"
    /\ ~EffectLockHeld(t)
    /\ IF fault # "none" THEN Fault(s, fault) ELSE Goto(s, "boundary")
    /\ EndTransaction(s)
    /\ UNCHANGED <<turn, control, request, effects>>

\* The plan that is stored before a unit of this mode runs.
ExecutingPlan(units, mode) ==
    IF units = 1 /\ mode = "odoo_atomic" THEN "executing_atomic" ELSE "executing"

\* ... and commit the write barrier and the executing plan, which frees the lock.
CommitUnit(s) ==
    LET t == slot[s].turn IN
    /\ slot[s].pc = "boundary"
    /\ Owns(s)
    /\ \E m \in Modes :
          /\ SetTurn(t, [turn[t] EXCEPT !.barrier = TRUE,
                                        !.plan = ExecutingPlan(slot[s].units, m)])
          /\ SetJob(s, [slot[s] EXCEPT !.pc = "executing", !.mode = m])
    /\ EndTransaction(s)
    /\ UNCHANGED <<control, request, effects>>

\* An Odoo effect stays in the worker's transaction, an external one is out at once.
RunUnit(s) ==
    LET t == slot[s].turn IN
    /\ slot[s].pc = "executing"
    /\ \/ /\ slot[s].mode = "odoo_atomic"
          /\ SetJob(s, [slot[s] EXCEPT !.pc = "effected", !.dirty = TRUE])
          /\ UNCHANGED effects
       \/ /\ slot[s].mode = "external"
          /\ SetJob(s, [slot[s] EXCEPT !.pc = "effected", !.mode = IdleJob.mode])
          /\ effects' = [effects EXCEPT ![t] = @ \union {slot[s].claim}]
    /\ UNCHANGED <<turn, control, request, conflict>>

\* recovery_checkpoint("after_unit"): a unit that is not the last is committed.
AfterUnit(s) ==
    /\ slot[s].pc = "effected"
    /\ slot[s].unit < slot[s].units
    /\ Owns(s)
    /\ CommitEffects(s)
    /\ SetJob(s, [slot[s] EXCEPT !.pc = "unit", !.unit = @ + 1, !.dirty = FALSE])
    /\ EndTransaction(s)
    /\ UNCHANGED <<turn, control, request>>

\* The last unit's effects stay uncommitted while the answer is composed.
FinishPlan(s) ==
    /\ slot[s].pc = "effected"
    /\ slot[s].unit = slot[s].units
    /\ Goto(s, "synthesis")
    /\ UNCHANGED <<turn, control, request, conflict, effects>>

\* _repair_recoverable_plan, phase "preflight": nothing has crossed the barrier.
RepairPreflight(s) ==
    LET t == slot[s].turn
        fault == ControlFault(t) IN
    /\ slot[s].pc = "unit"
    /\ Owns(s)
    /\ ~turn[t].barrier
    /\ \/ fault # "none" /\ Fault(s, fault) /\ UNCHANGED turn
       \/ /\ fault = "none"
          /\ SetTurn(t, [turn[t] EXCEPT !.plan = "none", !.error = "none",
                                        !.replans = @ + 1])
          /\ Replan(s, t)
    /\ EndTransaction(s)
    /\ UNCHANGED <<control, request, effects>>

\* Mutant of Repairable: a plan of several units is repaired as well.
RepairableAtomic(s) == slot[s].mode = "odoo_atomic"

\* Rollback undoes the whole plan: one unit, and it stayed in the transaction.
Repairable(s) == slot[s].units = 1 /\ slot[s].mode = "odoo_atomic"

\* _repair_recoverable_plan, phase "execution": a plan of one atomic unit is rolled
\* back; the barrier is cleared on a fresh snapshot, without looking at the lease.
RepairExecution(s) ==
    LET t == slot[s].turn
        fault == ControlFault(t) IN
    /\ slot[s].pc = "executing"
    /\ Repairable(s)
    /\ \/ fault # "none" /\ Fault(s, fault) /\ UNCHANGED turn
       \/ /\ fault = "none"
          /\ SetTurn(t, [turn[t] EXCEPT !.barrier = FALSE, !.plan = "none",
                                        !.error = "none", !.replans = @ + 1])
          /\ Replan(s, t)
    /\ EndTransaction(s)
    /\ UNCHANGED <<control, request, effects>>

\* persist_working_transcript during the synthesis, any number of times: it commits the
\* last unit and the receipt.
PersistReceipt(s) ==
    LET t == slot[s].turn IN
    /\ slot[s].pc = "synthesis"
    /\ Owns(s)
    /\ SetTurn(t, [turn[t] EXCEPT !.plan = "completed"])
    /\ CommitEffects(s)
    /\ SetJob(s, [slot[s] EXCEPT !.dirty = FALSE])
    /\ EndTransaction(s)
    /\ UNCHANGED <<control, request>>

\* _continue_after_effect: a Stop ends the synthesis where it is.  Otherwise the answer
\* was persisted; an incomplete outcome or a provider failure needs no control check, a
\* redirect is consumed by the provider or breaks the turn.
FinishSynthesis(s) ==
    LET t == slot[s].turn IN
    /\ slot[s].pc = "synthesis"
    /\ \/ /\ control[t].cancel
          /\ Goto(s, "answered")
          /\ UNCHANGED <<control, conflict>>
       \/ /\ turn[t].plan = "completed"
          /\ Owns(s)
          /\ EndTransaction(s)
          /\ \/ Goto(s, "answered") /\ UNCHANGED control
             \/ /\ ControlFault(t) = "agent_redirected"
                /\ control' = [control EXCEPT ![t].applied = control[t].seq]
                /\ Goto(s, "answered")
             \/ /\ ControlFault(t) = "agent_redirected"
                /\ Fault(s, "agent_redirected")
                /\ UNCHANGED control
    /\ UNCHANGED <<turn, request, effects>>

-----------------------------------------------------------------------------
(* The worker, leaving the turn *)

\* _stage_completed_turn: effects, message and result are one commit.
CompleteTurn(s) ==
    LET t == slot[s].turn IN
    /\ slot[s].pc = "answered"
    /\ Owns(s)
    /\ CanWriteConversation(s)
    /\ SetTurn(t, [Released(turn[t]) EXCEPT
                     !.state = "completed", !.result = TRUE,
                     !.plan = IF slot[s].units > 0 THEN "completed" ELSE @])
    /\ CommitEffects(s)
    /\ Retire(s)
    /\ TouchConversation(t, {s})
    /\ UNCHANGED <<control, request>>

\* Any exception of the runtime, the provider or the database.
Raise(s) ==
    /\ slot[s].pc \notin {"idle", "failing"}
    /\ \E code \in {"transient", "fatal"} : Fault(s, code)
    /\ EndTransaction(s)
    /\ UNCHANGED <<turn, control, request, effects>>

\* A lease check or a serialization failure stops a worker that lost its lease; the
\* latter also stops one that cannot write the conversation row any more.
WriteConflict(s) ==
    /\ \/ slot[s].pc \notin {"idle", "claimed", "executing", "failing"} /\ ~Owns(s)
       \/ slot[s].pc \in {"proposing", "answered"} /\ ~CanWriteConversation(s)
    /\ Fault(s, "transient")
    /\ EndTransaction(s)
    /\ UNCHANGED <<turn, control, request, effects>>

\* Mutant of Retryable: a failure behind the barrier is retried.
RetryableAlways(row, code) == code # "fatal" /\ row.attempts < row.max

\* Only a failure before the barrier is tried again.
Retryable(row, code) == code # "fatal" /\ ~row.barrier /\ row.attempts < row.max

\* The row _fail_claimed_turn leaves behind for an exception with this code.
FailedRow(t, code) ==
    LET grown == IF /\ code = "agent_redirected"
                    /\ ~turn[t].barrier
                    /\ turn[t].max < MaxAttemptsWithRedirects
                    /\ turn[t].attempts >= turn[t].max
                 THEN turn[t].max + 1
                 ELSE turn[t].max
        row == [Released(turn[t]) EXCEPT !.max = grown] IN
    IF control[t].cancel
    THEN [Released(turn[t]) EXCEPT !.state = "cancelled"]
    ELSE IF Retryable(row, code)
    THEN [row EXCEPT !.state = "queued", !.error = "none"]
    ELSE [row EXCEPT !.state = IF row.barrier THEN "recovery_required" ELSE "failed",
                     !.error = code]

FailClaimedTurn(s) ==
    LET t == slot[s].turn IN
    /\ slot[s].pc = "failing"
    /\ IF HoldsLease(s)
         THEN SetTurn(t, FailedRow(t, slot[s].fault))
         ELSE UNCHANGED turn
    /\ Retire(s)
    /\ EndTransaction(s)
    /\ UNCHANGED <<control, request, effects>>

\* The worker process dies; its transaction rolls back.
Crash(s) ==
    /\ slot[s].pc # "idle"
    /\ Retire(s)
    /\ EndTransaction(s)
    /\ UNCHANGED <<turn, control, request, effects>>

-----------------------------------------------------------------------------
(* The browser *)

OpenStates == {"queued", "running", "awaiting_confirmation"}

\* What a request uses of its snapshot: the row it means to write, or else the state.
Snapshot(kind, row) ==
    IF row.state = "awaiting_confirmation" \/ (row.state = "queued" /\ kind = "cancel")
    THEN row ELSE [NewTurn EXCEPT !.state = row.state]

\* Stop and redirect first read the owned turn: their snapshot is fixed here.
BeginRequest(r, kind, t) ==
    /\ request[r].kind = "none"
    /\ turn[t].state \in OpenStates
    /\ kind = "redirect" => ~turn[t].barrier /\ control[t].seq < MaxInterventions
    /\ request' = [request EXCEPT ![r] = [kind |-> kind, turn |-> t,
                                           row |-> Snapshot(kind, turn[t]),
                                           ctl |-> control[t]]]
    /\ EndTransaction(r)
    /\ UNCHANGED <<turn, control, slot, effects>>

\* max_attempts after a redirect of a turn that awaits confirmation.
RedirectedMax(row) ==
    LET wanted == IF row.max > row.attempts + 2 THEN row.max ELSE row.attempts + 2 IN
    IF wanted < MaxAttemptsWithRedirects THEN wanted ELSE MaxAttemptsWithRedirects

\* Mutant of RedirectedRow: the proposal stays as the result.
RedirectedRowWithResult(row) ==
    [Released(row) EXCEPT !.state = "queued", !.plan = "none",
                          !.error = "none", !.replans = 0, !.max = RedirectedMax(row)]

\* The row of an approval wait that a redirect superseded.
RedirectedRow(row) ==
    [Released(row) EXCEPT !.state = "queued", !.plan = "none", !.result = FALSE,
                          !.error = "none", !.replans = 0, !.max = RedirectedMax(row)]

\* Mutant of RowUnchanged: a write never conflicts with a concurrent one.
RowUnversioned(q) == TRUE

\* The turn row is still the one the request read.
RowUnchanged(q) == turn[q.turn] = q.row

\* redirect_for_current_user, once it has the effect lock.  It decides on its
\* snapshot and writes the control row, and the turn row of an approval wait.
FinishRedirect(r) ==
    LET q == request[r]
        t == q.turn IN
    /\ q.kind = "redirect"
    /\ ~EffectLockHeld(t)
    /\ CanWriteConversation(r)
    /\ control[t] = q.ctl
    /\ IF q.row.state = "awaiting_confirmation"
         THEN /\ RowUnchanged(q)
              /\ RedirectedMax(q.row) >= q.row.attempts   \* SQL CHECK of the table
              /\ SetTurn(t, RedirectedRow(q.row))
         ELSE UNCHANGED turn
    /\ control' = [control EXCEPT ![t].seq = @ + 1]
    /\ request' = [request EXCEPT ![r] = NoRequest]
    /\ TouchConversation(t, {r})
    /\ UNCHANGED <<slot, effects>>

\* cancel_for_current_user, once it has the effect lock.
FinishCancel(r) ==
    LET q == request[r]
        t == q.turn IN
    /\ q.kind = "cancel"
    /\ ~EffectLockHeld(t)
    /\ \/ /\ q.row.state \in {"queued", "awaiting_confirmation"}
          /\ RowUnchanged(q)
          /\ SetTurn(t, [Released(q.row) EXCEPT
                           !.state = "cancelled",
                           !.plan = IF q.row.state = "queued" THEN @ ELSE "rejected"])
          /\ IF q.row.state = "queued"
               THEN control[t] = q.ctl /\ control' = [control EXCEPT ![t].cancel = TRUE]
               ELSE UNCHANGED control
       \/ \* running, or queued and its row locked by a claim: only the flag
          /\ \/ q.row.state = "running"
             \/ q.row.state = "queued" /\ turn[t].state = "running"
          /\ control[t] = q.ctl
          /\ control' = [control EXCEPT ![t].cancel = TRUE]
          /\ UNCHANGED turn
    /\ request' = [request EXCEPT ![r] = NoRequest]
    /\ EndTransaction(r)
    /\ UNCHANGED <<slot, effects>>

\* A serialization failure or a CHECK violation rolls the request back; the retry
\* is a new request.
AbortRequest(r) ==
    LET q == request[r] IN
    /\ q.kind # "none"
    /\ \/ ~CanWriteConversation(r)
       \/ control[q.turn] # q.ctl
       \/ /\ ~RowUnchanged(q)
          /\ \/ q.row.state = "awaiting_confirmation"
             \/ q.row.state = "queued" /\ q.kind = "cancel"
       \/ /\ q.kind = "redirect"
          /\ q.row.state = "awaiting_confirmation"
          /\ RedirectedMax(q.row) < q.row.attempts
    /\ request' = [request EXCEPT ![r] = NoRequest]
    /\ EndTransaction(r)
    /\ UNCHANGED <<turn, control, slot, effects>>

\* Mutant of ResumeCeiling: approval grants no claim of its own.
ResumeCeilingAsIs(row) == row.max

\* Approval always leaves one claim for the approved plan.
ResumeCeiling(row) == IF row.max > row.attempts THEN row.max ELSE row.attempts + 1

\* decide_capability_plan_for_current_user; it writes the turn row it read, so a
\* concurrent change makes it start over: one step.
ApprovePlan(t) ==
    /\ turn[t].state = "awaiting_confirmation"
    /\ turn[t].plan = "awaiting_confirmation"
    /\ SetTurn(t, [Released(turn[t]) EXCEPT
                     !.state = "queued", !.plan = "authorized", !.result = FALSE,
                     !.error = "none",
                     !.max = ResumeCeiling(turn[t])])
    /\ UNCHANGED <<control, slot, request, conflict, effects>>

RejectPlan(t) ==
    /\ turn[t].state = "awaiting_confirmation"
    /\ turn[t].plan = "awaiting_confirmation"
    /\ SetTurn(t, [Released(turn[t]) EXCEPT !.state = "completed", !.plan = "rejected",
                                            !.result = TRUE])
    /\ UNCHANGED <<control, slot, request, conflict, effects>>

\* _reconcile_confirmed_atomic_rollback, when the browser asks for the plan's status:
\* review mode is resolved once the journal shows that no effect survived.
ReconcileRollback(t) ==
    /\ turn[t].state = "recovery_required"
    /\ turn[t].barrier
    /\ turn[t].plan = "executing_atomic"
    /\ SetTurn(t, [turn[t] EXCEPT !.state = "failed"])
    /\ UNCHANGED <<control, slot, request, conflict, effects>>

-----------------------------------------------------------------------------
(* The specification *)

WorkerStep(s) ==
    \/ CancelClaimedTurn(s) \/ AbandonClaim(s) \/ SocialAnswer(s) \/ ResumePlan(s)
    \/ Reason(s) \/ ObserveIntervention(s) \/ AcceptDecision(s) \/ NextDecision(s)
    \/ FinishReasoning(s) \/ PreparePlan(s) \/ PrepareError(s) \/ PersistAwaitingPlan(s)
    \/ BeforeUnit(s) \/ CommitUnit(s) \/ RunUnit(s) \/ AfterUnit(s) \/ FinishPlan(s)
    \/ RepairPreflight(s) \/ RepairExecution(s) \/ PersistReceipt(s)
    \/ FinishSynthesis(s) \/ CompleteTurn(s) \/ Raise(s) \/ WriteConflict(s)
    \/ FailClaimedTurn(s)

BrowserStep ==
    \/ \E r \in Requests : FinishRedirect(r) \/ FinishCancel(r) \/ AbortRequest(r)
    \/ \E r \in Requests, kind \in {"redirect", "cancel"}, t \in Turns :
          BeginRequest(r, kind, t)
    \/ \E t \in Turns : ApprovePlan(t) \/ RejectPlan(t) \/ ReconcileRollback(t)

Next ==
    \/ \E t \in Turns : Enqueue(t) \/ ExpireLease(t) \/ RecoverStaleTurn(t)
    \/ \E s \in Slots : WorkerStep(s) \/ Crash(s)
    \/ \E s \in Slots, t \in Turns : ClaimNextTurn(s, t)
    \/ BrowserStep

Spec == Init /\ [][Next]_vars

\* Cron slots fire again and again, the clock runs and every worker step ends:
\* provider calls and capability calls have timeouts.  Nothing is assumed of users.
Fairness ==
    /\ \A t \in Turns : WF_vars(ExpireLease(t)) /\ WF_vars(RecoverStaleTurn(t))
    /\ \A s \in Slots : WF_vars(WorkerStep(s))
    /\ \A t \in Turns : WF_vars(\E s \in Slots : ClaimNextTurn(s, t))

FairSpec == Spec /\ Fairness

-----------------------------------------------------------------------------
(* Safety *)

\* Every row, job and request has the shape of its table or record.
TypeOK ==
    /\ turn \in [Turns -> TurnRow]
    /\ control \in [Turns -> ControlRow]
    /\ slot \in [Slots -> Job]
    /\ request \in [Requests -> RequestRow]
    /\ conflict \subseteq Slots \union Requests
    /\ effects \in [Turns -> SUBSET Nat]

\* However claims, losses of the lease and recoveries interleave, the rows that are
\* running never exceed the effective capacity (_claim_next_turn).
CapacityRespected == Cardinality({t \in Turns : turn[t].state = "running"}) <= Capacity

\* Conversation causality: while a turn runs or awaits confirmation, no earlier turn
\* of its conversation is running, awaiting confirmation or still claimable, not even
\* one that was requeued, recovered, approved or redirected in between.
CausalOrder ==
    \A p, t \in Turns :
        /\ p < t
        /\ ConversationOf[p] = ConversationOf[t]
        /\ turn[t].state \in {"running", "awaiting_confirmation"}
        => \/ turn[p].state \in TerminalStates
           \/ turn[p].state = "queued" /\ turn[p].attempts >= turn[p].max

\* At most one worker at a time owns the lease of a turn, however many stale workers
\* of the same turn are still alive (lease_token).
SoleOwner ==
    \A s1, s2 \in Slots :
        /\ slot[s1].pc # "idle" /\ slot[s2].pc # "idle"
        /\ slot[s1].turn = slot[s2].turn
        /\ Owns(s1) /\ Owns(s2)
        => s1 = s2

\* No blind replay: all the durable effects of a turn come from a single claim, over
\* crashes, lost leases, retries, redirects, approvals and repaired plans.
SingleEffectClaim ==
    \A t \in Turns : \A c1, c2 \in effects[t] : c1 = c2

\* A turn with a durable effect is behind its write barrier, and is never waiting to
\* run again, waiting for approval, or reported as failed, not even when a review is
\* resolved because the journal calls the plan rolled back while its worker is still alive.
EffectsBehindBarrier ==
    \A t \in Turns : effects[t] # {} =>
        /\ turn[t].barrier
        /\ turn[t].state \in {"running", "completed", "cancelled", "recovery_required"}

\* A turn that is queued or running carries no result, so recovery can never serve the
\* answer of a superseded proposal as the answer of the turn (_recover_stale_turns).
NoStaleResult ==
    \A t \in Turns : turn[t].state \in {"queued", "running"} => ~turn[t].result

-----------------------------------------------------------------------------
(* What a step may never do *)

\* The write barrier of a turn is never raised over an accepted Stop or over a
\* redirect that no decision has applied (the effect lock and the check under it).
BarrierRespectsControl ==
    [][\A t \in Turns : ~turn[t].barrier /\ turn'[t].barrier =>
          ~control[t].cancel /\ control[t].seq = control[t].applied]_vars

\* An accepted redirect is not lost: a turn without effects completes, or offers a plan,
\* only when a decision has applied every redirect, unless it fell back on the host's
\* answer because its replans were used up.  A redirect that comes after the last check
\* makes the worker's write of the conversation row fail.
RedirectNotLost ==
    [][\A t \in Turns : /\ turn[t].state = "running"
                        /\ turn'[t].state \in {"completed", "awaiting_confirmation"}
                        /\ ~turn[t].barrier
                        /\ turn[t].replans <= MaxReplans
                        => control[t].seq = control[t].applied]_vars

\* A worker that lost its lease never changes the verdict on the turn: its state,
\* its result, its attempts or another worker's lease.
StaleWorkerPowerless ==
    [][\A s \in Slots :
          slot[s].pc # "idle" /\ slot'[s] # slot[s] /\ ~Owns(s) =>
             LET t == slot[s].turn IN
             /\ turn'[t].state = turn[t].state
             /\ turn'[t].result = turn[t].result
             /\ turn'[t].attempts = turn[t].attempts
             /\ turn'[t].lease = turn[t].lease]_vars

\* A terminal turn stays as it is, whatever stale workers and requests still do; only a
\* review can be resolved, and only for a turn that has left no effect.
TerminalIsFinal ==
    [][\A t \in Turns : turn[t].state \in TerminalStates =>
          \/ turn'[t].state = turn[t].state
          \/ /\ turn[t].state = "recovery_required"
             /\ turn'[t].state = "failed"
             /\ effects[t] = {}]_vars

-----------------------------------------------------------------------------
(* Liveness, under FairSpec *)

\* A turn that can be claimed or whose plan was approved is eventually settled, or waits
\* for its user, or an earlier turn of the conversation does: crashes, retries and
\* redirects use up attempts, and approval always grants one.
TurnSettles ==
    \A t \in Turns :
        turn[t].state = "queued" /\ (Claimable(t) \/ turn[t].plan = "authorized") ~>
            \/ turn[t].state \in TerminalStates \union {"awaiting_confirmation"}
            \/ \E p \in Turns : Blocks(p, t) /\ turn[p].state = "awaiting_confirmation"

\* A Stop that was accepted is eventually final, unless the plan was being offered for
\* approval at that moment: then the turn waits for its user instead.
StopSettles ==
    \A t \in Turns : control[t].cancel ~>
        turn[t].state \in TerminalStates \union {"awaiting_confirmation"}

\* Whatever crashes, is retried, redirected or stopped, no turn is left hanging: claimable
\* and approved turns are settled, and so are stopped ones.
EveryTurnSettles == TurnSettles /\ StopSettles

-----------------------------------------------------------------------------
(* Statements of the documentation that the code does not keep *)

\* P5.8: after the barrier "later correction fails with turn_effect_already_committed".
LateRedirectRejected ==
    [][\A t \in Turns : turn[t].barrier => control'[t].seq = control[t].seq]_vars

\* The comment on the approval path: a turn must not "be left in queued forever because
\* the queue predicate requires attempt_count < max_attempts".
QueuedIsClaimable ==
    \A t \in Turns : turn[t].state = "queued" => turn[t].attempts < turn[t].max

=============================================================================
