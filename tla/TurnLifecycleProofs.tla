------------------------- MODULE TurnLifecycleProofs -------------------------
(***************************************************************************)
(* Proofs about TurnLifecycle, for every value of its constants.           *)
(*                                                                         *)
(* A lemma per record constructor says which fields it changes, and a      *)
(* lemma per action shows the action to be a step of one of seven kinds    *)
(* (a write of the tables, a claim, leaving a turn, reasoning, raising the *)
(* barrier, undoing it, an effect).  That a kind preserves the inductive   *)
(* invariant is argued once, without looking inside a record update.       *)
(***************************************************************************)
EXTENDS TurnLifecycle, FiniteSetTheorems, TLAPS

-----------------------------------------------------------------------------
(* Types of the initial values *)

\* The initial row, control row, job and request have their types.
LEMMA InitialTypes ==
    /\ NewTurn \in TurnRow
    /\ NewControl \in ControlRow
    /\ IdleJob \in Job
    /\ NoRequest \in RequestRow
  <1>1. NewTurn \in TurnRow
    BY BoundsAssumption DEF NewTurn, TurnRow, TurnStates, TerminalStates, PlanStates, Errors
  <1>2. NewControl \in ControlRow
    BY DEF NewControl, ControlRow
  <1>3. IdleJob \in Job
    BY TurnsAssumption DEF IdleJob, Job, Locations, Modes, Errors
  <1>4. NoRequest \in RequestRow
    BY <1>1, <1>2, <1>3 DEF NoRequest, RequestRow, Job
  <1> QED BY <1>1, <1>2, <1>3, <1>4

-----------------------------------------------------------------------------
(* Writes of one row, one job *)

\* What a write of the row of t does to the table.
TurnStep(t, row) ==
    /\ turn' \in [Turns -> TurnRow]
    /\ turn'[t] = row
    /\ \A u \in Turns : u # t => turn'[u] = turn[u]

\* What an update of the job in slot s does to the slots.
SlotStep(s, job) ==
    /\ slot' \in [Slots -> Job]
    /\ slot'[s] = job
    /\ \A x \in Slots : x # s => slot'[x] = slot[x]

\* SetTurn with a well-typed row changes that row only.
LEMMA SetTurnStep ==
    ASSUME TypeOK, NEW t \in Turns, NEW row \in TurnRow, SetTurn(t, row)
    PROVE  TurnStep(t, row)
  BY DEF TypeOK, SetTurn, TurnStep

\* SetJob with a well-typed job changes that job only.
LEMMA SetJobStep ==
    ASSUME TypeOK, NEW s \in Slots, NEW job \in Job, SetJob(s, job)
    PROVE  SlotStep(s, job)
  BY DEF TypeOK, SetJob, SlotStep

-----------------------------------------------------------------------------
(* What the workers' jumps do to their job *)

\* The worker in s goes on, for the same turn under the same claim.
Continues(s) ==
    /\ slot' \in [Slots -> Job]
    /\ slot'[s].turn = slot[s].turn
    /\ slot'[s].claim = slot[s].claim
    /\ \A x \in Slots : x # s => slot'[x] = slot[x]

\* Goto changes nothing but the location.
LEMMA GotoStep ==
    ASSUME TypeOK, NEW s \in Slots, NEW pc \in Locations, Goto(s, pc)
    PROVE  /\ Continues(s)
           /\ slot'[s].pc = pc
           /\ slot'[s].unit = slot[s].unit
           /\ slot'[s].units = slot[s].units
           /\ slot'[s].dirty = slot[s].dirty
  <1> DEFINE job == [slot[s] EXCEPT !.pc = pc]
  <1>1. slot[s] \in Job
    BY DEF TypeOK
  <1>2. job \in Job
    BY <1>1 DEF Job
  <1>3. /\ job.pc = pc /\ job.turn = slot[s].turn /\ job.claim = slot[s].claim
        /\ job.unit = slot[s].unit /\ job.units = slot[s].units
        /\ job.dirty = slot[s].dirty
    BY <1>1 DEF Job
  <1>4. SetJob(s, job)
    BY DEF Goto
  <1> HIDE DEF job
  <1> QED BY <1>2, <1>3, <1>4, SetJobStep DEF SlotStep, Continues

\* Fault leaves a clean failing job.
LEMMA FaultStep ==
    ASSUME TypeOK, NEW s \in Slots, NEW code \in Errors, Fault(s, code)
    PROVE  /\ Continues(s)
           /\ slot'[s].pc = "failing"
           /\ slot'[s].dirty = FALSE
  <1> DEFINE job == [IdleJob EXCEPT !.pc = "failing", !.turn = slot[s].turn,
                                    !.claim = slot[s].claim, !.fault = code]
  <1>1. slot[s] \in Job /\ IdleJob \in Job
    BY InitialTypes DEF TypeOK
  <1>2. slot[s].turn \in Turns /\ slot[s].claim \in Nat
    BY <1>1 DEF Job
  <1>3. job \in Job
    BY <1>1, <1>2 DEF Job, Locations
  <1>4. /\ job.pc = "failing" /\ job.turn = slot[s].turn /\ job.claim = slot[s].claim
        /\ job.dirty = FALSE
    BY DEF IdleJob
  <1>5. SetJob(s, job)
    BY DEF Fault
  <1> HIDE DEF job
  <1> QED BY <1>3, <1>4, <1>5, SetJobStep DEF SlotStep, Continues

\* Retire leaves an idle slot.
LEMMA RetireStep ==
    ASSUME TypeOK, NEW s \in Slots, Retire(s)
    PROVE  SlotStep(s, IdleJob) /\ slot'[s].pc = "idle" /\ slot'[s].dirty = FALSE
  <1>1. SlotStep(s, IdleJob)
    BY InitialTypes, SetJobStep DEF Retire
  <1>2. IdleJob.pc = "idle" /\ IdleJob.dirty = FALSE
    BY DEF IdleJob
  <1> QED BY <1>1, <1>2 DEF SlotStep

\* StartPlan stands before the first unit.
LEMMA StartPlanStep ==
    ASSUME TypeOK, NEW s \in Slots, StartPlan(s)
    PROVE  /\ Continues(s)
           /\ slot'[s].pc = "unit"
           /\ slot'[s].unit = 1
           /\ slot'[s].units >= 1
           /\ slot'[s].dirty = slot[s].dirty
  <1> PICK n \in 1..MaxUnits : SetJob(s, [slot[s] EXCEPT !.pc = "unit", !.unit = 1,
                                                         !.units = n])
    BY DEF StartPlan
  <1> DEFINE job == [slot[s] EXCEPT !.pc = "unit", !.unit = 1, !.units = n]
  <1>1. slot[s] \in Job
    BY DEF TypeOK
  <1>2. n \in Nat /\ n >= 1
    BY BoundsAssumption
  <1>3. job \in Job
    BY <1>1, <1>2 DEF Job, Locations
  <1>4. /\ job.pc = "unit" /\ job.turn = slot[s].turn /\ job.claim = slot[s].claim
        /\ job.unit = 1 /\ job.units = n /\ job.dirty = slot[s].dirty
    BY <1>1 DEF Job
  <1>5. SetJob(s, job)
    OBVIOUS
  <1> HIDE DEF job
  <1> QED BY <1>2, <1>3, <1>4, <1>5, SetJobStep DEF SlotStep, Continues

\* Replan drops the plan and any uncommitted effect.
LEMMA ReplanStep ==
    ASSUME TypeOK, NEW s \in Slots, NEW t \in Turns, Replan(s, t)
    PROVE  /\ Continues(s)
           /\ slot'[s].pc \in {"answered", "reasoning"}
           /\ slot'[s].unit = 0
           /\ slot'[s].units = 0
           /\ slot'[s].dirty = FALSE
  <1> DEFINE pc == IF turn[t].replans >= MaxReplans THEN "answered" ELSE "reasoning"
             seen == control[t].seq
             job == [slot[s] EXCEPT !.pc = pc, !.seen = seen, !.unit = 0, !.units = 0,
                                    !.dirty = FALSE]
  <1>1. slot[s] \in Job /\ control[t] \in ControlRow
    BY DEF TypeOK
  <1>2. pc \in {"answered", "reasoning"} /\ seen \in Nat
    BY <1>1 DEF ControlRow
  <1>3. SetJob(s, job)
    BY DEF Replan
  <1> HIDE DEF pc, seen
  <1>4. job \in Job
    BY <1>1, <1>2 DEF Job, Locations
  <1>5. /\ job.pc = pc /\ job.turn = slot[s].turn /\ job.claim = slot[s].claim
        /\ job.unit = 0 /\ job.units = 0 /\ job.dirty = FALSE
    BY <1>1 DEF Job
  <1> HIDE DEF job
  <1> QED BY <1>2, <1>3, <1>4, <1>5, SetJobStep DEF SlotStep, Continues

-----------------------------------------------------------------------------
(* The inductive invariant *)

Busy(s) == slot[s].pc # "idle"

\* Locations before a plan is started.
BeforePlan == {"claimed", "reasoning", "decided", "planning", "proposing"}
InPlan == {"unit", "boundary", "executing", "effected", "synthesis"}

\* The claim of the worker in s has committed the write barrier.
Beyond(s) ==
    \/ slot[s].pc \in {"executing", "effected", "synthesis"}
    \/ slot[s].pc \in {"unit", "boundary"} /\ slot[s].unit > 1
    \/ slot[s].pc = "answered" /\ slot[s].units > 0

\* States a turn can be in while the barrier of its last claim stands.
BarrierStates == {"running", "completed", "cancelled", "recovery_required"}

\* Exactly the running turns are leased, and to their last claim.
LeaseInv ==
    \A t \in Turns : IF turn[t].state = "running" THEN turn[t].lease = turn[t].attempts
                                                  ELSE turn[t].lease = 0

\* A worker's claim is one of the claims made, and no other worker has it.
ClaimInv ==
    /\ \A s \in Slots : Busy(s) =>
          1 <= slot[s].claim /\ slot[s].claim <= turn[slot[s].turn].attempts
    /\ \A s1, s2 \in Slots :
          /\ Busy(s1) /\ Busy(s2)
          /\ slot[s1].turn = slot[s2].turn
          /\ slot[s1].claim = slot[s2].claim
          => s1 = s2

\* The counters of a job agree with its location; only a worker beyond the barrier
\* holds uncommitted effects.
JobInv ==
    \A s \in Slots :
        /\ slot[s].pc \in BeforePlan => slot[s].units = 0
        /\ slot[s].pc \in InPlan => 1 <= slot[s].unit /\ slot[s].unit <= slot[s].units
        /\ slot[s].dirty => \/ slot[s].pc \in {"effected", "synthesis"}
                            \/ slot[s].pc = "answered" /\ slot[s].units > 0

\* A turn that can be claimed again has no barrier, and no result until it is offered
\* to the user or settled.
RowInv ==
    \A t \in Turns :
        /\ turn[t].state \in {"absent", "queued", "awaiting_confirmation"} => ~turn[t].barrier
        /\ turn[t].state \in {"absent", "queued", "running"} => ~turn[t].result

\* The stored plan is one that a rollback undoes as a whole.
Atomic(t) == turn[t].plan = "executing_atomic"

\* Without its lease, the worker in s cannot make an effect durable any more.
Harmless(s) ==
    /\ slot[s].units = 1
    /\ slot[s].pc = "executing" => slot[s].mode = "odoo_atomic"

\* A worker beyond the barrier made the last claim, and the barrier still stands; when
\* its turn was reconciled to failed, it is harmless.  An owner that is not beyond the
\* barrier finds it clear.
BarrierInv ==
    \A s \in Slots :
        /\ Beyond(s) => /\ turn[slot[s].turn].barrier
                        /\ slot[s].claim = turn[slot[s].turn].attempts
                        /\ \/ turn[slot[s].turn].state \in BarrierStates
                           \/ turn[slot[s].turn].state = "failed" /\ Harmless(s)
        /\ Busy(s) /\ slot[s].pc # "failing" /\ Owns(s) /\ ~Beyond(s) =>
              ~turn[slot[s].turn].barrier

\* Durable effects are those of the last claim and stand behind the barrier.
EffectInv ==
    \A t \in Turns : \A c \in effects[t] : /\ c = turn[t].attempts
                                           /\ turn[t].barrier
                                           /\ turn[t].state \in BarrierStates

\* A worker that runs its first unit has no durable effect.
FirstInv ==
    \A s \in Slots : slot[s].pc = "executing" /\ slot[s].unit = 1 =>
        effects[slot[s].turn] = {}

\* A turn whose stored plan is atomic has no durable effect, and the worker that runs
\* the plan is harmless.
AtomicInv ==
    /\ \A t \in Turns : Atomic(t) => effects[t] = {}
    /\ \A s \in Slots : Beyond(s) /\ Atomic(slot[s].turn) => Harmless(s)

Inv == /\ TypeOK /\ LeaseInv /\ ClaimInv /\ JobInv /\ RowInv /\ BarrierInv /\ EffectInv
       /\ FirstInv /\ AtomicInv

\* The types of the fields the invariant speaks of.
Fields ==
    /\ \A t \in Turns : /\ turn[t].attempts \in Nat
                        /\ turn[t].lease \in Nat
                        /\ turn[t].state \in TurnStates
                        /\ turn[t].barrier \in BOOLEAN
                        /\ turn[t].result \in BOOLEAN
    /\ \A s \in Slots : /\ slot[s].pc \in Locations
                        /\ slot[s].turn \in Turns
                        /\ slot[s].claim \in Nat
                        /\ slot[s].unit \in Nat
                        /\ slot[s].units \in Nat
                        /\ slot[s].mode \in Modes
                        /\ slot[s].dirty \in BOOLEAN

\* Well-typed rows and jobs have well-typed fields.
LEMMA FieldTypes == TypeOK => Fields
  BY DEF TypeOK, Fields, TurnRow, Job

\* ... and so have those of the next state.
LEMMA FieldTypesNext == TypeOK' => Fields'
  BY DEF TypeOK, Fields, TurnRow, Job

-----------------------------------------------------------------------------
(* The kinds of steps, in terms of the fields the invariant speaks of *)

\* No row changes in what the invariant sees.
SameCore ==
    \A t \in Turns : /\ turn'[t].state = turn[t].state
                     /\ turn'[t].attempts = turn[t].attempts
                     /\ turn'[t].lease = turn[t].lease
                     /\ turn'[t].barrier = turn[t].barrier
                     /\ turn'[t].result = turn[t].result
                     /\ turn'[t].plan = "executing_atomic" => Atomic(t)

OtherTurnsSame(t) == \A u \in Turns \ {t} : turn'[u] = turn[u]
OtherSlotsSame(s) == \A x \in Slots \ {s} : slot'[x] = slot[x]

\* The turn leaves its state and its lease, and keeps its attempts and its barrier.
Settles(t) ==
    /\ OtherTurnsSame(t)
    /\ turn[t].state \notin TerminalStates
    /\ turn'[t].state \notin {"absent", "running"}
    /\ turn'[t].attempts = turn[t].attempts
    /\ turn'[t].barrier = turn[t].barrier
    /\ turn'[t].lease = 0
    /\ turn[t].barrier => turn'[t].state \in BarrierStates
    /\ turn'[t].state = "queued" => ~turn'[t].result
    /\ turn'[t].plan = "executing_atomic" => Atomic(t)

\* The review of a turn is resolved.
Resolves(t) ==
    /\ OtherTurnsSame(t)
    /\ turn[t].state = "recovery_required"
    /\ Atomic(t)
    /\ turn'[t].state = "failed"
    /\ turn'[t].attempts = turn[t].attempts
    /\ turn'[t].lease = turn[t].lease
    /\ turn'[t].barrier = turn[t].barrier
    /\ turn'[t].result = turn[t].result

\* A step of the queue or the browser.
TableMove ==
    /\ UNCHANGED <<slot, effects>>
    /\ SameCore \/ \E t \in Turns : Settles(t) \/ Resolves(t)

ClaimMove(s, t) ==
    /\ ~Busy(s)
    /\ Cardinality(Active) < Capacity
    /\ turn[t].state = "queued"
    /\ OtherTurnsSame(t)
    /\ turn'[t].state = "running"
    /\ turn'[t].attempts = turn[t].attempts + 1
    /\ turn'[t].lease = turn[t].attempts + 1
    /\ turn'[t].barrier = turn[t].barrier
    /\ turn'[t].result = turn[t].result
    /\ turn'[t].plan = "executing_atomic" => Atomic(t)
    /\ OtherSlotsSame(s)
    /\ slot'[s].pc = "claimed"
    /\ slot'[s].turn = t
    /\ slot'[s].claim = turn[t].attempts + 1
    /\ slot'[s].units = 0
    /\ slot'[s].dirty = FALSE
    /\ UNCHANGED effects

\* The worker gives its turn up, or only its transaction.
LeaveMove(s) ==
    /\ Busy(s)
    /\ OtherSlotsSame(s)
    /\ slot'[s].dirty = FALSE
    /\ \/ slot'[s].pc = "idle"
       \/ /\ slot'[s].pc = "failing"
          /\ slot'[s].turn = slot[s].turn
          /\ slot'[s].claim = slot[s].claim
    /\ \/ SameCore /\ UNCHANGED effects
       \/ /\ Owns(s)
          /\ Settles(slot[s].turn)
          /\ \/ UNCHANGED effects
             \/ CommitEffects(s) /\ turn'[slot[s].turn].plan # "executing_atomic"

\* The worker goes on without touching the barrier or the effects.
Reasons(s) ==
    /\ slot[s].pc \in BeforePlan
    /\ slot'[s].pc \in BeforePlan \union {"answered"}
    /\ slot'[s].units = 0
    /\ slot'[s].dirty = FALSE

StartsPlan(s) ==
    /\ slot[s].pc \in BeforePlan
    /\ slot'[s].pc = "unit"
    /\ slot'[s].unit = 1
    /\ slot'[s].units >= 1
    /\ slot'[s].dirty = FALSE

DropsPlan(s) ==
    /\ slot'[s].pc \in {"answered", "reasoning"}
    /\ slot'[s].units = 0
    /\ slot'[s].dirty = FALSE

SameCounters(s) ==
    /\ slot'[s].unit = slot[s].unit
    /\ slot'[s].units = slot[s].units

Proceeds(s) ==
    /\ \/ /\ slot[s].pc = "unit" /\ slot'[s].pc = "boundary"
          /\ ControlFault(slot[s].turn) = "none" /\ UNCHANGED control
       \/ slot[s].pc = "effected" /\ slot'[s].pc = "synthesis"
       \/ slot[s].pc = "synthesis" /\ slot'[s].pc = "answered"
    /\ SameCounters(s)
    /\ slot'[s].dirty = slot[s].dirty

\* A step of the worker in s that changes no row in what the invariant sees.
ThinkMove(s) ==
    /\ Continues(s)
    /\ SameCore
    /\ UNCHANGED effects
    /\ \/ Reasons(s)
       \/ StartsPlan(s)
       \/ Proceeds(s)
       \/ slot[s].pc = "unit" /\ ~turn[slot[s].turn].barrier /\ DropsPlan(s)

\* The barrier of the turn is set or cleared.
BarrierBecomes(t, b) ==
    /\ OtherTurnsSame(t)
    /\ turn'[t].state = turn[t].state
    /\ turn'[t].attempts = turn[t].attempts
    /\ turn'[t].lease = turn[t].lease
    /\ turn'[t].barrier = b
    /\ turn'[t].result = turn[t].result

\* CommitUnit
RaiseMove(s) ==
    /\ Continues(s)
    /\ Owns(s)
    /\ slot[s].pc = "boundary"
    /\ slot'[s].pc = "executing"
    /\ SameCounters(s)
    /\ slot'[s].dirty = slot[s].dirty
    /\ BarrierBecomes(slot[s].turn, TRUE)
    /\ turn'[slot[s].turn].plan = "executing_atomic" =>
          slot[s].units = 1 /\ slot'[s].mode = "odoo_atomic"
    /\ UNCHANGED effects

\* RepairExecution
UndoMove(s) ==
    /\ Continues(s)
    /\ slot[s].pc = "executing"
    /\ slot[s].units = 1
    /\ DropsPlan(s)
    /\ BarrierBecomes(slot[s].turn, FALSE)
    /\ turn'[slot[s].turn].plan # "executing_atomic"
    /\ UNCHANGED effects

\* RunUnit, AfterUnit and PersistReceipt
EffectMove(s) ==
    /\ Continues(s)
    /\ SameCore
    /\ slot'[s].units = slot[s].units
    /\ \/ /\ slot[s].pc = "executing" /\ slot'[s].pc = "effected"
          /\ slot'[s].unit = slot[s].unit
          /\ UNCHANGED effects \/ slot[s].mode = "external"
       \/ /\ slot[s].pc = "effected" /\ slot'[s].pc = "unit"
          /\ slot[s].unit < slot[s].units
          /\ slot'[s].unit = slot[s].unit + 1
          /\ slot'[s].dirty = FALSE
       \/ /\ slot[s].pc = "synthesis" /\ slot'[s].pc = "synthesis"
          /\ Owns(s)
          /\ turn'[slot[s].turn].plan # "executing_atomic"
          /\ slot'[s].unit = slot[s].unit
          /\ slot'[s].dirty = FALSE
    /\ \/ UNCHANGED effects
       \/ effects' = [effects EXCEPT ![slot[s].turn] = @ \union {slot[s].claim}]

-----------------------------------------------------------------------------
(* Every kind of step preserves the invariant *)

\* The queue and the browser preserve the invariant.
LEMMA TableMovePreserves ==
    ASSUME Inv, TypeOK', TableMove
    PROVE  Inv'
  <1> USE FieldTypes, FieldTypesNext DEF Fields
  <1>1. LeaseInv'
    BY DEF Inv, LeaseInv, TableMove, SameCore, Settles, Resolves, OtherTurnsSame
  <1>2. ClaimInv'
    BY DEF Inv, ClaimInv, Busy, TableMove, SameCore, Settles, Resolves, OtherTurnsSame
  <1>3. JobInv'
    BY DEF Inv, JobInv, TableMove
  <1>4. RowInv'
    BY DEF Inv, RowInv, TableMove, SameCore, Settles, Resolves, OtherTurnsSame, BarrierStates
  <1>5. BarrierInv'
    BY DEF Inv, BarrierInv, Beyond, Harmless, Busy, Owns, HoldsLease, TableMove, SameCore,
           Settles, Resolves, OtherTurnsSame, BarrierStates, AtomicInv
  <1>6. EffectInv'
    BY DEF Inv, EffectInv, AtomicInv, TableMove, SameCore, Settles, Resolves, OtherTurnsSame,
           BarrierStates
  <1>7. FirstInv'
    BY DEF Inv, FirstInv, TableMove
  <1>8. AtomicInv'
    <2>1. \A t \in Turns : Atomic(t)' => Atomic(t)
      BY DEF TableMove, SameCore, Settles, Resolves, OtherTurnsSame, Atomic
    <2> QED BY <2>1 DEF Inv, AtomicInv, Beyond, Harmless, TableMove
  <1> QED BY <1>1, <1>2, <1>3, <1>4, <1>5, <1>6, <1>7, <1>8 DEF Inv

\* A claim preserves the invariant.
LEMMA ClaimMovePreserves ==
    ASSUME Inv, TypeOK', NEW s \in Slots, NEW t \in Turns, ClaimMove(s, t)
    PROVE  Inv'
  <1> USE FieldTypes, FieldTypesNext DEF Fields
  <1>1. LeaseInv'
    BY DEF Inv, LeaseInv, ClaimMove, OtherTurnsSame
  <1>2. ClaimInv'
    BY DEF Inv, ClaimInv, Busy, ClaimMove, OtherTurnsSame, OtherSlotsSame
  <1>3. JobInv'
    BY DEF Inv, JobInv, ClaimMove, OtherSlotsSame, InPlan, BeforePlan
  <1>4. RowInv'
    BY DEF Inv, RowInv, ClaimMove, OtherTurnsSame
  <1>5. BarrierInv'
    BY DEF Inv, BarrierInv, RowInv, Beyond, Harmless, Busy, Owns, HoldsLease, ClaimMove,
           OtherTurnsSame, OtherSlotsSame, BarrierStates, ClaimInv
  <1>6. EffectInv'
    BY DEF Inv, EffectInv, RowInv, ClaimMove, OtherTurnsSame, OtherSlotsSame, BarrierStates
  <1>7. FirstInv'
    BY DEF Inv, FirstInv, ClaimMove, OtherSlotsSame
  <1>8. AtomicInv'
    <2>1. \A u \in Turns : Atomic(u)' => Atomic(u)
      BY DEF ClaimMove, OtherTurnsSame, Atomic
    <2> QED BY <2>1 DEF Inv, AtomicInv, Beyond, Harmless, ClaimMove, OtherSlotsSame
  <1> QED BY <1>1, <1>2, <1>3, <1>4, <1>5, <1>6, <1>7, <1>8 DEF Inv

\* Leaving a turn preserves the invariant.
LEMMA LeaveMovePreserves ==
    ASSUME Inv, TypeOK', NEW s \in Slots, LeaveMove(s)
    PROVE  Inv'
  <1> USE FieldTypes, FieldTypesNext DEF Fields
  <1>1. LeaseInv'
    BY DEF Inv, LeaseInv, LeaveMove, SameCore, Settles, OtherTurnsSame
  <1>2. ClaimInv'
    BY DEF Inv, ClaimInv, Busy, LeaveMove, SameCore, Settles, OtherTurnsSame, OtherSlotsSame
  <1>3. JobInv'
    BY DEF Inv, JobInv, LeaveMove, OtherSlotsSame, InPlan, BeforePlan
  <1>4. RowInv'
    BY DEF Inv, RowInv, LeaveMove, SameCore, Settles, OtherTurnsSame, BarrierStates
  <1>5. BarrierInv'
    BY DEF Inv, BarrierInv, Beyond, Harmless, Busy, Owns, HoldsLease, LeaveMove, SameCore,
           Settles, OtherTurnsSame, OtherSlotsSame, BarrierStates
  <1>0. \/ effects' = effects
        \/ Beyond(s) /\ effects' = [effects EXCEPT ![slot[s].turn] = @ \union {slot[s].claim}]
    BY DEF LeaveMove, CommitEffects, Inv, TypeOK, JobInv, Beyond
  <1>6. EffectInv'
    <2>1. \A t \in Turns : \A c \in effects'[t] :
             c \in effects[t] \/ (Beyond(s) /\ t = slot[s].turn /\ c = slot[s].claim)
      BY <1>0 DEF Inv, TypeOK
    <2>2. \A t \in Turns : \A c \in effects'[t] :
             c = turn[t].attempts /\ turn[t].barrier /\ turn[t].state \in BarrierStates
      BY <2>1 DEF Inv, EffectInv, BarrierInv, LeaveMove, Owns, BarrierStates
    <2> QED BY <2>2 DEF EffectInv, LeaveMove, SameCore, Settles, OtherTurnsSame
  <1>7. FirstInv'
    <2>1. \A x \in Slots : x # s /\ Beyond(s) /\ slot[x].pc = "executing" =>
             slot[x].turn # slot[s].turn
      BY DEF Inv, BarrierInv, Beyond, ClaimInv, Busy, LeaveMove
    <2>2. \A x \in Slots : x # s /\ slot[x].pc = "executing" =>
             effects'[slot[x].turn] = effects[slot[x].turn]
      BY <1>0, <2>1 DEF Inv, TypeOK
    <2> QED BY <2>2 DEF Inv, FirstInv, LeaveMove, OtherSlotsSame
  <1>8. AtomicInv'
    <2>1. \A t \in Turns : Atomic(t)' => Atomic(t)
      <3>1. CASE SameCore
        BY <3>1 DEF SameCore, Atomic
      <3>2. CASE Settles(slot[s].turn)
        BY <3>2 DEF Settles, OtherTurnsSame, Atomic
      <3> QED BY <3>1, <3>2 DEF LeaveMove
    <2>2. \A t \in Turns : Atomic(t)' => effects'[t] = effects[t]
      BY DEF LeaveMove, CommitEffects, Atomic, Inv, TypeOK
    <2> QED BY <2>1, <2>2 DEF Inv, AtomicInv, Beyond, Harmless, LeaveMove, OtherSlotsSame
  <1> QED BY <1>1, <1>2, <1>3, <1>4, <1>5, <1>6, <1>7, <1>8 DEF Inv

\* A worker's step that leaves barrier and effects alone preserves the invariant.
LEMMA ThinkMovePreserves ==
    ASSUME Inv, TypeOK', NEW s \in Slots, ThinkMove(s)
    PROVE  Inv'
  <1> USE FieldTypes, FieldTypesNext DEF Fields
  <1> USE DEF Reasons, StartsPlan, DropsPlan, Proceeds, SameCounters, InPlan, BeforePlan
  <1>1. LeaseInv'
    BY DEF Inv, LeaseInv, ThinkMove, SameCore
  <1>2. ClaimInv'
    BY DEF Inv, ClaimInv, Busy, ThinkMove, Continues, SameCore
  <1>3. JobInv'
    BY DEF Inv, JobInv, ThinkMove, Continues
  <1>4. RowInv'
    BY DEF Inv, RowInv, ThinkMove, SameCore
  <1>5. BarrierInv'
    BY DEF Inv, BarrierInv, JobInv, Beyond, Harmless, Busy, Owns, HoldsLease, ThinkMove,
           Continues, SameCore
  <1>6. EffectInv'
    BY DEF Inv, EffectInv, ThinkMove, SameCore
  <1>7. FirstInv'
    BY DEF Inv, FirstInv, ThinkMove, Continues
  <1>8. AtomicInv'
    BY DEF Inv, AtomicInv, JobInv, Beyond, Harmless, ThinkMove, Continues, SameCore, Atomic
  <1> QED BY <1>1, <1>2, <1>3, <1>4, <1>5, <1>6, <1>7, <1>8 DEF Inv

\* Raising the barrier preserves the invariant: its worker is the only owner.
LEMMA RaiseMovePreserves ==
    ASSUME Inv, TypeOK', NEW s \in Slots, RaiseMove(s)
    PROVE  Inv'
  <1> USE FieldTypes, FieldTypesNext DEF Fields
  <1> USE DEF SameCounters, InPlan, BeforePlan
  <1>1. LeaseInv'
    BY DEF Inv, LeaseInv, RaiseMove, BarrierBecomes, OtherTurnsSame
  <1>2. ClaimInv'
    BY DEF Inv, ClaimInv, Busy, RaiseMove, Continues, BarrierBecomes, OtherTurnsSame
  <1>3. JobInv'
    BY DEF Inv, JobInv, RaiseMove, Continues
  <1>4. RowInv'
    BY DEF Inv, RowInv, RaiseMove, BarrierBecomes, OtherTurnsSame, Owns
  <1>5. BarrierInv'
    <2>1. \A x \in Slots : x # s /\ Busy(x) /\ slot[x].turn = slot[s].turn => ~Owns(x)
      BY DEF Inv, ClaimInv, Busy, RaiseMove, Owns, HoldsLease
    <2> QED BY <2>1 DEF Inv, BarrierInv, LeaseInv, Beyond, Harmless, Busy, Owns, HoldsLease,
                        RaiseMove, Continues, BarrierBecomes, OtherTurnsSame, BarrierStates
  <1>6. EffectInv'
    BY DEF Inv, EffectInv, RaiseMove, BarrierBecomes, OtherTurnsSame
  <1>7. FirstInv'
    <2>1. slot[s].unit = 1 => ~turn[slot[s].turn].barrier
      BY DEF Inv, BarrierInv, Beyond, Busy, RaiseMove
    <2>2. slot[s].unit = 1 => effects[slot[s].turn] = {}
      BY <2>1 DEF Inv, EffectInv
    <2> QED BY <2>2 DEF Inv, FirstInv, RaiseMove, Continues
  <1>8. AtomicInv'
    <2>1. \A x \in Slots : x # s /\ Beyond(x) => slot[x].turn # slot[s].turn
      BY DEF Inv, ClaimInv, LeaseInv, BarrierInv, Beyond, Busy, RaiseMove, Owns, HoldsLease
    <2>2. Atomic(slot[s].turn)' => effects[slot[s].turn] = {}
      <3>1. Atomic(slot[s].turn)' => slot[s].unit = 1
        BY DEF Inv, JobInv, RaiseMove, Atomic, Continues
      <3>2. slot[s].unit = 1 => ~turn[slot[s].turn].barrier
        BY DEF Inv, BarrierInv, Beyond, Busy, RaiseMove
      <3> QED BY <3>1, <3>2 DEF Inv, EffectInv
    <2>3. \A u \in Turns \ {slot[s].turn} : turn'[u] = turn[u]
      BY DEF RaiseMove, BarrierBecomes, OtherTurnsSame
    <2> QED BY <2>1, <2>2, <2>3
            DEF Inv, AtomicInv, Beyond, Harmless, RaiseMove, Continues, Atomic
  <1> QED BY <1>1, <1>2, <1>3, <1>4, <1>5, <1>6, <1>7, <1>8 DEF Inv

\* Clearing the barrier preserves the invariant: its worker made the last claim, and
\* the only unit of its plan left no effect.
LEMMA UndoMovePreserves ==
    ASSUME Inv, TypeOK', NEW s \in Slots, UndoMove(s)
    PROVE  Inv'
  <1> USE FieldTypes, FieldTypesNext DEF Fields
  <1> USE DEF DropsPlan, InPlan, BeforePlan
  <1>0. \A x \in Slots : x # s /\ slot[x].turn = slot[s].turn => ~Beyond(x)
    BY DEF Inv, ClaimInv, BarrierInv, Beyond, Busy, UndoMove
  <1>1. LeaseInv'
    BY DEF Inv, LeaseInv, UndoMove, BarrierBecomes, OtherTurnsSame
  <1>2. ClaimInv'
    BY DEF Inv, ClaimInv, Busy, UndoMove, Continues, BarrierBecomes, OtherTurnsSame
  <1>3. JobInv'
    BY DEF Inv, JobInv, UndoMove, Continues
  <1>4. RowInv'
    BY DEF Inv, RowInv, UndoMove, BarrierBecomes, OtherTurnsSame
  <1>5. BarrierInv'
    BY <1>0 DEF Inv, BarrierInv, Beyond, Harmless, Busy, Owns, HoldsLease, UndoMove,
                Continues, BarrierBecomes, OtherTurnsSame
  <1>6. EffectInv'
    <2>1. effects[slot[s].turn] = {}
      BY DEF Inv, FirstInv, JobInv, UndoMove
    <2> QED BY <2>1 DEF Inv, EffectInv, UndoMove, BarrierBecomes, OtherTurnsSame
  <1>7. FirstInv'
    BY DEF Inv, FirstInv, UndoMove, Continues
  <1>8. AtomicInv'
    BY <1>0 DEF Inv, AtomicInv, Beyond, Harmless, UndoMove, Continues, Atomic,
                BarrierBecomes, OtherTurnsSame
  <1> QED BY <1>1, <1>2, <1>3, <1>4, <1>5, <1>6, <1>7, <1>8 DEF Inv

\* Running and committing a unit preserves the invariant.
LEMMA EffectMovePreserves ==
    ASSUME Inv, TypeOK', NEW s \in Slots, EffectMove(s)
    PROVE  Inv'
  <1> USE FieldTypes, FieldTypesNext DEF Fields
  <1> USE DEF InPlan, BeforePlan
  <1>1. LeaseInv'
    BY DEF Inv, LeaseInv, EffectMove, SameCore
  <1>2. ClaimInv'
    BY DEF Inv, ClaimInv, Busy, EffectMove, Continues, SameCore
  <1>3. JobInv'
    BY DEF Inv, JobInv, EffectMove, Continues
  <1>4. RowInv'
    BY DEF Inv, RowInv, EffectMove, SameCore
  <1>5. BarrierInv'
    BY DEF Inv, BarrierInv, JobInv, Beyond, Harmless, Busy, Owns, HoldsLease, EffectMove,
           Continues, SameCore
  <1>6. EffectInv'
    <2>1. /\ turn[slot[s].turn].barrier
          /\ slot[s].claim = turn[slot[s].turn].attempts
          /\ UNCHANGED effects \/ turn[slot[s].turn].state \in BarrierStates
      BY DEF Inv, BarrierInv, JobInv, Beyond, Harmless, Owns, BarrierStates, EffectMove
    <2>2. \A t \in Turns : \A c \in effects'[t] :
             c \in effects[t] \/ (t = slot[s].turn /\ c = slot[s].claim)
      BY DEF Inv, TypeOK, EffectMove
    <2> QED BY <2>1, <2>2 DEF Inv, EffectInv, EffectMove, SameCore
  <1>7. FirstInv'
    <2>1. \A x \in Slots : x # s /\ slot[x].pc = "executing" => slot[x].turn # slot[s].turn
      BY DEF Inv, BarrierInv, Beyond, ClaimInv, Busy, EffectMove
    <2>2. \A x \in Slots : x # s /\ slot[x].pc = "executing" =>
             effects'[slot[x].turn] = effects[slot[x].turn]
      BY <2>1 DEF Inv, TypeOK, EffectMove
    <2> QED BY <2>2 DEF Inv, FirstInv, EffectMove, Continues
  <1>8. AtomicInv'
    <2>1. \A t \in Turns : Atomic(t)' => effects'[t] = effects[t]
      BY DEF Inv, TypeOK, AtomicInv, JobInv, Atomic, Beyond, Harmless, EffectMove, SameCore
    <2> QED BY <2>1 DEF Inv, AtomicInv, JobInv, Beyond, Harmless, EffectMove, Continues,
                        SameCore, Atomic
  <1> QED BY <1>1, <1>2, <1>3, <1>4, <1>5, <1>6, <1>7, <1>8 DEF Inv

-----------------------------------------------------------------------------
(* Every action is a step of one of these kinds *)

\* A worker's step is well typed when the tables it writes are.
LEMMA WorkerTypes ==
    ASSUME TypeOK, NEW s \in Slots,
           turn' = turn \/ turn' \in [Turns -> TurnRow],
           slot' \in [Slots -> Job],
           effects' = effects \/ effects' \in [Turns -> SUBSET Nat],
           control' = control \/ control' \in [Turns -> ControlRow],
           UNCHANGED request,
           \/ UNCHANGED conflict
           \/ EndTransaction(s)
           \/ TouchConversation(slot[s].turn, {s})
    PROVE  TypeOK'
  BY DEF TypeOK, EndTransaction, TouchConversation

\* Committing adds at most the worker's claim.
LEMMA CommitEffectsStep ==
    ASSUME TypeOK, NEW s \in Slots, CommitEffects(s)
    PROVE  /\ effects' \in [Turns -> SUBSET Nat]
           /\ \/ effects' = effects
              \/ effects' = [effects EXCEPT ![slot[s].turn] = @ \union {slot[s].claim}]
  <1>1. slot[s].turn \in Turns /\ slot[s].claim \in Nat
    BY FieldTypes DEF Fields
  <1>2. CASE slot[s].dirty
    BY <1>1, <1>2 DEF TypeOK, CommitEffects
  <1>3. CASE ~slot[s].dirty
    BY <1>1, <1>3 DEF TypeOK, CommitEffects
  <1> QED BY <1>2, <1>3

\* A fault of the control row is an error code.
LEMMA ControlFaultType == \A t \in Turns : ControlFault(t) \in Errors
  BY DEF ControlFault, Errors

\* A step into "failing" that writes no row and no effect.
LEMMA FaultMove ==
    ASSUME Inv, NEW s \in Slots, NEW code \in Errors, Busy(s), Fault(s, code),
           UNCHANGED <<turn, effects>>
    PROVE  LeaveMove(s) /\ slot' \in [Slots -> Job]
  BY FaultStep DEF Inv, LeaveMove, Continues, SameCore, Atomic, OtherSlotsSame

\* A step into "idle" that writes no row and no effect.
LEMMA RetireMove ==
    ASSUME Inv, NEW s \in Slots, Busy(s), Retire(s), UNCHANGED <<turn, effects>>
    PROVE  LeaveMove(s) /\ slot' \in [Slots -> Job]
  BY RetireStep DEF Inv, LeaveMove, SlotStep, SameCore, Atomic, OtherSlotsSame

\* A worker that has not started a plan holds no units and no effects.
LEMMA CleanBeforePlan ==
    ASSUME Inv, NEW s \in Slots, slot[s].pc \in BeforePlan
    PROVE  slot[s].units = 0 /\ slot[s].dirty = FALSE /\ Busy(s)
  BY FieldTypes DEF Inv, JobInv, Fields, BeforePlan, Busy

\* A jump between the locations before a plan.
LEMMA GotoMove ==
    ASSUME Inv, NEW s \in Slots, NEW pc \in BeforePlan \union {"answered"}, Goto(s, pc),
           slot[s].pc \in BeforePlan, UNCHANGED <<turn, effects>>
    PROVE  ThinkMove(s) /\ slot' \in [Slots -> Job]
  <1>1. pc \in Locations
    BY DEF BeforePlan, Locations
  <1> QED BY <1>1, GotoStep, CleanBeforePlan
          DEF Inv, ThinkMove, Reasons, SameCore, Atomic, Continues

\* The start of a plan.
LEMMA StartPlanMove ==
    ASSUME Inv, NEW s \in Slots, StartPlan(s), slot[s].pc \in BeforePlan,
           UNCHANGED <<turn, effects>>
    PROVE  ThinkMove(s) /\ slot' \in [Slots -> Job]
  BY StartPlanStep, CleanBeforePlan DEF Inv, ThinkMove, StartsPlan, SameCore, Atomic, Continues

\* Giving up a claim.
LEMMA AbandonClaimStep ==
    ASSUME Inv, NEW s \in Slots, AbandonClaim(s)
    PROVE  TypeOK' /\ LeaveMove(s)
  BY RetireMove, WorkerTypes DEF AbandonClaim, Busy, Inv

\* A crash only frees the slot: the claim's transaction is rolled back.
LEMMA CrashStep ==
    ASSUME Inv, NEW s \in Slots, Crash(s)
    PROVE  TypeOK' /\ LeaveMove(s)
  BY RetireMove, WorkerTypes DEF Crash, Busy, Inv

\* An exception leaves the row alone; FailClaimedTurn decides on it later.
LEMMA RaiseStep ==
    ASSUME Inv, NEW s \in Slots, Raise(s)
    PROVE  TypeOK' /\ LeaveMove(s)
  BY FaultMove, WorkerTypes DEF Raise, Busy, Inv, Errors

\* A failed lease check or write leaves the row alone.
LEMMA WriteConflictStep ==
    ASSUME Inv, NEW s \in Slots, WriteConflict(s)
    PROVE  TypeOK' /\ LeaveMove(s)
  BY FaultMove, WorkerTypes DEF WriteConflict, Busy, Inv, Errors

\* Small talk ends in an answer without a plan, or in a control fault.
LEMMA SocialAnswerStep ==
    ASSUME Inv, NEW s \in Slots, SocialAnswer(s)
    PROVE  TypeOK' /\ (LeaveMove(s) \/ ThinkMove(s))
  <1>1. CASE Fault(s, ControlFault(slot[s].turn))
    BY <1>1, FaultMove, ControlFaultType, WorkerTypes, FieldTypes
       DEF SocialAnswer, Started, Busy, Inv, Fields
  <1>2. CASE Goto(s, "answered")
    BY <1>2, GotoMove, WorkerTypes DEF SocialAnswer, Started, Inv, BeforePlan
  <1> QED BY <1>1, <1>2 DEF SocialAnswer

\* An approved plan starts at its first unit.
LEMMA ResumePlanStep ==
    ASSUME Inv, NEW s \in Slots, ResumePlan(s)
    PROVE  TypeOK' /\ ThinkMove(s)
  BY StartPlanMove, WorkerTypes DEF ResumePlan, Started, Inv, BeforePlan

\* Reasoning ends in an answer, a plan or a control fault.
LEMMA FinishReasoningStep ==
    ASSUME Inv, NEW s \in Slots, FinishReasoning(s)
    PROVE  TypeOK' /\ (LeaveMove(s) \/ ThinkMove(s))
  <1>1. CASE Fault(s, ControlFault(slot[s].turn))
    BY <1>1, FaultMove, ControlFaultType, WorkerTypes, FieldTypes
       DEF FinishReasoning, Busy, Inv, Fields
  <1>2. CASE Goto(s, "answered") \/ Goto(s, "planning")
    BY <1>2, GotoMove, WorkerTypes DEF FinishReasoning, Inv, BeforePlan
  <1> QED BY <1>1, <1>2 DEF FinishReasoning

\* A prepared plan is offered, started or interrupted.
LEMMA PreparePlanStep ==
    ASSUME Inv, NEW s \in Slots, PreparePlan(s)
    PROVE  TypeOK' /\ (LeaveMove(s) \/ ThinkMove(s))
  <1>1. CASE Fault(s, ControlFault(slot[s].turn))
    BY <1>1, FaultMove, ControlFaultType, WorkerTypes, FieldTypes
       DEF PreparePlan, Busy, Inv, Fields
  <1>2. CASE Goto(s, "proposing")
    BY <1>2, GotoMove, WorkerTypes DEF PreparePlan, Inv, BeforePlan
  <1>3. CASE StartPlan(s)
    BY <1>3, StartPlanMove, WorkerTypes DEF PreparePlan, Inv, BeforePlan
  <1> QED BY <1>1, <1>2, <1>3 DEF PreparePlan

\* A change of the seen intervention only.
LEMMA SeenStep ==
    ASSUME TypeOK, NEW s \in Slots, NEW pc \in Locations, NEW n \in Nat,
           SetJob(s, [slot[s] EXCEPT !.pc = pc, !.seen = n])
    PROVE  /\ Continues(s)
           /\ slot'[s].pc = pc
           /\ slot'[s].units = slot[s].units
           /\ slot'[s].dirty = slot[s].dirty
  <1> DEFINE job == [slot[s] EXCEPT !.pc = pc, !.seen = n]
  <1>1. slot[s] \in Job
    BY DEF TypeOK
  <1>2. job \in Job
    BY <1>1 DEF Job
  <1>3. /\ job.pc = pc /\ job.turn = slot[s].turn /\ job.claim = slot[s].claim
        /\ job.units = slot[s].units /\ job.dirty = slot[s].dirty
    BY <1>1 DEF Job
  <1>4. SetJob(s, job)
    OBVIOUS
  <1> HIDE DEF job
  <1> QED BY <1>2, <1>3, <1>4, SetJobStep DEF SlotStep, Continues

\* The control row of a turn is well typed, before and after its updates.
LEMMA ControlTypes ==
    ASSUME TypeOK, NEW t \in Turns
    PROVE  /\ control[t].seq \in Nat /\ control[t].applied \in Nat
           /\ [control EXCEPT ![t].applied = control[t].seq] \in [Turns -> ControlRow]
           /\ [control EXCEPT ![t].seq = @ + 1] \in [Turns -> ControlRow]
           /\ [control EXCEPT ![t].cancel = TRUE] \in [Turns -> ControlRow]
  <1>1. control[t] \in ControlRow /\ control \in [Turns -> ControlRow]
    BY DEF TypeOK
  <1>2. control[t].seq \in Nat /\ control[t].applied \in Nat /\ control[t].seq + 1 \in Nat
    BY <1>1 DEF ControlRow
  <1>3. \A n \in Nat : /\ [control[t] EXCEPT !.applied = n] \in ControlRow
                       /\ [control[t] EXCEPT !.seq = n] \in ControlRow
    BY <1>1 DEF ControlRow
  <1>4. [control[t] EXCEPT !.cancel = TRUE] \in ControlRow
    BY <1>1 DEF ControlRow
  <1> QED BY <1>1, <1>2, <1>3, <1>4

\* A redirect seen by the running decision changes no row.
LEMMA ObserveInterventionStep ==
    ASSUME Inv, NEW s \in Slots, ObserveIntervention(s)
    PROVE  TypeOK' /\ ThinkMove(s)
  <1> DEFINE n == control[slot[s].turn].seq
  <1>1. slot[s] \in Job /\ n \in Nat /\ slot[s].pc = "reasoning"
    BY ControlTypes, FieldTypes DEF Inv, TypeOK, Fields, ObserveIntervention
  <1>2. [slot[s] EXCEPT !.seen = n] = [slot[s] EXCEPT !.pc = "reasoning", !.seen = n]
    BY <1>1 DEF Job
  <1>3. SetJob(s, [slot[s] EXCEPT !.pc = "reasoning", !.seen = n])
    BY <1>2 DEF ObserveIntervention
  <1> HIDE DEF n
  <1>4. /\ Continues(s) /\ slot'[s].pc = "reasoning"
        /\ slot'[s].units = slot[s].units /\ slot'[s].dirty = slot[s].dirty
    BY <1>1, <1>3, SeenStep DEF Inv, Locations
  <1>5. UNCHANGED <<turn, control, request, conflict, effects>>
    BY DEF ObserveIntervention
  <1> QED BY <1>1, <1>4, <1>5, CleanBeforePlan, WorkerTypes
          DEF Inv, ThinkMove, Reasons, SameCore, Atomic, Continues, BeforePlan

\* Asking for the next decision changes no row.
LEMMA NextDecisionStep ==
    ASSUME Inv, NEW s \in Slots, NextDecision(s)
    PROVE  TypeOK' /\ ThinkMove(s)
  <1> DEFINE n == control[slot[s].turn].seq
  <1>1. n \in Nat /\ slot[s].pc = "decided"
    BY ControlTypes, FieldTypes DEF Inv, TypeOK, Fields, NextDecision
  <1>2. SetJob(s, [slot[s] EXCEPT !.pc = "reasoning", !.seen = n])
    BY DEF NextDecision
  <1> HIDE DEF n
  <1>3. /\ Continues(s) /\ slot'[s].pc = "reasoning"
        /\ slot'[s].units = slot[s].units /\ slot'[s].dirty = slot[s].dirty
    BY <1>1, <1>2, SeenStep DEF Inv, Locations
  <1>4. UNCHANGED <<turn, control, request, effects>> /\ EndTransaction(s)
    BY DEF NextDecision
  <1> QED BY <1>1, <1>3, <1>4, CleanBeforePlan, WorkerTypes
          DEF Inv, ThinkMove, Reasons, SameCore, Atomic, Continues, BeforePlan

\* Marking the interventions as applied writes the control row only.
LEMMA AcceptDecisionStep ==
    ASSUME Inv, NEW s \in Slots, AcceptDecision(s)
    PROVE  TypeOK' /\ (LeaveMove(s) \/ ThinkMove(s))
  <1>1. slot[s].pc = "reasoning" /\ slot[s].turn \in Turns
    BY FieldTypes DEF Inv, Fields, AcceptDecision
  <1>2. UNCHANGED <<turn, request, conflict, effects>>
    BY DEF AcceptDecision
  <1>3. CASE Fault(s, "agent_cancelled") /\ UNCHANGED control
    BY <1>1, <1>2, <1>3, FaultMove, WorkerTypes DEF Busy, Inv, Errors
  <1>4. CASE /\ control' = [control EXCEPT ![slot[s].turn].applied = control[slot[s].turn].seq]
             /\ SetJob(s, [slot[s] EXCEPT !.pc = "decided", !.seen = 0])
    <2>1. /\ Continues(s) /\ slot'[s].pc = "decided"
          /\ slot'[s].units = slot[s].units /\ slot'[s].dirty = slot[s].dirty
      BY <1>4, SeenStep DEF Inv, Locations
    <2>2. control' \in [Turns -> ControlRow]
      BY <1>1, <1>4, ControlTypes DEF Inv
    <2> QED BY <1>1, <1>2, <2>1, <2>2, CleanBeforePlan, WorkerTypes
            DEF Inv, ThinkMove, Reasons, SameCore, Atomic, Continues, BeforePlan
  <1> QED BY <1>3, <1>4 DEF AcceptDecision

\* A row that agrees with r in what the invariant sees.
Keeps(row, r) ==
    /\ row \in TurnRow
    /\ row.state = r.state
    /\ row.attempts = r.attempts
    /\ row.lease = r.lease
    /\ row.barrier = r.barrier
    /\ row.result = r.result
    /\ row.plan = "executing_atomic" => r.plan = "executing_atomic"

\* A row that r becomes when its lease is released.
Leaves(row, r) ==
    /\ row \in TurnRow
    /\ row.state \notin {"absent", "running"}
    /\ row.attempts = r.attempts
    /\ row.lease = 0
    /\ row.barrier = r.barrier
    /\ row.state = "queued" => ~row.result
    /\ row.plan = "executing_atomic" => r.plan = "executing_atomic"

\* Writing a row that agrees with the old one changes nothing the invariant sees.
LEMMA KeepsStep ==
    ASSUME TypeOK, NEW t \in Turns, NEW row, Keeps(row, turn[t]), SetTurn(t, row)
    PROVE  SameCore /\ turn' \in [Turns -> TurnRow]
  <1>1. TurnStep(t, row)
    BY SetTurnStep DEF Keeps
  <1> QED BY <1>1 DEF TurnStep, SameCore, Keeps, Atomic

\* Writing a released row settles the turn.
LEMMA LeavesStep ==
    ASSUME TypeOK, NEW t \in Turns, NEW row, Leaves(row, turn[t]), SetTurn(t, row),
           turn[t].state \notin TerminalStates,
           turn[t].barrier => row.state \in BarrierStates
    PROVE  Settles(t) /\ turn' \in [Turns -> TurnRow]
  <1>1. TurnStep(t, row)
    BY SetTurnStep DEF Leaves
  <1> QED BY <1>1 DEF TurnStep, Settles, OtherTurnsSame, Leaves, Atomic

\* Rows that differ in their bookkeeping only.
LEMMA BookkeepingRows ==
    ASSUME NEW r \in TurnRow
    PROVE  /\ \A n \in Nat : Keeps([r EXCEPT !.replans = n], r)
           /\ \A n \in Nat : Keeps([r EXCEPT !.plan = "none", !.error = "none",
                                             !.replans = n], r)
           /\ Keeps([r EXCEPT !.plan = "completed"], r)
           /\ Keeps([r EXCEPT !.expired = TRUE], r)
           /\ r.replans + 1 \in Nat
  <1> USE DEF Keeps, TurnRow, PlanStates, Errors
  <1>1. \A n \in Nat : Keeps([r EXCEPT !.replans = n], r)
    OBVIOUS
  <1>2. \A n \in Nat : Keeps([r EXCEPT !.plan = "none", !.error = "none", !.replans = n], r)
    OBVIOUS
  <1>3. Keeps([r EXCEPT !.plan = "completed"], r)
    OBVIOUS
  <1>4. Keeps([r EXCEPT !.expired = TRUE], r)
    OBVIOUS
  <1>5. r.replans + 1 \in Nat
    OBVIOUS
  <1> QED BY <1>1, <1>2, <1>3, <1>4, <1>5

\* Released rows, one per way to leave.
LEMMA ReleasedRows ==
    ASSUME NEW r \in TurnRow, NEW plan \in PlanStates,
           plan = "executing_atomic" => r.plan = "executing_atomic"
    PROVE  /\ Leaves([Released(r) EXCEPT !.state = "cancelled"], r)
           /\ Leaves([Released(r) EXCEPT !.state = "cancelled", !.plan = plan], r)
           /\ Leaves([Released(r) EXCEPT !.state = "completed", !.result = TRUE,
                                         !.plan = plan], r)
           /\ Leaves([Released(r) EXCEPT !.state = "completed", !.plan = plan,
                                         !.result = TRUE], r)
           /\ Leaves([Released(r) EXCEPT !.state = "awaiting_confirmation",
                                         !.plan = plan, !.result = TRUE], r)
           /\ r.plan \in PlanStates
  <1> USE DEF Leaves, Released, TurnRow, TurnStates, TerminalStates
  <1>1. Leaves([Released(r) EXCEPT !.state = "cancelled"], r)
    OBVIOUS
  <1>2. Leaves([Released(r) EXCEPT !.state = "cancelled", !.plan = plan], r)
    OBVIOUS
  <1>3. Leaves([Released(r) EXCEPT !.state = "completed", !.result = TRUE, !.plan = plan], r)
    OBVIOUS
  <1>4. Leaves([Released(r) EXCEPT !.state = "completed", !.plan = plan, !.result = TRUE], r)
    OBVIOUS
  <1>5. Leaves([Released(r) EXCEPT !.state = "awaiting_confirmation", !.plan = plan,
                                   !.result = TRUE], r)
    OBVIOUS
  <1>6. r.plan \in PlanStates
    OBVIOUS
  <1> QED BY <1>1, <1>2, <1>3, <1>4, <1>5, <1>6

\* Rows that go back to the queue after a decision of the user.
LEMMA RequeuedRows ==
    ASSUME NEW r \in TurnRow, NEW n \in Nat
    PROVE  /\ Leaves([Released(r) EXCEPT !.state = "queued", !.plan = "authorized",
                                  !.result = FALSE, !.error = "none", !.max = n], r)
           /\ Leaves([Released(r) EXCEPT !.state = "queued", !.plan = "none",
                                  !.result = FALSE, !.error = "none", !.replans = 0,
                                  !.max = n], r)
  <1> USE DEF Leaves, Released, TurnRow, TurnStates, TerminalStates, PlanStates, Errors
  <1>1. Leaves([Released(r) EXCEPT !.state = "queued", !.plan = "authorized",
                         !.result = FALSE, !.error = "none", !.max = n], r)
    OBVIOUS
  <1>2. Leaves([Released(r) EXCEPT !.state = "queued", !.plan = "none",
                         !.result = FALSE, !.error = "none", !.replans = 0, !.max = n], r)
    OBVIOUS
  <1> QED BY <1>1, <1>2

\* Starting to reason at most resets the replans of the row.
LEMMA ReasonStep ==
    ASSUME Inv, NEW s \in Slots, Reason(s)
    PROVE  TypeOK' /\ ThinkMove(s)
  <1> DEFINE t == slot[s].turn
             n == control[t].seq
  <1>1. t \in Turns /\ n \in Nat /\ slot[s].pc = "claimed" /\ turn[t] \in TurnRow
    BY ControlTypes, FieldTypes DEF Inv, TypeOK, Fields, Reason, Started
  <1>2. SetJob(s, [slot[s] EXCEPT !.pc = "reasoning", !.seen = n])
    BY DEF Reason
  <1>3. UNCHANGED turn \/ SetTurn(t, [turn[t] EXCEPT !.replans = 0])
    BY DEF Reason
  <1>4. UNCHANGED <<control, request, effects>> /\ EndTransaction(s)
    BY DEF Reason
  <1> HIDE DEF n, t
  <1>5. /\ Continues(s) /\ slot'[s].pc = "reasoning"
        /\ slot'[s].units = slot[s].units /\ slot'[s].dirty = slot[s].dirty
    BY <1>1, <1>2, SeenStep DEF Inv, Locations
  <1>6. SameCore /\ (UNCHANGED turn \/ turn' \in [Turns -> TurnRow])
    <2>1. Keeps([turn[t] EXCEPT !.replans = 0], turn[t])
      BY <1>1, BookkeepingRows
    <2>2. CASE UNCHANGED turn
      BY <2>2 DEF SameCore, Atomic
    <2>3. CASE SetTurn(t, [turn[t] EXCEPT !.replans = 0])
      BY <1>1, <2>1, <2>3, KeepsStep DEF Inv
    <2> QED BY <1>3, <2>2, <2>3
  <1> QED BY <1>1, <1>4, <1>5, <1>6, CleanBeforePlan, WorkerTypes
          DEF Inv, ThinkMove, Reasons, Continues, BeforePlan

\* A plan that cannot be prepared is dropped before any barrier.
LEMMA PrepareErrorStep ==
    ASSUME Inv, NEW s \in Slots, PrepareError(s)
    PROVE  TypeOK' /\ ThinkMove(s)
  <1> DEFINE t == slot[s].turn
             n == turn[t].replans + 1
  <1>1. t \in Turns /\ slot[s].pc = "planning" /\ turn[t] \in TurnRow
    BY FieldTypes DEF Inv, TypeOK, Fields, PrepareError
  <1>2. SetTurn(t, [turn[t] EXCEPT !.replans = n]) /\ Replan(s, t)
    BY DEF PrepareError
  <1>3. UNCHANGED <<control, request, effects>> /\ EndTransaction(s)
    BY DEF PrepareError
  <1>4. n \in Nat /\ Keeps([turn[t] EXCEPT !.replans = n], turn[t])
    BY <1>1, BookkeepingRows
  <1> HIDE DEF n, t
  <1>5. SameCore /\ turn' \in [Turns -> TurnRow]
    BY <1>1, <1>2, <1>4, KeepsStep DEF Inv
  <1> QED BY <1>1, <1>2, <1>3, <1>5, ReplanStep, WorkerTypes
          DEF Inv, ThinkMove, Reasons, Continues, BeforePlan

\* Only an owner offers a plan, and its turn has no barrier.
LEMMA PersistAwaitingPlanStep ==
    ASSUME Inv, NEW s \in Slots, PersistAwaitingPlan(s)
    PROVE  TypeOK' /\ LeaveMove(s)
  <1> DEFINE t == slot[s].turn
             row == [Released(turn[t]) EXCEPT !.state = "awaiting_confirmation",
                                              !.plan = "awaiting_confirmation",
                                              !.result = TRUE]
  <1>1. t \in Turns /\ slot[s].pc = "proposing" /\ turn[t] \in TurnRow /\ Busy(s)
    BY FieldTypes DEF Inv, TypeOK, Fields, PersistAwaitingPlan, Busy
  <1>2. SetTurn(t, row) /\ Owns(s) /\ turn[t].state = "running"
    BY DEF PersistAwaitingPlan, Owns
  <1>3. /\ UNCHANGED <<control, request, effects>>
        /\ TouchConversation(slot[s].turn, {s})
        /\ Retire(s)
    BY DEF PersistAwaitingPlan
  <1>4. ~turn[t].barrier
    BY <1>1, <1>2 DEF Inv, BarrierInv, Beyond
  <1>5. Leaves(row, turn[t])
    BY <1>1, ReleasedRows DEF PlanStates
  <1> HIDE DEF row
  <1>6. Settles(t) /\ turn' \in [Turns -> TurnRow]
    BY <1>1, <1>2, <1>4, <1>5, LeavesStep DEF Inv, TerminalStates
  <1> QED BY <1>1, <1>2, <1>3, <1>6, RetireStep, WorkerTypes
          DEF Inv, LeaveMove, SlotStep, OtherSlotsSame

\* Only an owner cancels the turn it claimed.
LEMMA CancelClaimedTurnStep ==
    ASSUME Inv, NEW s \in Slots, CancelClaimedTurn(s)
    PROVE  TypeOK' /\ LeaveMove(s)
  <1> DEFINE t == slot[s].turn
             row == [Released(turn[t]) EXCEPT !.state = "cancelled"]
  <1>1. t \in Turns /\ turn[t] \in TurnRow /\ Busy(s)
    BY FieldTypes DEF Inv, TypeOK, Fields, CancelClaimedTurn, Busy
  <1>2. SetTurn(t, row) /\ Owns(s) /\ turn[t].state = "running"
    BY DEF CancelClaimedTurn, Owns
  <1>3. UNCHANGED <<control, request, effects>> /\ EndTransaction(s) /\ Retire(s)
    BY DEF CancelClaimedTurn
  <1>4. Leaves(row, turn[t]) /\ row.state = "cancelled"
    BY <1>1, ReleasedRows DEF PlanStates, Released, TurnRow
  <1> HIDE DEF row
  <1>5. Settles(t) /\ turn' \in [Turns -> TurnRow]
    BY <1>1, <1>2, <1>4, LeavesStep DEF Inv, TerminalStates, BarrierStates
  <1> QED BY <1>1, <1>2, <1>3, <1>5, RetireStep, WorkerTypes
          DEF Inv, LeaveMove, SlotStep, OtherSlotsSame

\* Only an owner completes the turn; its effects are committed with it.
LEMMA CompleteTurnStep ==
    ASSUME Inv, NEW s \in Slots, CompleteTurn(s)
    PROVE  TypeOK' /\ LeaveMove(s)
  <1> DEFINE t == slot[s].turn
             plan == IF slot[s].units > 0 THEN "completed" ELSE turn[t].plan
             row == [Released(turn[t]) EXCEPT !.state = "completed", !.result = TRUE,
                                              !.plan = plan]
  <1>1. t \in Turns /\ turn[t] \in TurnRow /\ Busy(s)
    BY FieldTypes DEF Inv, TypeOK, Fields, CompleteTurn, Busy
  <1>2. plan \in PlanStates /\ (plan = "executing_atomic" => turn[t].plan = plan)
    BY <1>1 DEF TurnRow, PlanStates
  <1>2a. plan = "executing_atomic" => ~slot[s].dirty
    <2>1. slot[s].pc = "answered" /\ (slot[s].dirty => slot[s].units > 0)
      BY DEF CompleteTurn, Inv, JobInv
    <2> QED BY <2>1
  <1>3. row = [Released(turn[t]) EXCEPT !.state = "completed", !.result = TRUE,
                                 !.plan = IF slot[s].units > 0 THEN "completed" ELSE @]
    BY <1>1 DEF Released, TurnRow
  <1>4. SetTurn(t, row) /\ Owns(s) /\ turn[t].state = "running"
    BY <1>3 DEF CompleteTurn, Owns
  <1>5. /\ UNCHANGED <<control, request>> /\ CommitEffects(s)
        /\ TouchConversation(slot[s].turn, {s}) /\ Retire(s)
    BY DEF CompleteTurn
  <1> HIDE DEF plan
  <1>6. Leaves(row, turn[t]) /\ row.state = "completed" /\ row.plan = plan
    BY <1>1, <1>2, ReleasedRows DEF Released, TurnRow
  <1> HIDE DEF row
  <1>7. Settles(t) /\ turn' \in [Turns -> TurnRow]
    BY <1>1, <1>4, <1>6, LeavesStep DEF Inv, TerminalStates, BarrierStates
  <1>8. effects' \in [Turns -> SUBSET Nat]
    BY <1>5, CommitEffectsStep DEF Inv
  <1>9. \/ UNCHANGED effects
        \/ CommitEffects(s) /\ turn'[t].plan # "executing_atomic"
    <2>1. turn'[t].plan = plan
      BY <1>1, <1>4, <1>6, SetTurnStep DEF Inv, TurnStep, Leaves
    <2>2. ~slot[s].dirty => UNCHANGED effects
      BY <1>1, <1>5 DEF CommitEffects, Inv, TypeOK
    <2> QED BY <1>2a, <1>5, <2>1, <2>2
  <1> QED BY <1>1, <1>4, <1>5, <1>7, <1>8, <1>9, RetireStep, WorkerTypes
          DEF Inv, LeaveMove, SlotStep, OtherSlotsSame

\* A failed or requeued row.
FailedAs(r, m, st, x) == [[Released(r) EXCEPT !.max = m] EXCEPT !.state = st, !.error = x]

\* A failed row differs in its state, its error, its ceiling and its lease.
LEMMA FailedAsLeaves ==
    ASSUME NEW r \in TurnRow, ~r.result, NEW m \in Nat, NEW x \in Errors,
           NEW st \in TurnStates \ {"absent", "running"}
    PROVE  Leaves(FailedAs(r, m, st, x), r) /\ FailedAs(r, m, st, x).state = st
  <1> DEFINE row == FailedAs(r, m, st, x)
  <1>1. row \in TurnRow
    BY DEF FailedAs, Released, TurnRow
  <1>2. /\ row.state = st /\ row.attempts = r.attempts /\ row.lease = 0
        /\ row.barrier = r.barrier /\ ~row.result /\ row.plan = r.plan
    BY DEF FailedAs, Released, TurnRow
  <1> QED BY <1>1, <1>2 DEF Leaves

\* The row of a failed claim is released, and stays behind its barrier.
LEMMA FailedRowLeaves ==
    ASSUME NEW t \in Turns, turn[t] \in TurnRow, ~turn[t].result, NEW code \in Errors
    PROVE  /\ Leaves(FailedRow(t, code), turn[t])
           /\ turn[t].barrier => FailedRow(t, code).state \in BarrierStates
  <1> DEFINE r == turn[t]
             cancelled == [Released(r) EXCEPT !.state = "cancelled"]
             b(m) == [Released(r) EXCEPT !.max = m].barrier
             st(m) == IF b(m) THEN "recovery_required" ELSE "failed"
  <1>2. Leaves(cancelled, r) /\ cancelled.state = "cancelled"
    BY ReleasedRows DEF PlanStates, Released, TurnRow
  <1>3. r.max \in Nat /\ r.max + 1 \in Nat /\ "none" \in Errors
    BY DEF TurnRow, Errors
  <1>4. \/ FailedRow(t, code) = cancelled
        \/ \E m \in Nat : ~b(m) /\ FailedRow(t, code) = FailedAs(r, m, "queued", "none")
        \/ \E m \in Nat : FailedRow(t, code) = FailedAs(r, m, st(m), code)
    BY <1>3 DEF FailedRow, FailedAs, Retryable
  <1>5. \A m : b(m) = r.barrier
    BY DEF Released, TurnRow
  <1>6. CASE FailedRow(t, code) = cancelled
    BY <1>2, <1>6 DEF BarrierStates
  <1>7. ASSUME NEW m \in Nat, ~b(m), FailedRow(t, code) = FailedAs(r, m, "queued", "none")
        PROVE  /\ Leaves(FailedRow(t, code), turn[t])
               /\ turn[t].barrier => FailedRow(t, code).state \in BarrierStates
    BY <1>3, <1>5, <1>7, FailedAsLeaves DEF TurnStates
  <1>8. ASSUME NEW m \in Nat, FailedRow(t, code) = FailedAs(r, m, st(m), code)
        PROVE  /\ Leaves(FailedRow(t, code), turn[t])
               /\ turn[t].barrier => FailedRow(t, code).state \in BarrierStates
    <2>1. st(m) \in {"recovery_required", "failed"}
      OBVIOUS
    <2>2. turn[t].barrier => st(m) = "recovery_required"
      BY <1>5
    <2> HIDE DEF st
    <2> QED BY <1>8, <2>1, <2>2, FailedAsLeaves DEF TurnStates, TerminalStates, BarrierStates
  <1> HIDE DEF b, st, cancelled
  <1> QED BY <1>4, <1>6, <1>7, <1>8

\* The failure handler writes only a row it still owns: it tests the lease alone,
\* and a worker's lease is never the empty one.
LEMMA FailClaimedTurnStep ==
    ASSUME Inv, NEW s \in Slots, FailClaimedTurn(s)
    PROVE  TypeOK' /\ LeaveMove(s)
  <1> DEFINE t == slot[s].turn
  <1>1. t \in Turns /\ turn[t] \in TurnRow /\ Busy(s) /\ slot[s].fault \in Errors
    BY DEF Inv, TypeOK, Job, FailClaimedTurn, Busy
  <1>2. UNCHANGED <<control, request, effects>> /\ EndTransaction(s) /\ Retire(s)
    BY DEF FailClaimedTurn
  <1>3. CASE HoldsLease(s)
    <2>1. Owns(s) /\ turn[t].state = "running"
      BY <1>1, <1>3, FieldTypes DEF Inv, ClaimInv, LeaseInv, Owns, HoldsLease, Fields
    <2>2. ~turn[t].result
      BY <1>1, <2>1 DEF Inv, RowInv
    <2>3. SetTurn(t, FailedRow(t, slot[s].fault))
      BY <1>3 DEF FailClaimedTurn
    <2>4. Settles(t) /\ turn' \in [Turns -> TurnRow]
      BY <1>1, <2>1, <2>2, <2>3, FailedRowLeaves, LeavesStep DEF Inv, TerminalStates
    <2> QED BY <1>1, <1>2, <2>1, <2>4, RetireStep, WorkerTypes
            DEF Inv, LeaveMove, SlotStep, OtherSlotsSame
  <1>4. CASE ~HoldsLease(s)
    <2>1. UNCHANGED turn
      BY <1>4 DEF FailClaimedTurn
    <2> QED BY <1>1, <1>2, <2>1, RetireMove, WorkerTypes DEF Inv
  <1> QED BY <1>3, <1>4

\* Taking the effect lock changes no row.
LEMMA BeforeUnitStep ==
    ASSUME Inv, NEW s \in Slots, BeforeUnit(s)
    PROVE  TypeOK' /\ (LeaveMove(s) \/ ThinkMove(s))
  <1>1. /\ slot[s].pc = "unit" /\ EndTransaction(s) /\ slot[s].turn \in Turns
        /\ UNCHANGED <<turn, control, request, effects>>
    BY FieldTypes DEF BeforeUnit, Inv, Fields
  <1>2. CASE ControlFault(slot[s].turn) # "none"
    <2>1. Fault(s, ControlFault(slot[s].turn))
      BY <1>2 DEF BeforeUnit
    <2> QED BY <1>1, <2>1, FaultMove, ControlFaultType, WorkerTypes DEF Busy, Inv
  <1>3. CASE ControlFault(slot[s].turn) = "none"
    <2>1. Goto(s, "boundary") /\ "boundary" \in Locations
      BY <1>3 DEF BeforeUnit, Locations
    <2> QED BY <1>1, <1>3, <2>1, GotoStep, WorkerTypes
            DEF Inv, ThinkMove, Proceeds, SameCounters, SameCore, Atomic, Continues
  <1> QED BY <1>2, <1>3

\* The last unit stays uncommitted.
LEMMA FinishPlanStep ==
    ASSUME Inv, NEW s \in Slots, FinishPlan(s)
    PROVE  TypeOK' /\ ThinkMove(s)
  <1>1. "synthesis" \in Locations
    BY DEF Locations
  <1> QED BY <1>1, GotoStep, WorkerTypes
          DEF FinishPlan, Inv, ThinkMove, Proceeds, SameCounters, SameCore, Atomic, Continues

\* The synthesis ends in an answer or in a redirect fault.
LEMMA FinishSynthesisStep ==
    ASSUME Inv, NEW s \in Slots, FinishSynthesis(s)
    PROVE  TypeOK' /\ (LeaveMove(s) \/ ThinkMove(s))
  <1> DEFINE t == slot[s].turn
  <1>1. /\ t \in Turns /\ slot[s].pc = "synthesis" /\ UNCHANGED <<turn, request, effects>>
        /\ UNCHANGED conflict \/ EndTransaction(s)
    BY FieldTypes DEF Inv, Fields, FinishSynthesis
  <1>2. control' = control \/ control' \in [Turns -> ControlRow]
    BY <1>1, ControlTypes DEF FinishSynthesis, Inv
  <1>3. CASE Goto(s, "answered")
    <2>1. "answered" \in Locations
      BY DEF Locations
    <2> QED BY <1>1, <1>2, <1>3, <2>1, GotoStep, WorkerTypes
            DEF Inv, ThinkMove, Proceeds, SameCounters, SameCore, Atomic, Continues
  <1>4. CASE Fault(s, "agent_redirected")
    BY <1>1, <1>2, <1>4, FaultMove, WorkerTypes DEF Busy, Inv, Errors
  <1> QED BY <1>3, <1>4 DEF FinishSynthesis

\* A job of the same claim and plan as j.
JobOf(job, j, pc, n, d) ==
    /\ job \in Job
    /\ job.turn = j.turn /\ job.claim = j.claim /\ job.units = j.units
    /\ job.pc = pc /\ job.unit = n /\ job.dirty = d

\* Such a job continues the worker's claim.
LEMMA JobOfStep ==
    ASSUME TypeOK, NEW s \in Slots, NEW job \in Job, SetJob(s, job),
           job.turn = slot[s].turn, job.claim = slot[s].claim
    PROVE  Continues(s) /\ slot'[s] = job
  BY SetJobStep DEF SlotStep, Continues

\* The jobs the plan's steps write.
LEMMA PlanJobs ==
    ASSUME NEW j \in Job, NEW pc \in Locations, NEW n \in Nat, NEW m \in Modes
    PROVE  /\ JobOf([j EXCEPT !.pc = pc, !.dirty = TRUE], j, pc, j.unit, TRUE)
           /\ JobOf([j EXCEPT !.pc = pc, !.mode = m], j, pc, j.unit, j.dirty)
           /\ JobOf([j EXCEPT !.pc = pc, !.unit = n, !.dirty = FALSE], j, pc, n, FALSE)
           /\ JobOf([j EXCEPT !.dirty = FALSE], j, j.pc, j.unit, FALSE)
           /\ j.unit + 1 \in Nat
  <1> USE DEF JobOf, Job
  <1>1. JobOf([j EXCEPT !.pc = pc, !.dirty = TRUE], j, pc, j.unit, TRUE)
    OBVIOUS
  <1>2. JobOf([j EXCEPT !.pc = pc, !.mode = m], j, pc, j.unit, j.dirty)
    OBVIOUS
  <1>3. JobOf([j EXCEPT !.pc = pc, !.unit = n, !.dirty = FALSE], j, pc, n, FALSE)
    OBVIOUS
  <1>4. JobOf([j EXCEPT !.dirty = FALSE], j, j.pc, j.unit, FALSE)
    OBVIOUS
  <1>5. j.unit + 1 \in Nat
    OBVIOUS
  <1> QED BY <1>1, <1>2, <1>3, <1>4, <1>5

\* The owner raises the barrier before the unit runs.
LEMMA CommitUnitStep ==
    ASSUME Inv, NEW s \in Slots, CommitUnit(s)
    PROVE  TypeOK' /\ RaiseMove(s)
  <1> DEFINE t == slot[s].turn
  <1>1. /\ t \in Turns /\ turn[t] \in TurnRow /\ slot[s] \in Job /\ slot[s].pc = "boundary"
        /\ Owns(s) /\ UNCHANGED <<control, request, effects>> /\ EndTransaction(s)
    BY DEF Inv, TypeOK, Job, CommitUnit
  <1>2. PICK m \in Modes :
           /\ SetTurn(t, [turn[t] EXCEPT !.barrier = TRUE,
                                         !.plan = ExecutingPlan(slot[s].units, m)])
           /\ SetJob(s, [slot[s] EXCEPT !.pc = "executing", !.mode = m])
    BY DEF CommitUnit
  <1> DEFINE plan == ExecutingPlan(slot[s].units, m)
             row == [turn[t] EXCEPT !.barrier = TRUE, !.plan = plan]
  <1>2a. /\ plan \in PlanStates
         /\ plan = "executing_atomic" => slot[s].units = 1 /\ m = "odoo_atomic"
    BY DEF ExecutingPlan, PlanStates
  <1>2b. SetTurn(t, row)
    BY <1>2
  <1> HIDE DEF plan
  <1>3. /\ row \in TurnRow /\ row.state = turn[t].state /\ row.attempts = turn[t].attempts
        /\ row.lease = turn[t].lease /\ row.barrier = TRUE /\ row.result = turn[t].result
        /\ row.plan = plan
    BY <1>1, <1>2a DEF TurnRow
  <1> HIDE DEF row
  <1>4. TurnStep(t, row)
    BY <1>1, <1>2b, <1>3, SetTurnStep DEF Inv
  <1>5. BarrierBecomes(t, TRUE)
    BY <1>1, <1>3, <1>4 DEF TurnStep, BarrierBecomes, OtherTurnsSame
  <1>6. /\ Continues(s) /\ slot'[s].pc = "executing" /\ slot'[s].unit = slot[s].unit
        /\ slot'[s].units = slot[s].units /\ slot'[s].dirty = slot[s].dirty
        /\ slot'[s].mode = m
    <2> DEFINE job == [slot[s] EXCEPT !.pc = "executing", !.mode = m]
    <2>1. JobOf(job, slot[s], "executing", slot[s].unit, slot[s].dirty) /\ job.mode = m
      BY <1>1, PlanJobs DEF Locations, Job
    <2>2. SetJob(s, job)
      BY <1>2
    <2> HIDE DEF job
    <2> QED BY <2>1, <2>2, JobOfStep DEF Inv, JobOf
  <1> QED BY <1>1, <1>2a, <1>3, <1>4, <1>5, <1>6, WorkerTypes
          DEF Inv, RaiseMove, SameCounters, TurnStep, Continues

\* Running a unit adds at most this claim to the durable effects.
LEMMA RunUnitStep ==
    ASSUME Inv, NEW s \in Slots, RunUnit(s)
    PROVE  TypeOK' /\ EffectMove(s)
  <1> DEFINE t == slot[s].turn
  <1>1. /\ t \in Turns /\ slot[s] \in Job /\ slot[s].pc = "executing" /\ slot[s].claim \in Nat
        /\ UNCHANGED <<turn, control, request, conflict>>
    BY DEF Inv, TypeOK, Job, RunUnit
  <1>2. CASE /\ SetJob(s, [slot[s] EXCEPT !.pc = "effected", !.dirty = TRUE])
             /\ UNCHANGED effects
    <2>1. /\ Continues(s) /\ slot'[s].pc = "effected" /\ slot'[s].unit = slot[s].unit
          /\ slot'[s].units = slot[s].units
      <3> DEFINE job == [slot[s] EXCEPT !.pc = "effected", !.dirty = TRUE]
      <3>1. JobOf(job, slot[s], "effected", slot[s].unit, TRUE)
        BY <1>1, PlanJobs DEF Locations, Modes
      <3>2. SetJob(s, job)
        BY <1>2
      <3> HIDE DEF job
      <3> QED BY <3>1, <3>2, JobOfStep DEF Inv, JobOf
    <2> QED BY <1>1, <1>2, <2>1, WorkerTypes DEF Inv, EffectMove, SameCore, Atomic, Continues
  <1>3. CASE /\ SetJob(s, [slot[s] EXCEPT !.pc = "effected", !.mode = IdleJob.mode])
             /\ effects' = [effects EXCEPT ![t] = @ \union {slot[s].claim}]
             /\ slot[s].mode = "external"
    <2>1. IdleJob.mode \in Modes
      BY DEF IdleJob, Modes
    <2>2. /\ Continues(s) /\ slot'[s].pc = "effected" /\ slot'[s].unit = slot[s].unit
          /\ slot'[s].units = slot[s].units
      <3> DEFINE job == [slot[s] EXCEPT !.pc = "effected", !.mode = IdleJob.mode]
      <3>1. JobOf(job, slot[s], "effected", slot[s].unit, slot[s].dirty)
        BY <1>1, <2>1, PlanJobs DEF Locations
      <3>2. SetJob(s, job)
        BY <1>3
      <3> HIDE DEF job
      <3> QED BY <3>1, <3>2, JobOfStep DEF Inv, JobOf
    <2>3. effects' \in [Turns -> SUBSET Nat]
      BY <1>1, <1>3 DEF Inv, TypeOK
    <2> QED BY <1>1, <1>3, <2>2, <2>3, WorkerTypes DEF Inv, EffectMove, SameCore, Atomic, Continues
  <1> QED BY <1>2, <1>3 DEF RunUnit

\* Committing a unit adds at most this claim to the durable effects.
LEMMA AfterUnitStep ==
    ASSUME Inv, NEW s \in Slots, AfterUnit(s)
    PROVE  TypeOK' /\ EffectMove(s)
  <1> DEFINE n == slot[s].unit + 1
  <1>1. /\ slot[s] \in Job /\ slot[s].pc = "effected" /\ slot[s].unit < slot[s].units
        /\ CommitEffects(s) /\ EndTransaction(s) /\ UNCHANGED <<turn, control, request>>
    BY DEF Inv, TypeOK, AfterUnit
  <1>2. n \in Nat /\ SetJob(s, [slot[s] EXCEPT !.pc = "unit", !.unit = n, !.dirty = FALSE])
    BY <1>1 DEF AfterUnit, Job
  <1> HIDE DEF n
  <1>3. /\ Continues(s) /\ slot'[s].pc = "unit" /\ slot'[s].unit = n
        /\ slot'[s].units = slot[s].units /\ slot'[s].dirty = FALSE
    <2> DEFINE job == [slot[s] EXCEPT !.pc = "unit", !.unit = n, !.dirty = FALSE]
    <2>1. JobOf(job, slot[s], "unit", n, FALSE)
      BY <1>1, <1>2, PlanJobs DEF Locations, Modes
    <2>2. SetJob(s, job)
      BY <1>2
    <2> HIDE DEF job
    <2> QED BY <2>1, <2>2, JobOfStep DEF Inv, JobOf
  <1> QED BY <1>1, <1>3, CommitEffectsStep, WorkerTypes
          DEF Inv, EffectMove, SameCore, Atomic, Continues, n

\* Persisting the receipt commits the last unit.
LEMMA PersistReceiptStep ==
    ASSUME Inv, NEW s \in Slots, PersistReceipt(s)
    PROVE  TypeOK' /\ EffectMove(s)
  <1> DEFINE t == slot[s].turn
  <1>1. /\ slot[s] \in Job /\ slot[s].pc = "synthesis" /\ t \in Turns /\ turn[t] \in TurnRow
        /\ SetTurn(t, [turn[t] EXCEPT !.plan = "completed"])
        /\ CommitEffects(s) /\ EndTransaction(s) /\ UNCHANGED <<control, request>>
        /\ SetJob(s, [slot[s] EXCEPT !.dirty = FALSE]) /\ Owns(s)
    BY DEF Inv, TypeOK, PersistReceipt, Job
  <1>2. /\ Continues(s) /\ slot'[s].pc = "synthesis" /\ slot'[s].unit = slot[s].unit
        /\ slot'[s].units = slot[s].units /\ slot'[s].dirty = FALSE
    <2> DEFINE job == [slot[s] EXCEPT !.dirty = FALSE]
    <2>1. JobOf(job, slot[s], slot[s].pc, slot[s].unit, FALSE)
      BY <1>1, PlanJobs DEF Locations, Modes
    <2>2. SetJob(s, job)
      BY <1>1
    <2> HIDE DEF job
    <2> QED BY <1>1, <2>1, <2>2, JobOfStep DEF Inv, JobOf
  <1>3. SameCore /\ turn' \in [Turns -> TurnRow]
    BY <1>1, BookkeepingRows, KeepsStep DEF Inv
  <1>4. turn'[t].plan = "completed"
    BY <1>1 DEF SetTurn, Inv, TypeOK, TurnRow
  <1> QED BY <1>1, <1>2, <1>3, <1>4, CommitEffectsStep, WorkerTypes DEF Inv, EffectMove, Continues

\* A preflight repair finds no barrier.
LEMMA RepairPreflightStep ==
    ASSUME Inv, NEW s \in Slots, RepairPreflight(s)
    PROVE  TypeOK' /\ (LeaveMove(s) \/ ThinkMove(s))
  <1> DEFINE t == slot[s].turn
             n == turn[t].replans + 1
             row == [turn[t] EXCEPT !.plan = "none", !.error = "none", !.replans = n]
  <1>1. /\ slot[s].pc = "unit" /\ t \in Turns /\ turn[t] \in TurnRow /\ ~turn[t].barrier
        /\ EndTransaction(s) /\ UNCHANGED <<control, request, effects>>
    BY DEF Inv, TypeOK, RepairPreflight, Job
  <1>2. CASE Fault(s, ControlFault(t)) /\ UNCHANGED turn
    BY <1>1, <1>2, FaultMove, ControlFaultType, WorkerTypes DEF Busy, Inv
  <1>3. CASE SetTurn(t, row) /\ Replan(s, t)
    <2>1. Keeps(row, turn[t])
      BY <1>1, BookkeepingRows
    <2> HIDE DEF row
    <2>2. SameCore /\ turn' \in [Turns -> TurnRow]
      BY <1>1, <1>3, <2>1, KeepsStep DEF Inv
    <2> QED BY <1>1, <1>3, <2>2, ReplanStep, WorkerTypes
            DEF Inv, ThinkMove, DropsPlan, Continues
  <1> QED BY <1>2, <1>3 DEF RepairPreflight

\* An execution repair clears the barrier of a plan of one unit.
LEMMA RepairExecutionStep ==
    ASSUME Inv, NEW s \in Slots, RepairExecution(s)
    PROVE  TypeOK' /\ (LeaveMove(s) \/ UndoMove(s))
  <1> DEFINE t == slot[s].turn
             n == turn[t].replans + 1
             row == [turn[t] EXCEPT !.barrier = FALSE, !.plan = "none", !.error = "none",
                                    !.replans = n]
  <1>1. /\ slot[s].pc = "executing" /\ slot[s].units = 1 /\ t \in Turns
        /\ turn[t] \in TurnRow /\ EndTransaction(s) /\ UNCHANGED <<control, request, effects>>
    BY DEF Inv, TypeOK, RepairExecution, Repairable, Job
  <1>2. CASE Fault(s, ControlFault(t)) /\ UNCHANGED turn
    BY <1>1, <1>2, FaultMove, ControlFaultType, WorkerTypes DEF Busy, Inv
  <1>3. CASE SetTurn(t, row) /\ Replan(s, t)
    <2>1. n \in Nat
      BY <1>1 DEF TurnRow
    <2> HIDE DEF n
    <2>2. /\ row \in TurnRow /\ row.state = turn[t].state /\ row.attempts = turn[t].attempts
          /\ row.lease = turn[t].lease /\ row.barrier = FALSE /\ row.result = turn[t].result
          /\ row.plan = "none"
      BY <1>1, <2>1 DEF TurnRow, PlanStates, Errors
    <2> HIDE DEF row
    <2>3. TurnStep(t, row)
      BY <1>1, <1>3, <2>2, SetTurnStep DEF Inv
    <2>4. BarrierBecomes(t, FALSE)
      BY <1>1, <2>2, <2>3 DEF TurnStep, BarrierBecomes, OtherTurnsSame
    <2> QED BY <1>1, <1>3, <2>2, <2>3, <2>4, ReplanStep, WorkerTypes
            DEF Inv, UndoMove, DropsPlan, Continues, TurnStep
  <1> QED BY <1>2, <1>3 DEF RepairExecution

-----------------------------------------------------------------------------
(* The queue *)

\* A step of the queue or the browser is well typed when the tables it writes are.
LEMMA TableTypes ==
    ASSUME TypeOK,
           turn' = turn \/ turn' \in [Turns -> TurnRow],
           control' = control \/ control' \in [Turns -> ControlRow],
           request' = request \/ request' \in [Requests -> RequestRow],
           UNCHANGED <<slot, effects>>,
           conflict' \subseteq Slots \union Requests
    PROVE  TypeOK'
  BY DEF TypeOK

\* A new turn is queued without lease, barrier or result.
LEMMA EnqueueStep ==
    ASSUME Inv, NEW t \in Turns, Enqueue(t)
    PROVE  TypeOK' /\ TableMove
  <1>1. /\ turn[t] \in TurnRow /\ turn[t].state = "absent"
        /\ UNCHANGED <<control, slot, request, effects>>
    BY DEF Inv, TypeOK, Enqueue
  <1>2. PICK b \in BOOLEAN : SetTurn(t, [turn[t] EXCEPT !.state = "queued", !.social = b])
    BY DEF Enqueue
  <1> DEFINE row == [turn[t] EXCEPT !.state = "queued", !.social = b]
  <1>3. turn[t].lease = 0 /\ ~turn[t].result /\ ~turn[t].barrier
    BY <1>1 DEF Inv, LeaseInv, RowInv
  <1>4. row \in TurnRow
    BY <1>1 DEF TurnRow, TurnStates
  <1>5. /\ row.state = "queued" /\ row.attempts = turn[t].attempts
        /\ row.lease = turn[t].lease /\ row.barrier = turn[t].barrier /\ ~row.result
        /\ row.plan = turn[t].plan
    BY <1>1, <1>3 DEF TurnRow
  <1>6. SetTurn(t, row)
    BY <1>2
  <1> HIDE DEF row
  <1>7. Settles(t) /\ turn' \in [Turns -> TurnRow]
    BY <1>1, <1>3, <1>4, <1>5, <1>6, LeavesStep DEF Inv, Leaves, TerminalStates
  <1>8. conflict' \subseteq Slots \union Requests
    BY DEF Enqueue, TouchConversation, Inv, TypeOK
  <1> QED BY <1>1, <1>7, <1>8, TableTypes DEF TableMove, Inv

\* Expiry changes nothing the invariant sees.
LEMMA ExpireLeaseStep ==
    ASSUME Inv, NEW t \in Turns, ExpireLease(t)
    PROVE  TypeOK' /\ TableMove
  <1>1. turn[t] \in TurnRow /\ SetTurn(t, [turn[t] EXCEPT !.expired = TRUE])
    BY DEF Inv, TypeOK, ExpireLease
  <1>2. Keeps([turn[t] EXCEPT !.expired = TRUE], turn[t])
    BY <1>1, BookkeepingRows
  <1>3. SameCore /\ turn' \in [Turns -> TurnRow]
    BY <1>1, <1>2, KeepsStep DEF Inv
  <1>4. UNCHANGED <<control, slot, request, effects>> /\ conflict' \subseteq Slots \union Requests
    BY DEF ExpireLease, Inv, TypeOK
  <1> QED BY <1>3, <1>4, TableTypes DEF TableMove, Inv

\* The row recovery leaves behind is released, and stays behind its barrier.
LEMMA RecoveredRowLeaves ==
    ASSUME NEW t \in Turns, turn[t] \in TurnRow, ~turn[t].result
    PROVE  /\ Leaves(RecoveredRow(t), turn[t])
           /\ turn[t].barrier => RecoveredRow(t).state \in BarrierStates
  <1>1. RecoveredRow(t) \in TurnRow
    BY DEF RecoveredRow, Released, TurnRow, TurnStates, TerminalStates, Errors
  <1>2. /\ RecoveredRow(t).state \notin {"absent", "running"}
        /\ RecoveredRow(t).attempts = turn[t].attempts
        /\ RecoveredRow(t).lease = 0
        /\ RecoveredRow(t).barrier = turn[t].barrier
        /\ ~RecoveredRow(t).result
        /\ RecoveredRow(t).plan = turn[t].plan
    BY DEF RecoveredRow, Released, TurnRow
  <1>3. turn[t].barrier => RecoveredRow(t).state \in BarrierStates
    BY DEF RecoveredRow, Released, TurnRow, BarrierStates
  <1> QED BY <1>1, <1>2, <1>3 DEF Leaves

\* Recovery releases a running row and keeps it behind its barrier.
LEMMA RecoverStaleTurnStep ==
    ASSUME Inv, NEW t \in Turns, RecoverStaleTurn(t)
    PROVE  TypeOK' /\ TableMove
  <1>1. /\ turn[t] \in TurnRow /\ turn[t].state = "running" /\ SetTurn(t, RecoveredRow(t))
        /\ UNCHANGED <<control, slot, request, effects>>
        /\ conflict' \subseteq Slots \union Requests
    BY DEF Inv, TypeOK, RecoverStaleTurn
  <1>2. ~turn[t].result
    BY <1>1 DEF Inv, RowInv
  <1>3. Settles(t) /\ turn' \in [Turns -> TurnRow]
    BY <1>1, <1>2, RecoveredRowLeaves, LeavesStep DEF Inv, TerminalStates
  <1> QED BY <1>1, <1>3, TableTypes DEF TableMove, Inv

\* A claim takes a queued row under a fresh lease.
LEMMA ClaimNextTurnStep ==
    ASSUME Inv, NEW s \in Slots, NEW t \in Turns, ClaimNextTurn(s, t)
    PROVE  TypeOK' /\ ClaimMove(s, t)
  <1> DEFINE n == turn[t].attempts + 1
             row == [turn[t] EXCEPT !.state = "running", !.attempts = n, !.lease = n,
                                    !.expired = FALSE]
             job == [IdleJob EXCEPT !.pc = "claimed", !.turn = t, !.claim = n]
  <1>1. /\ turn[t] \in TurnRow /\ turn[t].state = "queued" /\ ~Busy(s)
        /\ UNCHANGED <<control, request, effects>> /\ EndTransaction(s)
        /\ Cardinality(Active) < Capacity
    BY DEF Inv, TypeOK, ClaimNextTurn, Claimable, Busy
  <1>2. SetTurn(t, row) /\ SetJob(s, job)
    BY DEF ClaimNextTurn, NewLease
  <1>3. n \in Nat
    BY <1>1 DEF TurnRow
  <1> HIDE DEF n
  <1>4. row \in TurnRow
    BY <1>1, <1>3 DEF TurnRow, TurnStates
  <1>5. /\ row.state = "running" /\ row.attempts = n /\ row.lease = n
        /\ row.barrier = turn[t].barrier /\ row.result = turn[t].result
        /\ row.plan = turn[t].plan
    BY <1>1 DEF TurnRow
  <1>6. job \in Job
    BY <1>3, InitialTypes DEF Job, Locations
  <1>7. /\ job.pc = "claimed" /\ job.turn = t /\ job.claim = n
        /\ job.units = 0 /\ job.dirty = FALSE
    BY DEF IdleJob
  <1> HIDE DEF row, job
  <1>8. TurnStep(t, row) /\ SlotStep(s, job)
    BY <1>2, <1>4, <1>6, SetTurnStep, SetJobStep DEF Inv
  <1>9. TypeOK'
    BY <1>1, <1>8, WorkerTypes DEF Inv, TurnStep, SlotStep
  <1> QED BY <1>1, <1>5, <1>7, <1>8, <1>9
          DEF TurnStep, SlotStep, ClaimMove, OtherTurnsSame, OtherSlotsSame, Atomic, n

-----------------------------------------------------------------------------
(* The browser *)

\* A request's row is well typed; a request that ends leaves none.
LEMMA RequestTypes ==
    ASSUME TypeOK, NEW r \in Requests
    PROVE  /\ request[r].turn \in Turns
           /\ request[r].row \in TurnRow
           /\ [request EXCEPT ![r] = NoRequest] \in [Requests -> RequestRow]
  BY InitialTypes DEF TypeOK, RequestRow

\* Beginning a request writes no row.
LEMMA BeginRequestStep ==
    ASSUME Inv, NEW r \in Requests, NEW kind \in {"redirect", "cancel"}, NEW t \in Turns,
           BeginRequest(r, kind, t)
    PROVE  TypeOK' /\ TableMove
  <1> DEFINE row == Snapshot(kind, turn[t])
             q == [kind |-> kind, turn |-> t, row |-> row, ctl |-> control[t]]
  <1>1. turn[t] \in TurnRow /\ control[t] \in ControlRow
    BY DEF Inv, TypeOK
  <1>2. row \in TurnRow
    BY <1>1, InitialTypes DEF Snapshot, TurnRow
  <1>3. request' = [request EXCEPT ![r] = q] /\ UNCHANGED <<turn, control, slot, effects>>
    BY DEF BeginRequest
  <1> HIDE DEF row
  <1>4. q \in RequestRow
    BY <1>1, <1>2 DEF RequestRow
  <1> HIDE DEF q
  <1>5. request' \in [Requests -> RequestRow]
    BY <1>3, <1>4 DEF Inv, TypeOK
  <1>6. conflict' \subseteq Slots \union Requests
    BY DEF BeginRequest, EndTransaction, Inv, TypeOK
  <1> QED BY <1>3, <1>5, <1>6, TableTypes DEF TableMove, SameCore, Atomic, Inv

\* A rolled back request writes no row.
LEMMA AbortRequestStep ==
    ASSUME Inv, NEW r \in Requests, AbortRequest(r)
    PROVE  TypeOK' /\ TableMove
  <1>1. request' \in [Requests -> RequestRow] /\ UNCHANGED <<turn, control, slot, effects>>
    BY RequestTypes DEF AbortRequest, Inv
  <1>2. conflict' \subseteq Slots \union Requests
    BY DEF AbortRequest, EndTransaction, Inv, TypeOK
  <1> QED BY <1>1, <1>2, TableTypes DEF TableMove, SameCore, Atomic, Inv

\* A redirect requeues only a turn that awaits confirmation, without its result.
LEMMA FinishRedirectStep ==
    ASSUME Inv, NEW r \in Requests, FinishRedirect(r)
    PROVE  TypeOK' /\ TableMove
  <1> DEFINE t == request[r].turn
             n == RedirectedMax(turn[t])
             row == [Released(turn[t]) EXCEPT !.state = "queued", !.plan = "none",
                        !.result = FALSE, !.error = "none", !.replans = 0, !.max = n]
  <1>1. t \in Turns /\ turn[t] \in TurnRow
    BY RequestTypes DEF Inv, TypeOK
  <1>2. /\ request' \in [Requests -> RequestRow] /\ control' \in [Turns -> ControlRow]
        /\ UNCHANGED <<slot, effects>>
    BY <1>1, RequestTypes, ControlTypes DEF FinishRedirect, Inv
  <1>3. conflict' \subseteq Slots \union Requests
    BY DEF FinishRedirect, TouchConversation, Inv, TypeOK
  <1>4. n \in Nat
    BY <1>1, BoundsAssumption DEF RedirectedMax, MaxAttemptsWithRedirects, TurnRow
  <1>5. \/ UNCHANGED turn
        \/ turn[t].state = "awaiting_confirmation" /\ SetTurn(t, row)
    BY DEF FinishRedirect, RowUnchanged, RedirectedRow
  <1> HIDE DEF n
  <1>6. Leaves(row, turn[t])
    BY <1>1, <1>4, RequeuedRows
  <1> HIDE DEF row, t
  <1>7. CASE UNCHANGED turn
    BY <1>2, <1>3, <1>7, TableTypes DEF TableMove, SameCore, Atomic, Inv
  <1>8. CASE turn[t].state = "awaiting_confirmation" /\ SetTurn(t, row)
    <2>1. ~turn[t].barrier
      BY <1>1, <1>8 DEF Inv, RowInv
    <2>2. Settles(t) /\ turn' \in [Turns -> TurnRow]
      BY <1>1, <1>6, <1>8, <2>1, LeavesStep DEF Inv, TerminalStates
    <2> QED BY <1>1, <1>2, <1>3, <2>2, TableTypes DEF TableMove, Inv
  <1> QED BY <1>5, <1>7, <1>8

\* A Stop settles only a turn that is queued or awaits confirmation.
LEMMA FinishCancelStep ==
    ASSUME Inv, NEW r \in Requests, FinishCancel(r)
    PROVE  TypeOK' /\ TableMove
  <1> DEFINE t == request[r].turn
             plan == IF turn[t].state = "queued" THEN turn[t].plan ELSE "rejected"
             row == [Released(turn[t]) EXCEPT !.state = "cancelled", !.plan = plan]
  <1>1. t \in Turns /\ turn[t] \in TurnRow
    BY RequestTypes DEF Inv, TypeOK
  <1>2. /\ request' \in [Requests -> RequestRow]
        /\ control' = control \/ control' \in [Turns -> ControlRow]
        /\ UNCHANGED <<slot, effects>>
    <2>1. /\ request' = [request EXCEPT ![r] = NoRequest] /\ UNCHANGED <<slot, effects>>
          /\ control' = control \/ control' = [control EXCEPT ![t].cancel = TRUE]
      BY DEF FinishCancel
    <2>2. /\ [request EXCEPT ![r] = NoRequest] \in [Requests -> RequestRow]
          /\ [control EXCEPT ![t].cancel = TRUE] \in [Turns -> ControlRow]
      BY <1>1, RequestTypes, ControlTypes DEF Inv
    <2> QED BY <2>1, <2>2
  <1>3. conflict' \subseteq Slots \union Requests
    BY DEF FinishCancel, EndTransaction, Inv, TypeOK
  <1>4. plan \in PlanStates /\ (plan = "executing_atomic" => turn[t].plan = plan)
    BY <1>1 DEF TurnRow, PlanStates
  <1>5. row = [Released(turn[t]) EXCEPT !.state = "cancelled",
                  !.plan = IF turn[t].state = "queued" THEN @ ELSE "rejected"]
    BY <1>1 DEF Released, TurnRow
  <1>6. \/ UNCHANGED turn
        \/ turn[t].state \in {"queued", "awaiting_confirmation"} /\ SetTurn(t, row)
    <2> DEFINE q == request[r]
    <2>1. \/ UNCHANGED turn
          \/ /\ q.row = turn[t]
             /\ q.row.state \in {"queued", "awaiting_confirmation"}
             /\ SetTurn(t, [Released(q.row) EXCEPT !.state = "cancelled",
                              !.plan = IF q.row.state = "queued" THEN @ ELSE "rejected"])
      BY DEF FinishCancel, RowUnchanged
    <2>2. CASE UNCHANGED turn
      BY <2>2
    <2>3. ASSUME q.row = turn[t], q.row.state \in {"queued", "awaiting_confirmation"},
                 SetTurn(t, [Released(q.row) EXCEPT !.state = "cancelled",
                               !.plan = IF q.row.state = "queued" THEN @ ELSE "rejected"])
          PROVE  turn[t].state \in {"queued", "awaiting_confirmation"} /\ SetTurn(t, row)
      <3> HIDE DEF row
      <3> QED BY <1>5, <2>3
    <2> QED BY <2>1, <2>2, <2>3
  <1> HIDE DEF plan
  <1>7. Leaves(row, turn[t]) /\ row.state = "cancelled"
    BY <1>1, <1>4, ReleasedRows DEF Released, TurnRow
  <1> HIDE DEF row, t
  <1>8. CASE UNCHANGED turn
    BY <1>2, <1>3, <1>8, TableTypes DEF TableMove, SameCore, Atomic, Inv
  <1>9. CASE turn[t].state \in {"queued", "awaiting_confirmation"} /\ SetTurn(t, row)
    <2>1. Settles(t) /\ turn' \in [Turns -> TurnRow]
      BY <1>1, <1>7, <1>9, LeavesStep DEF Inv, TerminalStates, BarrierStates
    <2> QED BY <1>1, <1>2, <1>3, <2>1, TableTypes DEF TableMove, Inv
  <1> QED BY <1>6, <1>8, <1>9

\* Approval requeues the turn without its result.
LEMMA ApprovePlanStep ==
    ASSUME Inv, NEW t \in Turns, ApprovePlan(t)
    PROVE  TypeOK' /\ TableMove
  <1> DEFINE n == ResumeCeiling(turn[t])
             row == [Released(turn[t]) EXCEPT !.state = "queued", !.plan = "authorized",
                        !.result = FALSE, !.error = "none", !.max = n]
  <1>1. /\ turn[t] \in TurnRow /\ turn[t].state = "awaiting_confirmation" /\ SetTurn(t, row)
        /\ UNCHANGED <<control, slot, request, effects>>
        /\ conflict' \subseteq Slots \union Requests
    BY DEF Inv, TypeOK, ApprovePlan
  <1>2. n \in Nat
    BY <1>1 DEF ResumeCeiling, TurnRow
  <1> HIDE DEF n
  <1>3. Leaves(row, turn[t])
    BY <1>1, <1>2, RequeuedRows
  <1> HIDE DEF row
  <1>4. ~turn[t].barrier
    BY <1>1 DEF Inv, RowInv
  <1>5. Settles(t) /\ turn' \in [Turns -> TurnRow]
    BY <1>1, <1>3, <1>4, LeavesStep DEF Inv, TerminalStates
  <1> QED BY <1>1, <1>5, TableTypes DEF TableMove, Inv

\* Rejection completes the turn.
LEMMA RejectPlanStep ==
    ASSUME Inv, NEW t \in Turns, RejectPlan(t)
    PROVE  TypeOK' /\ TableMove
  <1> DEFINE row == [Released(turn[t]) EXCEPT !.state = "completed", !.plan = "rejected",
                                              !.result = TRUE]
  <1>1. /\ turn[t] \in TurnRow /\ turn[t].state = "awaiting_confirmation" /\ SetTurn(t, row)
        /\ UNCHANGED <<control, slot, request, effects>>
        /\ conflict' \subseteq Slots \union Requests
    BY DEF Inv, TypeOK, RejectPlan
  <1>2. Leaves(row, turn[t]) /\ row.state = "completed"
    BY <1>1, ReleasedRows DEF PlanStates, Released, TurnRow
  <1> HIDE DEF row
  <1>3. Settles(t) /\ turn' \in [Turns -> TurnRow]
    BY <1>1, <1>2, LeavesStep DEF Inv, TerminalStates, BarrierStates
  <1> QED BY <1>1, <1>3, TableTypes DEF TableMove, Inv

\* Resolving a review changes the state only.
LEMMA ReconcileRollbackStep ==
    ASSUME Inv, NEW t \in Turns, ReconcileRollback(t)
    PROVE  TypeOK' /\ TableMove
  <1> DEFINE row == [turn[t] EXCEPT !.state = "failed"]
  <1>1. /\ turn[t] \in TurnRow /\ turn[t].state = "recovery_required" /\ Atomic(t)
        /\ SetTurn(t, row) /\ UNCHANGED <<control, slot, request, effects>>
        /\ conflict' \subseteq Slots \union Requests
    BY DEF Inv, TypeOK, ReconcileRollback, Atomic
  <1>2. /\ row \in TurnRow /\ row.state = "failed" /\ row.attempts = turn[t].attempts
        /\ row.lease = turn[t].lease /\ row.barrier = turn[t].barrier
        /\ row.result = turn[t].result
    BY <1>1 DEF TurnRow, TurnStates, TerminalStates
  <1> HIDE DEF row
  <1>3. TurnStep(t, row)
    BY <1>1, <1>2, SetTurnStep DEF Inv
  <1>4. Resolves(t)
    BY <1>1, <1>2, <1>3 DEF TurnStep, Resolves, OtherTurnsSame
  <1> QED BY <1>1, <1>3, <1>4, TableTypes DEF TableMove, TurnStep, Inv

-----------------------------------------------------------------------------
(* The theorems *)

\* The initial state satisfies the invariant.
LEMMA InitInv == Init => Inv
  <1> SUFFICES ASSUME Init PROVE Inv
    OBVIOUS
  <1>1. /\ \A t \in Turns : turn[t] = NewTurn /\ effects[t] = {}
        /\ \A s \in Slots : slot[s] = IdleJob
    BY DEF Init
  <1>2. /\ NewTurn.state = "absent" /\ NewTurn.lease = 0 /\ NewTurn.barrier = FALSE
        /\ NewTurn.result = FALSE /\ NewTurn.plan = "none"
    BY DEF NewTurn
  <1>3. IdleJob.pc = "idle" /\ IdleJob.dirty = FALSE
    BY DEF IdleJob
  <1>4. TypeOK
    BY InitialTypes DEF Init, TypeOK
  <1>5. LeaseInv /\ RowInv /\ EffectInv
    BY <1>1, <1>2 DEF LeaseInv, RowInv, EffectInv
  <1>6. ClaimInv /\ JobInv /\ BarrierInv /\ FirstInv
    BY <1>1, <1>3 DEF ClaimInv, JobInv, BarrierInv, FirstInv, Busy, Beyond, BeforePlan, InPlan
  <1>7. AtomicInv
    BY <1>1, <1>2, <1>3 DEF AtomicInv, Atomic, Beyond
  <1> QED BY <1>4, <1>5, <1>6, <1>7 DEF Inv

\* Every step of the specification is a step of one of the kinds above, or a stutter.
StepKind ==
    \/ TableMove
    \/ \E s \in Slots, t \in Turns : ClaimMove(s, t)
    \/ \E s \in Slots : \/ LeaveMove(s) \/ ThinkMove(s) \/ RaiseMove(s) \/ UndoMove(s)
                        \/ EffectMove(s)

\* Worker steps are of one of the kinds.
LEMMA WorkerStepKind ==
    ASSUME Inv, NEW s \in Slots, WorkerStep(s)
    PROVE  /\ TypeOK'
           /\ \/ LeaveMove(s) \/ ThinkMove(s) \/ RaiseMove(s) \/ UndoMove(s) \/ EffectMove(s)
  BY CancelClaimedTurnStep, AbandonClaimStep, SocialAnswerStep, ResumePlanStep, ReasonStep,
     ObserveInterventionStep, AcceptDecisionStep, NextDecisionStep, FinishReasoningStep,
     PreparePlanStep,
     PrepareErrorStep, PersistAwaitingPlanStep, BeforeUnitStep, CommitUnitStep, RunUnitStep,
     AfterUnitStep, FinishPlanStep, RepairPreflightStep, RepairExecutionStep,
     PersistReceiptStep, FinishSynthesisStep, CompleteTurnStep, RaiseStep, WriteConflictStep,
     FailClaimedTurnStep
  DEF WorkerStep

\* Browser steps write tables only.
LEMMA BrowserStepKind ==
    ASSUME Inv, BrowserStep
    PROVE  TypeOK' /\ TableMove
  BY FinishRedirectStep, FinishCancelStep, AbortRequestStep, BeginRequestStep,
     ApprovePlanStep, RejectPlanStep, ReconcileRollbackStep
  DEF BrowserStep

\* Every step is of one of the kinds.
LEMMA NextKind ==
    ASSUME Inv, [Next]_vars
    PROVE  TypeOK' /\ StepKind
  <1>1. CASE UNCHANGED vars
    <2>1. UNCHANGED <<turn, control, slot, request, conflict, effects>>
      BY <1>1 DEF vars
    <2> QED BY <2>1 DEF Inv, TypeOK, StepKind, TableMove, SameCore, Atomic
  <1>2. ASSUME NEW t \in Turns, Enqueue(t) \/ ExpireLease(t) \/ RecoverStaleTurn(t)
        PROVE  TypeOK' /\ StepKind
    BY <1>2, EnqueueStep, ExpireLeaseStep, RecoverStaleTurnStep DEF StepKind
  <1>3. ASSUME NEW s \in Slots, WorkerStep(s) \/ Crash(s)
        PROVE  TypeOK' /\ StepKind
    BY <1>3, WorkerStepKind, CrashStep DEF StepKind
  <1>4. ASSUME NEW s \in Slots, NEW t \in Turns, ClaimNextTurn(s, t)
        PROVE  TypeOK' /\ StepKind
    BY <1>4, ClaimNextTurnStep DEF StepKind
  <1>5. CASE BrowserStep
    BY <1>5, BrowserStepKind DEF StepKind
  <1> QED BY <1>1, <1>2, <1>3, <1>4, <1>5 DEF Next

\* The invariant is inductive.
LEMMA InvStep == Inv /\ [Next]_vars => Inv'
  <1> SUFFICES ASSUME Inv, [Next]_vars PROVE Inv'
    OBVIOUS
  <1>1. TypeOK' /\ StepKind
    BY NextKind
  <1> QED BY <1>1, TableMovePreserves, ClaimMovePreserves, LeaveMovePreserves,
             ThinkMovePreserves, RaiseMovePreserves, UndoMovePreserves, EffectMovePreserves
          DEF StepKind

\* The invariant holds in every reachable state.
THEOREM Invariance == Spec => []Inv
  BY InitInv, InvStep, PTL DEF Spec

\* Every row, job and request keeps the shape of its table or record.
THEOREM TypeCorrect == Spec => []TypeOK
  <1>1. Inv => TypeOK
    BY DEF Inv
  <1> QED BY <1>1, Invariance, PTL

\* At most one worker owns the lease of a turn.
THEOREM LeaseIsExclusive == Spec => []SoleOwner
  <1>1. Inv => SoleOwner
    BY FieldTypes DEF Inv, ClaimInv, Busy, SoleOwner, Owns, HoldsLease, Fields
  <1> QED BY <1>1, Invariance, PTL

\* All the durable effects of a turn come from one claim.
THEOREM NoBlindReplay == Spec => []SingleEffectClaim
  <1>1. Inv => SingleEffectClaim
    BY DEF Inv, EffectInv, SingleEffectClaim
  <1> QED BY <1>1, Invariance, PTL

\* Durable effects stand behind the write barrier, in a turn that is not run again.
THEOREM BarrierProtectsEffects == Spec => []EffectsBehindBarrier
  <1>1. Inv => EffectsBehindBarrier
    BY DEF Inv, EffectInv, EffectsBehindBarrier, BarrierStates
  <1> QED BY <1>1, Invariance, PTL

\* A turn that is queued or running has no result that recovery could serve.
THEOREM RecoveryServesNoStaleResult == Spec => []NoStaleResult
  <1>1. Inv => NoStaleResult
    BY DEF Inv, RowInv, NoStaleResult
  <1> QED BY <1>1, Invariance, PTL

\* A terminal turn keeps its state: every settling step finds an open turn, and a
\* worker settles only a turn it owns.  A resolved review has an atomic plan, and an
\* atomic plan has no durable effect.
THEOREM TerminalStaysTerminal == Spec => TerminalIsFinal
  <1> DEFINE Final(t) == \/ turn'[t].state = turn[t].state
                         \/ /\ turn[t].state = "recovery_required"
                            /\ turn'[t].state = "failed"
                            /\ effects[t] = {}
  <1>1. ASSUME Inv, [Next]_vars, NEW t \in Turns, turn[t].state \in TerminalStates
        PROVE  Final(t)
    <2>1. StepKind
      BY <1>1, NextKind
    <2>2. CASE TableMove
      BY <1>1, <2>2 DEF TableMove, SameCore, Settles, Resolves, OtherTurnsSame, Inv, AtomicInv
    <2>3. ASSUME ~TableMove PROVE turn'[t].state = turn[t].state
      BY <1>1, <2>1, <2>3, FieldTypes
         DEF StepKind, ClaimMove, LeaveMove, ThinkMove, RaiseMove, UndoMove,
             EffectMove, SameCore, Settles, BarrierBecomes, OtherTurnsSame,
             TerminalStates, Inv, Fields
    <2> QED BY <2>2, <2>3
  <1>2. Inv /\ [Next]_vars =>
           [\A t \in Turns : turn[t].state \in TerminalStates => Final(t)]_vars
    <2> HIDE DEF Final
    <2> QED BY <1>1
  <1> QED BY <1>2, Invariance, PTL DEF Spec, TerminalIsFinal

\* A worker without the lease leaves the verdict on the turn alone.
THEOREM StaleWorkersArePowerless == Spec => StaleWorkerPowerless
  <1> DEFINE Verdict(t) == /\ turn'[t].state = turn[t].state
                           /\ turn'[t].result = turn[t].result
                           /\ turn'[t].attempts = turn[t].attempts
                           /\ turn'[t].lease = turn[t].lease
  <1>1. ASSUME Inv, [Next]_vars, NEW s \in Slots,
               slot[s].pc # "idle", slot'[s] # slot[s], ~Owns(s)
        PROVE  Verdict(slot[s].turn)
    <2>1. StepKind
      BY <1>1, NextKind
    <2>2. slot[s].turn \in Turns
      BY <1>1, FieldTypes DEF Inv, Fields
    <2>3. ~TableMove
      BY <1>1 DEF TableMove
    <2>4. ASSUME NEW x \in Slots, NEW u \in Turns, ClaimMove(x, u)
          PROVE  FALSE
      BY <1>1, <2>4 DEF ClaimMove, OtherSlotsSame, Busy
    <2>5. ASSUME NEW x \in Slots, LeaveMove(x)
          PROVE  Verdict(slot[s].turn)
      BY <1>1, <2>2, <2>5 DEF LeaveMove, OtherSlotsSame, SameCore
    <2>6. ASSUME NEW x \in Slots, ThinkMove(x) \/ EffectMove(x)
          PROVE  Verdict(slot[s].turn)
      BY <2>2, <2>6 DEF ThinkMove, EffectMove, SameCore
    <2>7. ASSUME NEW x \in Slots, RaiseMove(x) \/ UndoMove(x)
          PROVE  Verdict(slot[s].turn)
      BY <2>2, <2>7, FieldTypes
         DEF RaiseMove, UndoMove, BarrierBecomes, OtherTurnsSame, Inv, Fields
    <2> HIDE DEF Verdict
    <2> QED BY <2>1, <2>3, <2>4, <2>5, <2>6, <2>7 DEF StepKind
  <1>2. Inv /\ [Next]_vars =>
           [\A s \in Slots :
               slot[s].pc # "idle" /\ slot'[s] # slot[s] /\ ~Owns(s) =>
                  Verdict(slot[s].turn)]_vars
    <2> HIDE DEF Verdict
    <2> QED BY <1>1
  <1> QED BY <1>2, Invariance, PTL DEF Spec, StaleWorkerPowerless

\* Running turns never exceed the effective capacity: only a claim adds one, and it
\* counts every running row, stale or not.
THEOREM CapacityHolds == Spec => []CapacityRespected
  <1>1. Active \subseteq Turns /\ IsFiniteSet(Active)
    <2>1. Active \subseteq Turns
      BY DEF Active
    <2> QED BY <2>1, FiniteAssumption, FS_Subset
  <1>2. CapacityRespected <=> Cardinality(Active) <= Capacity
    BY DEF CapacityRespected, Active
  <1>3. Init => CapacityRespected
    <2> SUFFICES ASSUME Init PROVE CapacityRespected
      OBVIOUS
    <2>1. Active = {}
      BY DEF Init, Active, NewTurn
    <2>2. Cardinality({}) = 0
      BY FS_EmptySet
    <2> QED BY <1>2, <2>1, <2>2, BoundsAssumption
  <1>4. ASSUME Inv, CapacityRespected, [Next]_vars
        PROVE  CapacityRespected'
    <2>1. StepKind
      BY <1>4, NextKind
    <2>2. \/ Active' \subseteq Active
          \/ \E t \in Turns : /\ Active' \subseteq Active \union {t}
                              /\ Cardinality(Active) < Capacity
      <3> DEFINE Runs(u) == turn[u].state = "running"
                 RunsNext(u) == turn'[u].state = "running"
      <3>1. \/ \A u \in Turns : RunsNext(u) => Runs(u)
            \/ \E t \in Turns : /\ \A u \in Turns : RunsNext(u) => Runs(u) \/ u = t
                                /\ Cardinality(Active) < Capacity
        <4>1. CASE \E s \in Slots, t \in Turns : ClaimMove(s, t)
          BY <4>1 DEF ClaimMove, OtherTurnsSame
        <4>2. CASE TableMove
          BY <4>2 DEF TableMove, SameCore, Settles, Resolves, OtherTurnsSame
        <4>3. ASSUME NEW s \in Slots, LeaveMove(s)
              PROVE  \A u \in Turns : RunsNext(u) => Runs(u)
          BY <4>3 DEF LeaveMove, SameCore, Settles, OtherTurnsSame
        <4>4. ASSUME NEW s \in Slots, ThinkMove(s) \/ EffectMove(s)
              PROVE  \A u \in Turns : RunsNext(u) => Runs(u)
          BY <4>4 DEF ThinkMove, EffectMove, SameCore
        <4>5. ASSUME NEW s \in Slots, RaiseMove(s) \/ UndoMove(s)
              PROVE  \A u \in Turns : RunsNext(u) => Runs(u)
          BY <4>5 DEF RaiseMove, UndoMove, BarrierBecomes, OtherTurnsSame
        <4> HIDE DEF Runs, RunsNext
        <4> QED BY <2>1, <4>1, <4>2, <4>3, <4>4, <4>5 DEF StepKind
      <3> QED BY <3>1 DEF Active
    <2>3. CASE Active' \subseteq Active
      <3>1. Cardinality(Active') <= Cardinality(Active) /\ IsFiniteSet(Active')
        BY <1>1, <2>3, FS_Subset
      <3> QED BY <1>1, <1>2, <1>4, <3>1, FS_CardinalityType, BoundsAssumption
              DEF CapacityRespected, Active
    <2>4. ASSUME NEW t \in Turns, Active' \subseteq Active \union {t},
                 Cardinality(Active) < Capacity
          PROVE  CapacityRespected'
      <3>1. /\ IsFiniteSet(Active \union {t})
            /\ Cardinality(Active \union {t}) <= Cardinality(Active) + 1
        BY <1>1, FS_AddElement, FS_CardinalityType
      <3>2. /\ Cardinality(Active') <= Cardinality(Active \union {t})
            /\ IsFiniteSet(Active')
        BY <2>4, <3>1, FS_Subset
      <3> QED BY <1>1, <2>4, <3>1, <3>2, FS_CardinalityType, BoundsAssumption
              DEF CapacityRespected, Active
    <2> QED BY <2>2, <2>3, <2>4
  <1> QED BY <1>3, <1>4, Invariance, PTL DEF Spec

-----------------------------------------------------------------------------
(* The effect lock *)

\* A worker that holds the effect lock has found the control row without a Stop and
\* without an unapplied redirect, and it stays so.
LockInv ==
    \A s \in Slots : slot[s].pc = "boundary" =>
        ~control[slot[s].turn].cancel
          /\ control[slot[s].turn].seq = control[slot[s].turn].applied

\* The ways a control row changes: a decision applies its redirects, or a request that
\* waited for the effect lock writes it.
ControlKind ==
    \/ UNCHANGED control
    \/ \E t \in Turns : control' = [control EXCEPT ![t].applied = control[t].seq]
    \/ \E t \in Turns : ~EffectLockHeld(t) /\ \A u \in Turns \ {t} : control'[u] = control[u]

\* Every step changes the control rows in one of these ways.
LEMMA NextControlKind ==
    ASSUME Inv, [Next]_vars
    PROVE  ControlKind
  <1>1. ASSUME NEW r \in Requests, FinishRedirect(r) \/ FinishCancel(r)
        PROVE  ControlKind
    <2> DEFINE t == request[r].turn
    <2>1. t \in Turns /\ control \in [Turns -> ControlRow]
      BY RequestTypes DEF Inv, TypeOK
    <2>2. /\ ~EffectLockHeld(t)
          /\ \/ UNCHANGED control
             \/ control' = [control EXCEPT ![t].seq = @ + 1]
             \/ control' = [control EXCEPT ![t].cancel = TRUE]
      BY <1>1 DEF FinishRedirect, FinishCancel
    <2>3. \A u \in Turns \ {t} : control'[u] = control[u]
      BY <2>1, <2>2
    <2> QED BY <2>1, <2>2, <2>3 DEF ControlKind
  <1>2. ASSUME NEW s \in Slots, AcceptDecision(s) \/ FinishSynthesis(s)
        PROVE  ControlKind
    BY <1>2, FieldTypes DEF AcceptDecision, FinishSynthesis, ControlKind, Inv, Fields
  <1>3. ASSUME NEW s \in Slots,
               \/ CancelClaimedTurn(s) \/ AbandonClaim(s) \/ SocialAnswer(s) \/ ResumePlan(s)
               \/ Reason(s) \/ ObserveIntervention(s) \/ NextDecision(s) \/ FinishReasoning(s)
               \/ PreparePlan(s)
               \/ PrepareError(s) \/ PersistAwaitingPlan(s) \/ BeforeUnit(s) \/ CommitUnit(s)
        PROVE  UNCHANGED control
    BY <1>3 DEF CancelClaimedTurn, AbandonClaim, SocialAnswer, ResumePlan, Reason,
         ObserveIntervention, NextDecision, FinishReasoning, PreparePlan, PrepareError,
         PersistAwaitingPlan, BeforeUnit, CommitUnit
  <1>4. ASSUME NEW s \in Slots,
               \/ RunUnit(s) \/ AfterUnit(s) \/ FinishPlan(s) \/ RepairPreflight(s)
               \/ RepairExecution(s) \/ PersistReceipt(s) \/ CompleteTurn(s) \/ Raise(s)
               \/ WriteConflict(s) \/ FailClaimedTurn(s) \/ Crash(s)
        PROVE  UNCHANGED control
    BY <1>4 DEF RunUnit, AfterUnit, FinishPlan, RepairPreflight, RepairExecution,
         PersistReceipt, CompleteTurn, Raise, WriteConflict, FailClaimedTurn, Crash
  <1>5. ASSUME NEW t \in Turns,
               \/ Enqueue(t) \/ ExpireLease(t) \/ RecoverStaleTurn(t)
               \/ ApprovePlan(t) \/ RejectPlan(t) \/ ReconcileRollback(t)
               \/ \E s \in Slots : ClaimNextTurn(s, t)
        PROVE  UNCHANGED control
    BY <1>5 DEF Enqueue, ExpireLease, RecoverStaleTurn, ApprovePlan, RejectPlan,
         ReconcileRollback, ClaimNextTurn
  <1>6. ASSUME NEW r \in Requests,
               \/ AbortRequest(r)
               \/ \E kind \in {"redirect", "cancel"}, t \in Turns : BeginRequest(r, kind, t)
        PROVE  UNCHANGED control
    BY <1>6 DEF AbortRequest, BeginRequest
  <1>7. CASE UNCHANGED vars
    BY <1>7 DEF vars, ControlKind
  <1> QED BY <1>1, <1>2, <1>3, <1>4, <1>5, <1>6, <1>7
          DEF Next, WorkerStep, BrowserStep, ControlKind

\* A slot enters "boundary" only when its control check passed.
LEMMA LockInvStep ==
    ASSUME Inv, LockInv, [Next]_vars
    PROVE  LockInv'
  <1> USE FieldTypes DEF Fields
  <1>1. TypeOK' /\ StepKind /\ ControlKind
    BY NextKind, NextControlKind
  <1>2. ASSUME NEW x \in Slots, slot'[x].pc = "boundary"
        PROVE  \/ slot[x].pc = "boundary" /\ slot'[x] = slot[x]
               \/ /\ slot'[x].turn = slot[x].turn
                  /\ ControlFault(slot[x].turn) = "none" /\ UNCHANGED control
    <2>1. CASE TableMove
      BY <1>2, <2>1 DEF TableMove
    <2>2. CASE \E s \in Slots, t \in Turns : ClaimMove(s, t)
      BY <1>2, <2>2 DEF ClaimMove, OtherSlotsSame
    <2>3. ASSUME NEW s \in Slots, LeaveMove(s)
          PROVE  slot[x].pc = "boundary" /\ slot'[x] = slot[x]
      BY <1>2, <2>3 DEF LeaveMove, OtherSlotsSame
    <2>4. CASE \E s \in Slots : ThinkMove(s)
      BY <1>2, <2>4 DEF ThinkMove, Continues, Reasons, StartsPlan, Proceeds, DropsPlan,
                        BeforePlan
    <2>5. ASSUME NEW s \in Slots, RaiseMove(s) \/ UndoMove(s) \/ EffectMove(s)
          PROVE  slot[x].pc = "boundary" /\ slot'[x] = slot[x]
      BY <1>2, <2>5 DEF RaiseMove, UndoMove, EffectMove, Continues, DropsPlan
    <2> QED BY <1>1, <2>1, <2>2, <2>3, <2>4, <2>5 DEF StepKind
  <1>3. ASSUME NEW x \in Slots, slot[x].pc = "boundary", NEW t \in Turns, t = slot[x].turn
        PROVE  ~control'[t].cancel /\ control'[t].seq = control'[t].applied
    <2>1. ~control[t].cancel /\ control[t].seq = control[t].applied
      BY <1>3 DEF LockInv
    <2>2. control \in [Turns -> ControlRow] /\ control[t] \in ControlRow
      BY DEF Inv, TypeOK
    <2>3. \/ control'[t] = control[t]
          \/ control'[t] = [control[t] EXCEPT !.applied = control[t].seq]
      BY <1>1, <1>3, <2>2 DEF ControlKind, EffectLockHeld
    <2> QED BY <2>1, <2>2, <2>3 DEF ControlRow
  <1>4. ASSUME NEW x \in Slots, slot'[x].pc = "boundary"
        PROVE  ~control'[slot'[x].turn].cancel
                 /\ control'[slot'[x].turn].seq = control'[slot'[x].turn].applied
    <2>1. slot[x].turn \in Turns
      BY DEF Inv
    <2>2. CASE slot[x].pc = "boundary" /\ slot'[x] = slot[x]
      BY <1>3, <2>1, <2>2
    <2>3. CASE /\ slot'[x].turn = slot[x].turn
               /\ ControlFault(slot[x].turn) = "none" /\ UNCHANGED control
      BY <2>3 DEF ControlFault
    <2> QED BY <1>2, <1>4, <2>2, <2>3
  <1> QED BY <1>4 DEF LockInv

\* A Stop or a redirect that was accepted keeps the barrier down.
THEOREM BarrierAfterControl == Spec => BarrierRespectsControl
  <1>1. Init => LockInv
    BY DEF Init, LockInv, IdleJob
  <1>2. Spec => [](Inv /\ LockInv)
    BY <1>1, LockInvStep, Invariance, PTL DEF Spec
  <1>3. ASSUME Inv, LockInv, [Next]_vars, NEW t \in Turns, ~turn[t].barrier, turn'[t].barrier
        PROVE  ~control[t].cancel /\ control[t].seq = control[t].applied
    <2>1. StepKind
      BY <1>3, NextKind
    <2>2. ~TableMove /\ ~(\E s \in Slots, u \in Turns : ClaimMove(s, u))
      BY <1>3 DEF TableMove, ClaimMove, SameCore, Settles, Resolves, OtherTurnsSame
    <2>3. ~ \E s \in Slots : LeaveMove(s) \/ ThinkMove(s) \/ EffectMove(s) \/ UndoMove(s)
      BY <1>3 DEF LeaveMove, ThinkMove, EffectMove, UndoMove, SameCore, Settles,
                  BarrierBecomes, OtherTurnsSame
    <2>4. PICK s \in Slots : RaiseMove(s)
      BY <2>1, <2>2, <2>3 DEF StepKind
    <2>5. t = slot[s].turn /\ slot[s].pc = "boundary"
      BY <1>3, <2>4 DEF RaiseMove, BarrierBecomes, OtherTurnsSame
    <2> QED BY <1>3, <2>5 DEF LockInv
  <1>4. Inv /\ LockInv /\ [Next]_vars =>
           [\A t \in Turns : ~turn[t].barrier /\ turn'[t].barrier =>
              ~control[t].cancel /\ control[t].seq = control[t].applied]_vars
    BY <1>3
  <1> QED BY <1>2, <1>4, PTL DEF Spec, BarrierRespectsControl

-----------------------------------------------------------------------------
(* The order of a conversation *)

\* Some row is written for t.
Writes(t) == \E row : SetTurn(t, row)

\* A write of one row leaves the others.
LEMMA WritesOne ==
    ASSUME TypeOK, NEW t \in Turns, NEW p \in Turns, p # t, Writes(t)
    PROVE  turn'[p] = turn[p]
  BY DEF TypeOK, Writes, SetTurn

\* The worker writes no row, or that of a turn it owns.
LEMMA OwnerWrites ==
    ASSUME Inv, NEW s \in Slots,
           \/ CancelClaimedTurn(s) \/ Reason(s) \/ PrepareError(s) \/ PersistAwaitingPlan(s)
           \/ CommitUnit(s) \/ RepairPreflight(s) \/ PersistReceipt(s) \/ CompleteTurn(s)
           \/ FailClaimedTurn(s)
    PROVE  UNCHANGED turn \/ (Writes(slot[s].turn) /\ Owns(s))
  <1> DEFINE Fine == UNCHANGED turn \/ (Writes(slot[s].turn) /\ Owns(s))
  <1> SUFFICES Fine
    OBVIOUS
  <1>1. ASSUME CancelClaimedTurn(s) PROVE Fine
    BY <1>1 DEF CancelClaimedTurn, Writes
  <1>2. ASSUME Reason(s) PROVE Fine
    BY <1>2 DEF Reason, Started, Writes
  <1>3. ASSUME PrepareError(s) PROVE Fine
    BY <1>3 DEF PrepareError, Writes
  <1>4. ASSUME PersistAwaitingPlan(s) PROVE Fine
    BY <1>4 DEF PersistAwaitingPlan, Writes
  <1>5. ASSUME CommitUnit(s) PROVE Fine
    BY <1>5 DEF CommitUnit, Writes
  <1>6. ASSUME RepairPreflight(s) PROVE Fine
    BY <1>6 DEF RepairPreflight, Writes
  <1>7. ASSUME PersistReceipt(s) PROVE Fine
    BY <1>7 DEF PersistReceipt, Writes
  <1>8. ASSUME CompleteTurn(s) PROVE Fine
    BY <1>8 DEF CompleteTurn, Writes
  <1>9. ASSUME FailClaimedTurn(s) PROVE Fine
    <2>1. HoldsLease(s) => Owns(s)
      <3>1. Busy(s)
        BY <1>9 DEF FailClaimedTurn, Busy
      <3>2. slot[s].turn \in Turns /\ 1 <= slot[s].claim /\ slot[s].claim \in Nat
        BY <3>1, FieldTypes DEF Inv, ClaimInv, Fields
      <3> QED BY <3>2 DEF Inv, LeaseInv, HoldsLease, Owns
    <2>2. CASE HoldsLease(s)
      BY <1>9, <2>1, <2>2 DEF FailClaimedTurn, Writes
    <2>3. CASE ~HoldsLease(s)
      BY <1>9, <2>3 DEF FailClaimedTurn
    <2> QED BY <2>2, <2>3
  <1> HIDE DEF Fine
  <1> QED BY <1>1, <1>2, <1>3, <1>4, <1>5, <1>6, <1>7, <1>8, <1>9

\* What can become of a turn that is not enqueued yet, or waits in the queue.
ColdKind(p) ==
    \/ turn'[p] = turn[p]
    \/ Enqueue(p)
    \/ turn[p].state = "queued" /\ turn'[p].state = "cancelled"
    \/ \E s \in Slots : ClaimNextTurn(s, p)

\* A turn that waits in the queue is only claimed or cancelled: its attempts and their
\* ceiling stay as they are.
LEMMA NextColdKind ==
    ASSUME Inv, [Next]_vars, NEW p \in Turns, turn[p].state \in {"absent", "queued"}
    PROVE  ColdKind(p)
  <1>1. ASSUME NEW s \in Slots,
               \/ CancelClaimedTurn(s) \/ Reason(s) \/ PrepareError(s) \/ PersistAwaitingPlan(s)
               \/ CommitUnit(s) \/ RepairPreflight(s) \/ PersistReceipt(s) \/ CompleteTurn(s)
               \/ FailClaimedTurn(s)
        PROVE  turn'[p] = turn[p]
    <2>1. slot[s].turn \in Turns /\ TypeOK
      BY FieldTypes DEF Inv, Fields
    <2>2. CASE UNCHANGED turn
      BY <2>2
    <2>3. CASE Writes(slot[s].turn) /\ Owns(s)
      <3>1. p # slot[s].turn
        BY <2>3 DEF Owns
      <3> QED BY <2>1, <2>3, <3>1, WritesOne
    <2> QED BY <1>1, <2>2, <2>3, OwnerWrites
  <1>2. ASSUME NEW s \in Slots, RepairExecution(s) PROVE turn'[p] = turn[p]
    <2>1. slot[s].turn \in Turns /\ TypeOK
      BY FieldTypes DEF Inv, Fields
    <2>2. Beyond(s)
      BY <1>2 DEF RepairExecution, Beyond
    <2>3. p # slot[s].turn
      BY <2>2 DEF Inv, BarrierInv, BarrierStates
    <2>4. UNCHANGED turn \/ Writes(slot[s].turn)
      BY <1>2 DEF RepairExecution, Writes
    <2> QED BY <2>1, <2>3, <2>4, WritesOne
  <1>3. ASSUME NEW s \in Slots,
               \/ AbandonClaim(s) \/ SocialAnswer(s) \/ ResumePlan(s)
               \/ ObserveIntervention(s) \/ AcceptDecision(s) \/ NextDecision(s)
               \/ FinishReasoning(s) \/ PreparePlan(s) \/ BeforeUnit(s)
               \/ RunUnit(s) \/ AfterUnit(s) \/ FinishPlan(s) \/ FinishSynthesis(s)
               \/ Raise(s) \/ WriteConflict(s) \/ Crash(s)
        PROVE  turn'[p] = turn[p]
    BY <1>3 DEF AbandonClaim, SocialAnswer, ResumePlan, ObserveIntervention, AcceptDecision,
         NextDecision, FinishReasoning, PreparePlan, BeforeUnit, RunUnit, AfterUnit, FinishPlan,
         FinishSynthesis, Raise, WriteConflict, Crash
  <1>4. ASSUME NEW t \in Turns, Enqueue(t) PROVE ColdKind(p)
    <2>1. p # t => turn'[p] = turn[p]
      <3>1. Writes(t)
        BY <1>4 DEF Enqueue, Writes
      <3> QED BY <3>1, WritesOne DEF Inv
    <2> QED BY <1>4, <2>1 DEF ColdKind
  <1>5. ASSUME NEW t \in Turns,
               \/ ExpireLease(t) \/ RecoverStaleTurn(t) \/ ApprovePlan(t) \/ RejectPlan(t)
               \/ ReconcileRollback(t)
        PROVE  turn'[p] = turn[p]
    <2>1. Writes(t)
      BY <1>5 DEF ExpireLease, RecoverStaleTurn, ApprovePlan, RejectPlan, ReconcileRollback, Writes
    <2>2. p # t
      BY <1>5 DEF ExpireLease, RecoverStaleTurn, ApprovePlan, RejectPlan, ReconcileRollback,
                  Inv, LeaseInv
    <2> QED BY <2>1, <2>2, WritesOne DEF Inv
  <1>6. ASSUME NEW s \in Slots, NEW t \in Turns, ClaimNextTurn(s, t) PROVE ColdKind(p)
    <2>1. p # t => turn'[p] = turn[p]
      <3>1. Writes(t)
        BY <1>6 DEF ClaimNextTurn, Writes
      <3> QED BY <3>1, WritesOne DEF Inv
    <2> QED BY <1>6, <2>1 DEF ColdKind
  <1>7. ASSUME NEW r \in Requests, FinishRedirect(r) PROVE turn'[p] = turn[p]
    <2> DEFINE t == request[r].turn
    <2>1. t \in Turns
      BY RequestTypes DEF Inv
    <2>2. UNCHANGED turn \/ (Writes(t) /\ turn[t].state = "awaiting_confirmation")
      BY <1>7 DEF FinishRedirect, RowUnchanged, Writes
    <2> QED BY <2>1, <2>2, WritesOne DEF Inv
  <1>8. ASSUME NEW r \in Requests, FinishCancel(r) PROVE ColdKind(p)
    <2> DEFINE t == request[r].turn
               row == [Released(request[r].row) EXCEPT !.state = "cancelled",
                         !.plan = IF request[r].row.state = "queued" THEN @ ELSE "rejected"]
    <2>1. t \in Turns /\ turn \in [Turns -> TurnRow] /\ request[r].row \in TurnRow
      BY RequestTypes DEF Inv, TypeOK
    <2>2. UNCHANGED turn \/ (SetTurn(t, row)
                               /\ request[r].row.state \in {"queued", "awaiting_confirmation"}
                               /\ RowUnchanged(request[r]))
      BY <1>8 DEF FinishCancel
    <2>3. row.state = "cancelled"
      BY <2>1 DEF Released, TurnRow
    <2> HIDE DEF row
    <2>4. CASE SetTurn(t, row) /\ RowUnchanged(request[r])
               /\ request[r].row.state \in {"queued", "awaiting_confirmation"}
      <3>0. turn[t].state \in {"queued", "awaiting_confirmation"}
        BY <2>4 DEF RowUnchanged
      <3>1. turn'[t] = row /\ \A u \in Turns : u # t => turn'[u] = turn[u]
        BY <2>1, <2>4 DEF SetTurn
      <3> QED BY <2>3, <3>0, <3>1 DEF ColdKind
    <2> QED BY <2>2, <2>4 DEF ColdKind
  <1>9. ASSUME NEW r \in Requests,
               \/ AbortRequest(r)
               \/ \E kind \in {"redirect", "cancel"}, t \in Turns : BeginRequest(r, kind, t)
        PROVE  turn'[p] = turn[p]
    BY <1>9 DEF AbortRequest, BeginRequest
  <1>10. ASSUME UNCHANGED vars PROVE turn'[p] = turn[p]
    BY <1>10 DEF vars
  <1> QED BY <1>1, <1>2, <1>3, <1>4, <1>5, <1>6, <1>7, <1>8, <1>9, <1>10
          DEF Next, WorkerStep, BrowserStep, ColdKind

\* Turns are enqueued in the order of their ids.
EnqueuedInv ==
    \A p, t \in Turns : p < t /\ turn[t].state # "absent" => turn[p].state # "absent"

\* A turn that holds its place in the order no longer.
Passed(p) ==
    \/ turn[p].state \in TerminalStates
    \/ turn[p].state = "queued" /\ turn[p].attempts >= turn[p].max

Holding == {"running", "awaiting_confirmation"}

\* A turn that was enqueued stays, and one that is passed stays passed.
LEMMA PassedStays ==
    ASSUME Inv, [Next]_vars, NEW p \in Turns
    PROVE  /\ turn[p].state # "absent" => turn'[p].state # "absent"
           /\ Passed(p) => Passed(p)'
           /\ turn[p].state \in TerminalStates => turn'[p].state \in TerminalStates
  <1>1. StepKind
    BY NextKind
  <1>2. turn[p].state # "absent" => turn'[p].state # "absent"
    <2>1. CASE TableMove
      BY <2>1 DEF TableMove, SameCore, Settles, Resolves, OtherTurnsSame
    <2>2. CASE \E s \in Slots, t \in Turns : ClaimMove(s, t)
      BY <2>2 DEF ClaimMove, OtherTurnsSame
    <2>3. CASE \E s \in Slots : LeaveMove(s)
      BY <2>3 DEF LeaveMove, SameCore, Settles, OtherTurnsSame
    <2>4. CASE \E s \in Slots : ThinkMove(s) \/ EffectMove(s)
      BY <2>4 DEF ThinkMove, EffectMove, SameCore
    <2>5. CASE \E s \in Slots : RaiseMove(s) \/ UndoMove(s)
      BY <2>5 DEF RaiseMove, UndoMove, BarrierBecomes, OtherTurnsSame
    <2> QED BY <1>1, <2>1, <2>2, <2>3, <2>4, <2>5 DEF StepKind
  <1>3. turn[p].state \in TerminalStates => turn'[p].state \in TerminalStates
    <2>1. CASE TableMove
      BY <2>1 DEF TableMove, SameCore, Settles, Resolves, OtherTurnsSame, TerminalStates
    <2>2. ASSUME ~TableMove, turn[p].state \in TerminalStates PROVE turn'[p].state = turn[p].state
      BY <1>1, <2>2, FieldTypes
         DEF StepKind, ClaimMove, LeaveMove, ThinkMove, RaiseMove, UndoMove,
             EffectMove, SameCore, Settles, BarrierBecomes, OtherTurnsSame,
             TerminalStates, Inv, Fields
    <2> QED BY <2>1, <2>2
  <1>4. ASSUME turn[p].state = "queued", turn[p].attempts >= turn[p].max PROVE Passed(p)'
    <2>1. turn[p].attempts \in Nat /\ turn[p].max \in Nat
      BY DEF Inv, TypeOK, TurnRow
    <2>2. ColdKind(p)
      BY <1>4, NextColdKind
    <2>3. ~Enqueue(p) /\ ~ \E s \in Slots : ClaimNextTurn(s, p)
      BY <1>4, <2>1 DEF Enqueue, ClaimNextTurn, Claimable
    <2> QED BY <1>4, <2>2, <2>3 DEF ColdKind, Passed, TerminalStates
  <1> QED BY <1>2, <1>3, <1>4 DEF Passed

\* A turn comes to run, or to await its user, only by a claim that no earlier turn blocks.
LEMMA HoldingStep ==
    ASSUME Inv, [Next]_vars, NEW t \in Turns, turn'[t].state \in Holding
    PROVE  turn[t].state \in Holding \/ \E s \in Slots : ClaimNextTurn(s, t)
  <1>1. turn[t].state \in TurnStates
    BY FieldTypes DEF Inv, Fields
  <1>2. turn[t].state \notin TerminalStates
    BY PassedStays DEF Holding, TerminalStates
  <1>3. ASSUME turn[t].state \in {"absent", "queued"} PROVE \E s \in Slots : ClaimNextTurn(s, t)
    <2>1. ColdKind(t)
      BY <1>3, NextColdKind
    <2>2. ~Enqueue(t)
      <3> SUFFICES ASSUME Enqueue(t) PROVE FALSE
        OBVIOUS
      <3>1. PICK b \in BOOLEAN : SetTurn(t, [turn[t] EXCEPT !.state = "queued", !.social = b])
        BY DEF Enqueue
      <3>2. turn[t] \in TurnRow /\ turn \in [Turns -> TurnRow]
        BY DEF Inv, TypeOK
      <3>3. [turn[t] EXCEPT !.state = "queued", !.social = b].state = "queued"
        BY <3>2 DEF TurnRow
      <3>4. turn'[t] = [turn[t] EXCEPT !.state = "queued", !.social = b]
        BY <3>1, <3>2 DEF SetTurn
      <3> QED BY <3>3, <3>4 DEF Holding
    <2> QED BY <1>3, <2>1, <2>2 DEF ColdKind, Holding
  <1> QED BY <1>1, <1>2, <1>3 DEF TurnStates, Holding

\* Turns are enqueued in order, and an earlier turn that was passed when a later one was
\* claimed stays passed.
LEMMA OrderStep ==
    ASSUME Inv, EnqueuedInv, CausalOrder, [Next]_vars
    PROVE  EnqueuedInv' /\ CausalOrder'
  <1>1. EnqueuedInv'
    <2> SUFFICES ASSUME NEW p \in Turns, NEW t \in Turns, p < t, turn'[t].state # "absent"
                 PROVE  turn'[p].state # "absent"
      BY DEF EnqueuedInv
    <2>1. CASE turn[t].state # "absent"
      BY <2>1, PassedStays DEF EnqueuedInv
    <2>2. CASE turn[t].state = "absent"
      <3>1. ColdKind(t)
        BY <2>2, NextColdKind
      <3>2. Enqueue(t)
        BY <2>2, <3>1 DEF ColdKind, ClaimNextTurn, Claimable
      <3> QED BY <3>2, PassedStays DEF Enqueue
    <2> QED BY <2>1, <2>2
  <1>2. CausalOrder'
    <2> SUFFICES ASSUME NEW p \in Turns, NEW t \in Turns, p < t,
                        ConversationOf[p] = ConversationOf[t], turn'[t].state \in Holding
                 PROVE  Passed(p)'
      BY DEF CausalOrder, Holding, Passed
    <2>1. CASE turn[t].state \in Holding
      <3>1. Passed(p)
        BY <2>1 DEF CausalOrder, Holding, Passed
      <3> QED BY <3>1, PassedStays
    <2>2. ASSUME NEW s \in Slots, ClaimNextTurn(s, t) PROVE Passed(p)'
      <3>1. ~Blocks(p, t) /\ turn[t].state = "queued"
        BY <2>2 DEF ClaimNextTurn, Claimable
      <3>2. turn[p].state # "absent" /\ turn[p].state \in TurnStates
        BY <3>1, FieldTypes DEF EnqueuedInv, Inv, Fields
      <3>3. turn[p].attempts \in Nat /\ turn[p].max \in Nat
        BY DEF Inv, TypeOK, TurnRow
      <3>4. Passed(p)
        BY <3>1, <3>2, <3>3 DEF Blocks, Claimable, TurnStates, Passed
      <3> QED BY <3>4, PassedStays
    <2> QED BY <2>1, <2>2, HoldingStep
  <1> QED BY <1>1, <1>2

\* While a turn runs or awaits its user, the earlier turns of its conversation are settled or
\* can no longer be claimed, whatever is requeued, recovered, approved or redirected.
THEOREM ConversationInOrder == Spec => []CausalOrder
  <1>1. Init => EnqueuedInv /\ CausalOrder
    BY DEF Init, EnqueuedInv, CausalOrder, NewTurn
  <1>2. Inv /\ EnqueuedInv /\ CausalOrder /\ [Next]_vars => EnqueuedInv' /\ CausalOrder'
    BY OrderStep
  <1> QED BY <1>1, <1>2, Invariance, PTL DEF Spec

-----------------------------------------------------------------------------
(* Redirects *)

\* The worker in x is about to offer a plan or an answer of a turn without effects, and its
\* transaction can still write the conversation row.
Offering(x) ==
    /\ slot[x].pc \in {"planning", "proposing", "answered"}
    /\ x \notin conflict
    /\ Owns(x)
    /\ ~turn[slot[x].turn].barrier
    /\ turn[slot[x].turn].replans <= MaxReplans

\* Every redirect of the turn was applied by then.
Applied(t) == control[t].seq = control[t].applied

OfferInv == \A x \in Slots : Offering(x) => Applied(slot[x].turn)

\* What a step of somebody else leaves of the turn of the worker in x, as long as it is its
\* turn: the barrier and the replans; and a redirect of it makes x conflict.
Elsewhere(x) ==
    LET t == slot[x].turn IN
    /\ slot'[x] = slot[x]
    /\ x \in conflict => x \in conflict'
    /\ \/ x \in conflict'
       \/ /\ control'[t].seq = control[t].seq
          /\ control'[t].applied \in {control[t].applied, control[t].seq}
    /\ Owns(x)' => /\ turn'[t].barrier = turn[t].barrier
                   /\ turn'[t].replans = turn[t].replans

\* A worker owns its turn after a step of somebody else only if it did before.
LEMMA OwnsBack ==
    ASSUME Inv, [Next]_vars, NEW x \in Slots, Busy(x), slot'[x] = slot[x], Owns(x)'
    PROVE  Owns(x)
  <1> DEFINE t == slot[x].turn
  <1>1. StepKind
    BY NextKind
  <1>2. /\ t \in Turns /\ slot[x].claim \in Nat /\ turn[t].attempts \in Nat
        /\ 1 <= slot[x].claim /\ slot[x].claim <= turn[t].attempts
    BY FieldTypes DEF Inv, ClaimInv, Fields
  <1>3. turn'[t].state = "running" /\ turn'[t].lease = slot[x].claim
    BY DEF Owns, HoldsLease
  <1>4. ASSUME turn'[t].state = turn[t].state, turn'[t].lease = turn[t].lease PROVE Owns(x)
    BY <1>3, <1>4 DEF Owns, HoldsLease
  <1>5. CASE TableMove
    BY <1>2, <1>3, <1>4, <1>5 DEF TableMove, SameCore, Settles, Resolves, OtherTurnsSame
  <1>6. CASE \E s \in Slots, u \in Turns : ClaimMove(s, u)
    BY <1>2, <1>3, <1>4, <1>6 DEF ClaimMove, OtherTurnsSame
  <1>7. CASE \E s \in Slots : LeaveMove(s)
    BY <1>2, <1>3, <1>4, <1>7 DEF LeaveMove, SameCore, Settles, OtherTurnsSame
  <1>8. CASE \E s \in Slots : ThinkMove(s) \/ EffectMove(s)
    BY <1>2, <1>4, <1>8 DEF ThinkMove, EffectMove, SameCore
  <1>9. CASE \E s \in Slots : RaiseMove(s) \/ UndoMove(s)
    BY <1>2, <1>4, <1>9 DEF RaiseMove, UndoMove, BarrierBecomes, OtherTurnsSame
  <1> QED BY <1>1, <1>5, <1>6, <1>7, <1>8, <1>9 DEF StepKind

\* An owner is the only worker with the last claim of the turn.
LEMMA LastClaim ==
    ASSUME Inv, NEW x \in Slots, NEW s \in Slots, Busy(x), Busy(s), Owns(x),
           slot[s].turn = slot[x].turn, slot[s].claim = turn[slot[x].turn].attempts
    PROVE  s = x
  <1>1. slot[x].turn \in Turns
    BY FieldTypes DEF Inv, Fields
  <1>2. slot[x].claim = turn[slot[x].turn].attempts
    BY <1>1 DEF Owns, HoldsLease, Inv, LeaseInv
  <1> QED BY <1>2 DEF Inv, ClaimInv

\* A step of another worker leaves the slot of x and the conflict of x.
LEMMA OtherWorker ==
    ASSUME Inv, NEW x \in Slots, NEW s \in Slots, x # s, WorkerStep(s) \/ Crash(s)
    PROVE  /\ slot'[x] = slot[x]
           /\ x \in conflict => x \in conflict'
           /\ Busy(s)
  <1>1. slot'[x] = slot[x]
    BY WorkerStepKind, CrashStep
       DEF LeaveMove, ThinkMove, RaiseMove, UndoMove, EffectMove, Continues, OtherSlotsSame
  <1>2. ASSUME \/ CancelClaimedTurn(s) \/ AbandonClaim(s) \/ SocialAnswer(s) \/ ResumePlan(s)
               \/ Reason(s) \/ ObserveIntervention(s) \/ AcceptDecision(s) \/ NextDecision(s)
               \/ FinishReasoning(s) \/ PreparePlan(s) \/ PrepareError(s) \/ PersistAwaitingPlan(s)
        PROVE  (x \in conflict => x \in conflict') /\ Busy(s)
    BY <1>2 DEF CancelClaimedTurn, AbandonClaim, SocialAnswer, ResumePlan, Started, Reason,
         ObserveIntervention, AcceptDecision, NextDecision, FinishReasoning, PreparePlan,
         PrepareError, PersistAwaitingPlan, EndTransaction, TouchConversation, Busy
  <1>3. ASSUME \/ BeforeUnit(s) \/ CommitUnit(s) \/ RunUnit(s) \/ AfterUnit(s) \/ FinishPlan(s)
               \/ RepairPreflight(s) \/ RepairExecution(s) \/ PersistReceipt(s)
               \/ FinishSynthesis(s) \/ CompleteTurn(s) \/ Raise(s) \/ FailClaimedTurn(s)
               \/ Crash(s)
        PROVE  (x \in conflict => x \in conflict') /\ Busy(s)
    BY <1>3 DEF BeforeUnit, CommitUnit, RunUnit, AfterUnit, FinishPlan, RepairPreflight,
         RepairExecution, PersistReceipt, FinishSynthesis, CompleteTurn, Raise, FailClaimedTurn,
         Crash, EndTransaction, TouchConversation, Busy
  <1>4. ASSUME WriteConflict(s)
        PROVE  (x \in conflict => x \in conflict') /\ Busy(s)
    BY <1>4 DEF WriteConflict, EndTransaction, Busy
  <1> QED BY <1>1, <1>2, <1>3, <1>4 DEF WorkerStep

\* A worker changes a control row only by applying what was asked so far.
LEMMA WorkerControl ==
    ASSUME Inv, NEW s \in Slots, WorkerStep(s) \/ Crash(s), NEW t \in Turns
    PROVE  /\ control'[t].seq = control[t].seq
           /\ control'[t].applied \in {control[t].applied, control[t].seq}
  <1>1. control \in [Turns -> ControlRow] /\ slot[s].turn \in Turns
    BY FieldTypes DEF Inv, TypeOK, Fields
  <1>2. ASSUME AcceptDecision(s) \/ FinishSynthesis(s)
        PROVE  \/ UNCHANGED control
               \/ control' = [control EXCEPT ![slot[s].turn].applied = control[slot[s].turn].seq]
    BY <1>2 DEF AcceptDecision, FinishSynthesis
  <1>3. ASSUME \/ CancelClaimedTurn(s) \/ AbandonClaim(s) \/ SocialAnswer(s) \/ ResumePlan(s)
               \/ Reason(s) \/ ObserveIntervention(s) \/ NextDecision(s) \/ FinishReasoning(s)
               \/ PreparePlan(s)
               \/ PrepareError(s) \/ PersistAwaitingPlan(s) \/ BeforeUnit(s) \/ CommitUnit(s)
        PROVE  UNCHANGED control
    BY <1>3 DEF CancelClaimedTurn, AbandonClaim, SocialAnswer, ResumePlan, Reason,
         ObserveIntervention, NextDecision, FinishReasoning, PreparePlan, PrepareError,
         PersistAwaitingPlan, BeforeUnit, CommitUnit
  <1>4. ASSUME \/ RunUnit(s) \/ AfterUnit(s) \/ FinishPlan(s) \/ RepairPreflight(s)
               \/ RepairExecution(s) \/ PersistReceipt(s) \/ CompleteTurn(s) \/ Raise(s)
               \/ WriteConflict(s) \/ FailClaimedTurn(s) \/ Crash(s)
        PROVE  UNCHANGED control
    BY <1>4 DEF RunUnit, AfterUnit, FinishPlan, RepairPreflight, RepairExecution,
         PersistReceipt, CompleteTurn, Raise, WriteConflict, FailClaimedTurn, Crash
  <1>5. \/ UNCHANGED control
        \/ control' = [control EXCEPT ![slot[s].turn].applied = control[slot[s].turn].seq]
    BY <1>2, <1>3, <1>4 DEF WorkerStep
  <1>6. CASE UNCHANGED control
    BY <1>6
  <1>7. CASE control' = [control EXCEPT ![slot[s].turn].applied = control[slot[s].turn].seq]
    BY <1>1, <1>7 DEF ControlRow
  <1> QED BY <1>5, <1>6, <1>7

\* Another worker leaves the turn of an owner alone.
LEMMA OtherWorkerElsewhere ==
    ASSUME Inv, [Next]_vars, NEW x \in Slots, Busy(x), NEW s \in Slots, x # s,
           WorkerStep(s) \/ Crash(s)
    PROVE  Elsewhere(x)
  <1> DEFINE t == slot[x].turn
  <1>1. slot'[x] = slot[x] /\ (x \in conflict => x \in conflict') /\ Busy(s)
    BY OtherWorker
  <1>2. t \in Turns /\ slot[s].turn \in Turns /\ TypeOK
    BY FieldTypes DEF Inv, Fields
  <1>3. /\ control'[t].seq = control[t].seq
        /\ control'[t].applied \in {control[t].applied, control[t].seq}
    BY <1>2, WorkerControl
  <1>4. ASSUME Owns(x)' PROVE turn'[t] = turn[t]
    <2>1. Owns(x)
      BY <1>1, <1>4, OwnsBack
    <2>2. ASSUME \/ CancelClaimedTurn(s) \/ Reason(s) \/ PrepareError(s) \/ PersistAwaitingPlan(s)
                 \/ CommitUnit(s) \/ RepairPreflight(s) \/ PersistReceipt(s) \/ CompleteTurn(s)
                 \/ FailClaimedTurn(s)
          PROVE  turn'[t] = turn[t]
      <3>1. CASE UNCHANGED turn
        BY <3>1
      <3>2. CASE Writes(slot[s].turn) /\ Owns(s)
        <4>1. slot[s].turn # t
          <5> SUFFICES ASSUME slot[s].turn = t PROVE FALSE
            OBVIOUS
          <5>1. slot[s].claim = turn[t].attempts
            BY <1>2, <3>2 DEF Owns, HoldsLease, Inv, LeaseInv
          <5> QED BY <1>1, <2>1, <5>1, LastClaim
        <4> QED BY <1>2, <3>2, <4>1, WritesOne
      <3> QED BY <2>2, <3>1, <3>2, OwnerWrites
    <2>3. ASSUME RepairExecution(s) PROVE turn'[t] = turn[t]
      <3>1. slot[s].claim = turn[slot[s].turn].attempts
        BY <2>3 DEF RepairExecution, Beyond, Inv, BarrierInv
      <3>2. slot[s].turn # t
        BY <1>1, <2>1, <3>1, LastClaim
      <3>3. UNCHANGED turn \/ Writes(slot[s].turn)
        BY <2>3 DEF RepairExecution, Writes
      <3> QED BY <1>2, <3>2, <3>3, WritesOne
    <2>4. ASSUME \/ AbandonClaim(s) \/ SocialAnswer(s) \/ ResumePlan(s)
                 \/ ObserveIntervention(s) \/ AcceptDecision(s) \/ NextDecision(s)
                 \/ FinishReasoning(s) \/ PreparePlan(s) \/ BeforeUnit(s)
                 \/ RunUnit(s) \/ AfterUnit(s) \/ FinishPlan(s) \/ FinishSynthesis(s)
                 \/ Raise(s) \/ WriteConflict(s) \/ Crash(s)
          PROVE  turn'[t] = turn[t]
      BY <2>4 DEF AbandonClaim, SocialAnswer, ResumePlan, ObserveIntervention, AcceptDecision,
           NextDecision, FinishReasoning, PreparePlan, BeforeUnit, RunUnit, AfterUnit, FinishPlan,
           FinishSynthesis, Raise, WriteConflict, Crash
    <2> QED BY <2>2, <2>3, <2>4 DEF WorkerStep
  <1> QED BY <1>1, <1>3, <1>4 DEF Elsewhere

\* A step that keeps the slots and the control rows, adds to the conflicts, and leaves the row
\* of the turn alone or takes its lease is elsewhere.
LEMMA TableElsewhere ==
    ASSUME NEW x \in Slots, UNCHANGED <<slot, control>>, x \in conflict => x \in conflict',
           Owns(x)' => /\ turn'[slot[x].turn].barrier = turn[slot[x].turn].barrier
                       /\ turn'[slot[x].turn].replans = turn[slot[x].turn].replans
    PROVE  Elsewhere(x)
  BY DEF Elsewhere

\* The queue and the browser's decisions leave the turn of an owner alone, but for its clock.
LEMMA QueueElsewhere ==
    ASSUME Inv, [Next]_vars, NEW x \in Slots, Busy(x), NEW u \in Turns,
           \/ Enqueue(u) \/ ExpireLease(u) \/ RecoverStaleTurn(u)
           \/ ApprovePlan(u) \/ RejectPlan(u) \/ ReconcileRollback(u)
    PROVE  Elsewhere(x)
  <1> DEFINE t == slot[x].turn
  <1>1. t \in Turns /\ TypeOK /\ turn[u] \in TurnRow /\ turn \in [Turns -> TurnRow]
    BY FieldTypes DEF Inv, Fields, TypeOK
  <1>2. /\ UNCHANGED <<slot, control>> /\ Writes(u)
        /\ x \in conflict => x \in conflict'
    BY DEF Enqueue, ExpireLease, RecoverStaleTurn, ApprovePlan, RejectPlan, ReconcileRollback,
           Writes, TouchConversation
  <1>3. CASE u # t
    <2>1. turn'[t] = turn[t]
      BY <1>1, <1>2, <1>3, WritesOne
    <2> QED BY <1>2, <2>1, TableElsewhere
  <1>4. ASSUME u = t, Owns(x)'
        PROVE  /\ turn'[t].barrier = turn[t].barrier
               /\ turn'[t].replans = turn[t].replans
    <2>1. turn[t].state = "running"
      BY <1>2, <1>4, OwnsBack DEF Owns
    <2>2. CASE ExpireLease(u)
      <3>1. turn'[t] = [turn[t] EXCEPT !.expired = TRUE]
        BY <1>1, <1>4, <2>2 DEF ExpireLease, SetTurn
      <3> QED BY <1>1, <1>4, <3>1 DEF TurnRow
    <2>3. CASE RecoverStaleTurn(u)
      <3>1. turn'[t] = RecoveredRow(t)
        BY <1>1, <1>4, <2>3 DEF RecoverStaleTurn, SetTurn
      <3>2. RecoveredRow(t).state # "running"
        BY <1>1, <1>4, <2>1, RecoveredRowLeaves DEF Inv, RowInv, Leaves
      <3> QED BY <1>2, <1>4, <3>1, <3>2 DEF Owns
    <2>4. ~(\/ Enqueue(u) \/ ApprovePlan(u) \/ RejectPlan(u) \/ ReconcileRollback(u))
      BY <1>4, <2>1 DEF Enqueue, ApprovePlan, RejectPlan, ReconcileRollback
    <2> QED BY <2>2, <2>3, <2>4
  <1> QED BY <1>2, <1>3, <1>4, TableElsewhere

\* A claim is of another turn than that of an owner.
LEMMA ClaimElsewhere ==
    ASSUME Inv, [Next]_vars, NEW x \in Slots, Busy(x), NEW s \in Slots, NEW u \in Turns,
           ClaimNextTurn(s, u)
    PROVE  Elsewhere(x)
  <1> DEFINE t == slot[x].turn
  <1>1. t \in Turns /\ TypeOK
    BY FieldTypes DEF Inv, Fields
  <1>2. x # s
    BY DEF ClaimNextTurn, Busy
  <1>3. slot'[x] = slot[x]
    BY <1>2, ClaimNextTurnStep DEF ClaimMove, OtherSlotsSame
  <1>4. UNCHANGED control /\ (x \in conflict => x \in conflict')
    BY <1>2 DEF ClaimNextTurn, EndTransaction
  <1>5. ASSUME Owns(x)' PROVE turn'[t] = turn[t]
    <2>1. turn[t].state = "running"
      BY <1>3, <1>5, OwnsBack DEF Owns
    <2>2. u # t /\ Writes(u)
      BY <2>1 DEF ClaimNextTurn, Claimable, Writes
    <2> QED BY <1>1, <2>2, WritesOne
  <1> QED BY <1>3, <1>4, <1>5 DEF Elsewhere

\* A redirect makes an owner that is about to write the conversation row conflict; a Stop only
\* sets its flag.
LEMMA RequestElsewhere ==
    ASSUME Inv, [Next]_vars, NEW x \in Slots, slot[x].pc \in WritesConversation,
           NEW r \in Requests,
           \/ FinishRedirect(r) \/ FinishCancel(r) \/ AbortRequest(r)
           \/ \E kind \in {"redirect", "cancel"}, u \in Turns : BeginRequest(r, kind, u)
    PROVE  Elsewhere(x)
  <1> DEFINE t == slot[x].turn
             u == request[r].turn
  <1>1. /\ t \in Turns /\ u \in Turns /\ TypeOK /\ x # r /\ Busy(x)
        /\ control \in [Turns -> ControlRow]
    BY FieldTypes, RequestTypes, DisjointAssumption
       DEF Inv, Fields, TypeOK, Busy, WritesConversation
  <1>2. UNCHANGED slot /\ (x \in conflict => x \in conflict')
    BY <1>1 DEF FinishRedirect, FinishCancel, AbortRequest, BeginRequest, EndTransaction,
                TouchConversation
  <1>3. \/ x \in conflict'
        \/ /\ control'[t].seq = control[t].seq
           /\ control'[t].applied \in {control[t].applied, control[t].seq}
    <2>1. CASE FinishRedirect(r)
      <3>1. control' = [control EXCEPT ![u].seq = @ + 1] /\ TouchConversation(u, {r})
        BY <2>1 DEF FinishRedirect
      <3>2. CASE u = t
        BY <1>1, <3>1, <3>2 DEF TouchConversation
      <3>3. CASE u # t
        <4>1. control'[t] = control[t]
          BY <1>1, <3>1, <3>3
        <4> QED BY <4>1
      <3> QED BY <3>2, <3>3
    <2>2. CASE FinishCancel(r)
      <3>1. UNCHANGED control \/ control' = [control EXCEPT ![u].cancel = TRUE]
        BY <2>2 DEF FinishCancel
      <3>2. CASE control' = [control EXCEPT ![u].cancel = TRUE]
        BY <1>1, <3>2 DEF ControlRow
      <3> QED BY <3>1, <3>2
    <2>3. ASSUME ~FinishRedirect(r), ~FinishCancel(r) PROVE UNCHANGED control
      BY <2>3 DEF AbortRequest, BeginRequest
    <2> QED BY <2>1, <2>2, <2>3
  <1>4. ASSUME Owns(x)' PROVE turn'[t] = turn[t]
    <2>1. turn[t].state = "running"
      BY <1>1, <1>2, <1>4, OwnsBack DEF Owns
    <2>2. UNCHANGED turn \/ (Writes(u) /\ turn[u].state \in {"queued", "awaiting_confirmation"})
      BY DEF FinishRedirect, FinishCancel, AbortRequest, BeginRequest, RowUnchanged, Writes
    <2>3. CASE Writes(u) /\ turn[u].state \in {"queued", "awaiting_confirmation"}
      BY <1>1, <2>1, <2>3, WritesOne
    <2> QED BY <2>2, <2>3
  <1> QED BY <1>2, <1>3, <1>4 DEF Elsewhere

\* Locations from which a worker may offer what it has.
OfferLocations == {"planning", "proposing", "answered"}

\* Locations a direct jump of a worker leads to.
LEMMA JumpLocations ==
    ASSUME Inv, NEW x \in Slots,
           \/ ResumePlan(x) \/ Reason(x) \/ ObserveIntervention(x) \/ AcceptDecision(x)
           \/ NextDecision(x) \/ BeforeUnit(x) \/ CommitUnit(x) \/ RunUnit(x) \/ AfterUnit(x)
           \/ FinishPlan(x) \/ PersistReceipt(x)
    PROVE  slot'[x].pc \notin OfferLocations
  <1> USE DEF OfferLocations
  <1>1. slot \in [Slots -> Job] /\ slot[x] \in Job /\ TypeOK
    BY DEF Inv, TypeOK
  <1>2. ASSUME ResumePlan(x) PROVE slot'[x].pc = "unit"
    BY <1>1, <1>2, StartPlanStep DEF ResumePlan
  <1>3. ASSUME Reason(x) PROVE slot'[x].pc = "reasoning"
    BY <1>1, <1>3 DEF Reason, SetJob, Job
  <1>4. ASSUME ObserveIntervention(x) PROVE slot'[x].pc = "reasoning"
    BY <1>1, <1>4 DEF ObserveIntervention, SetJob, Job
  <1>5. ASSUME AcceptDecision(x) PROVE slot'[x].pc \in {"decided", "failing"}
    <2>1. CASE Fault(x, "agent_cancelled")
      BY <1>1, <2>1, FaultStep DEF Errors
    <2>2. CASE SetJob(x, [slot[x] EXCEPT !.pc = "decided", !.seen = 0])
      BY <1>1, <2>2 DEF SetJob, Job
    <2> QED BY <1>5, <2>1, <2>2 DEF AcceptDecision
  <1>6. ASSUME NextDecision(x) PROVE slot'[x].pc = "reasoning"
    BY <1>1, <1>6 DEF NextDecision, SetJob, Job
  <1>7. ASSUME BeforeUnit(x) PROVE slot'[x].pc \in {"boundary", "failing"}
    <2>1. ControlFault(slot[x].turn) \in Errors /\ "boundary" \in Locations
      BY <1>1, ControlFaultType DEF Job, Locations
    <2> QED BY <1>1, <1>7, <2>1, FaultStep, GotoStep DEF BeforeUnit
  <1>8. ASSUME CommitUnit(x) PROVE slot'[x].pc = "executing"
    BY <1>1, <1>8 DEF CommitUnit, SetJob, Job
  <1>9. ASSUME RunUnit(x) PROVE slot'[x].pc = "effected"
    <2>1. CASE SetJob(x, [slot[x] EXCEPT !.pc = "effected", !.dirty = TRUE])
      BY <1>1, <2>1 DEF SetJob, Job
    <2>2. CASE SetJob(x, [slot[x] EXCEPT !.pc = "effected", !.mode = IdleJob.mode])
      BY <1>1, <2>2 DEF SetJob, Job
    <2> QED BY <1>9, <2>1, <2>2 DEF RunUnit
  <1>10. ASSUME AfterUnit(x) PROVE slot'[x].pc = "unit"
    BY <1>1, <1>10 DEF AfterUnit, SetJob, Job
  <1>11. ASSUME FinishPlan(x) PROVE slot'[x].pc = "synthesis"
    BY <1>1, <1>11, GotoStep DEF FinishPlan, Locations
  <1>12. ASSUME PersistReceipt(x) PROVE slot'[x].pc = "synthesis"
    BY <1>1, <1>12 DEF PersistReceipt, SetJob, Job
  <1> QED BY <1>2, <1>3, <1>4, <1>5, <1>6, <1>7, <1>8, <1>9, <1>10, <1>11, <1>12

\* A worker that was given back a plan error goes on to an answer only when its replans are
\* used up.
LEMMA ReplanUsedUp ==
    ASSUME Inv, NEW x \in Slots,
           PrepareError(x) \/ RepairPreflight(x) \/ RepairExecution(x),
           slot'[x].pc \in OfferLocations
    PROVE  turn'[slot[x].turn].replans > MaxReplans
  <1> DEFINE t == slot[x].turn
  <1>1. /\ TypeOK /\ t \in Turns /\ turn \in [Turns -> TurnRow] /\ turn[t] \in TurnRow
        /\ slot \in [Slots -> Job] /\ slot[x] \in Job /\ turn[t].replans \in Nat
    BY FieldTypes DEF Inv, Fields, TypeOK, TurnRow
  <1>2. \A code \in Errors : ~Fault(x, code)
    BY <1>1, FaultStep DEF OfferLocations
  <1>3. ControlFault(t) \in Errors
    BY <1>1, ControlFaultType
  <1>4. /\ Replan(x, t)
        /\ \/ SetTurn(t, [turn[t] EXCEPT !.replans = @ + 1])
           \/ SetTurn(t, [turn[t] EXCEPT !.plan = "none", !.error = "none", !.replans = @ + 1])
           \/ SetTurn(t, [turn[t] EXCEPT !.barrier = FALSE, !.plan = "none", !.error = "none",
                                         !.replans = @ + 1])
    BY <1>2, <1>3 DEF PrepareError, RepairPreflight, RepairExecution
  <1>5. turn'[t].replans = turn[t].replans + 1
    <2>1. CASE SetTurn(t, [turn[t] EXCEPT !.replans = @ + 1])
      BY <1>1, <2>1 DEF SetTurn, TurnRow
    <2>2. CASE SetTurn(t, [turn[t] EXCEPT !.plan = "none", !.error = "none", !.replans = @ + 1])
      BY <1>1, <2>2 DEF SetTurn, TurnRow
    <2>3. CASE SetTurn(t, [turn[t] EXCEPT !.barrier = FALSE, !.plan = "none", !.error = "none",
                                          !.replans = @ + 1])
      BY <1>1, <2>3 DEF SetTurn, TurnRow
    <2> QED BY <1>4, <2>1, <2>2, <2>3
  <1>6. slot'[x].pc = IF turn[t].replans >= MaxReplans THEN "answered" ELSE "reasoning"
    BY <1>1, <1>4 DEF Replan, SetJob, Job
  <1>7. turn[t].replans >= MaxReplans
    BY <1>6 DEF OfferLocations
  <1> QED BY <1>1, <1>5, <1>7, BoundsAssumption

\* A worker comes to offer something only after its check of the control row passed.
LEMMA OwnOffer ==
    ASSUME Inv, NEW x \in Slots, WorkerStep(x) \/ Crash(x), Offering(x)'
    PROVE  Applied(slot[x].turn) /\ UNCHANGED control /\ slot'[x].turn = slot[x].turn
  <1> DEFINE t == slot[x].turn
  <1>1. TypeOK /\ t \in Turns /\ ControlFault(t) \in Errors
    BY FieldTypes, ControlFaultType DEF Inv, Fields
  <1>2. slot'[x].pc \in OfferLocations
    BY DEF Offering, OfferLocations
  <1>3. (\A code \in Errors : ~Fault(x, code)) /\ ~Retire(x)
    BY <1>1, <1>2, FaultStep, RetireStep DEF OfferLocations
  <1>4. ASSUME SocialAnswer(x) \/ FinishReasoning(x) \/ PreparePlan(x)
        PROVE  Applied(t) /\ UNCHANGED control
    <2>1. ControlFault(t) = "none" /\ UNCHANGED control
      BY <1>1, <1>3, <1>4 DEF SocialAnswer, FinishReasoning, PreparePlan
    <2> QED BY <2>1 DEF ControlFault, Applied
  <1>5. slot'[x].turn = slot[x].turn
    <2>1. LeaveMove(x) \/ ThinkMove(x) \/ RaiseMove(x) \/ UndoMove(x) \/ EffectMove(x)
      BY WorkerStepKind, CrashStep
    <2> QED BY <1>2, <2>1
            DEF LeaveMove, ThinkMove, RaiseMove, UndoMove, EffectMove, Continues, OfferLocations
  <1>6. ~(PrepareError(x) \/ RepairPreflight(x) \/ RepairExecution(x))
    <2> SUFFICES ASSUME PrepareError(x) \/ RepairPreflight(x) \/ RepairExecution(x) PROVE FALSE
      OBVIOUS
    <2>1. turn'[t].replans > MaxReplans
      BY <1>2, ReplanUsedUp
    <2>2. turn'[t].replans <= MaxReplans /\ turn'[t].replans \in Nat
      <3>1. TypeOK'
        BY WorkerStepKind, CrashStep
      <3> QED BY <1>1, <1>5, <3>1 DEF Offering, TypeOK, TurnRow
    <2> QED BY <2>1, <2>2, BoundsAssumption
  <1>7. ~FinishSynthesis(x)
    <2> SUFFICES ASSUME FinishSynthesis(x) PROVE FALSE
      OBVIOUS
    <2>1. Beyond(x) /\ UNCHANGED turn
      BY DEF FinishSynthesis, Beyond
    <2> QED BY <1>5, <2>1 DEF Inv, BarrierInv, Offering
  <1>8. ~(\/ ResumePlan(x) \/ Reason(x) \/ ObserveIntervention(x) \/ AcceptDecision(x)
          \/ NextDecision(x) \/ BeforeUnit(x) \/ CommitUnit(x) \/ RunUnit(x) \/ AfterUnit(x)
          \/ FinishPlan(x) \/ PersistReceipt(x))
    BY <1>2, JumpLocations
  <1>9. ~(\/ CancelClaimedTurn(x) \/ AbandonClaim(x) \/ PersistAwaitingPlan(x)
          \/ CompleteTurn(x) \/ FailClaimedTurn(x) \/ Crash(x))
    BY <1>3 DEF CancelClaimedTurn, AbandonClaim, PersistAwaitingPlan, CompleteTurn,
         FailClaimedTurn, Crash
  <1>10. ~(Raise(x) \/ WriteConflict(x))
    BY <1>3 DEF Raise, WriteConflict, Errors
  <1> QED BY <1>4, <1>5, <1>6, <1>7, <1>8, <1>9, <1>10 DEF WorkerStep

\* What is offered has applied every redirect.
LEMMA OfferStep ==
    ASSUME Inv, OfferInv, [Next]_vars
    PROVE  OfferInv'
  <1> SUFFICES ASSUME NEW x \in Slots, Offering(x)' PROVE Applied(slot[x].turn)'
    BY DEF OfferInv
  <1>1. ASSUME Elsewhere(x), Busy(x) PROVE Applied(slot[x].turn)'
    <2>1. slot'[x] = slot[x] /\ Owns(x)'
      BY <1>1 DEF Elsewhere, Offering
    <2>2. Owns(x)
      BY <1>1, <2>1, OwnsBack
    <2>3. Offering(x)
      BY <1>1, <2>1, <2>2 DEF Elsewhere, Offering
    <2> QED BY <1>1, <2>1, <2>3 DEF OfferInv, Elsewhere, Offering, Applied
  <1>2. ASSUME slot'[x] = slot[x] PROVE Busy(x) /\ slot[x].pc \in WritesConversation
    BY <1>2 DEF Offering, Busy, WritesConversation
  <1>3. ASSUME NEW s \in Slots, WorkerStep(s) \/ Crash(s) PROVE Applied(slot[x].turn)'
    <2>1. CASE s = x
      BY <1>3, <2>1, OwnOffer DEF Applied
    <2>2. CASE s # x
      BY <1>1, <1>2, <1>3, <2>2, OtherWorker, OtherWorkerElsewhere
    <2> QED BY <2>1, <2>2
  <1>4. ASSUME NEW u \in Turns,
               \/ Enqueue(u) \/ ExpireLease(u) \/ RecoverStaleTurn(u)
               \/ ApprovePlan(u) \/ RejectPlan(u) \/ ReconcileRollback(u)
        PROVE  Applied(slot[x].turn)'
    <2>1. UNCHANGED slot
      BY <1>4 DEF Enqueue, ExpireLease, RecoverStaleTurn, ApprovePlan, RejectPlan,
                  ReconcileRollback
    <2> QED BY <1>1, <1>2, <1>4, <2>1, QueueElsewhere
  <1>5. ASSUME NEW s \in Slots, NEW u \in Turns, ClaimNextTurn(s, u)
        PROVE  Applied(slot[x].turn)'
    <2>1. ClaimMove(s, u)
      BY <1>5, ClaimNextTurnStep
    <2>2. x # s /\ slot'[x] = slot[x]
      BY <2>1 DEF ClaimMove, OtherSlotsSame, Offering
    <2> QED BY <1>1, <1>2, <1>5, <2>2, ClaimElsewhere
  <1>6. ASSUME NEW r \in Requests,
               \/ FinishRedirect(r) \/ FinishCancel(r) \/ AbortRequest(r)
               \/ \E kind \in {"redirect", "cancel"}, u \in Turns : BeginRequest(r, kind, u)
        PROVE  Applied(slot[x].turn)'
    <2>1. UNCHANGED slot
      BY <1>6 DEF FinishRedirect, FinishCancel, AbortRequest, BeginRequest
    <2> QED BY <1>1, <1>2, <1>6, <2>1, RequestElsewhere
  <1>7. CASE UNCHANGED vars
    BY <1>7 DEF vars, Offering, Owns, HoldsLease, OfferInv, Applied
  <1> QED BY <1>3, <1>4, <1>5, <1>6, <1>7 DEF Next, BrowserStep

\* A running turn is completed or offered by its owner only, from a location where it offers.
LEMMA VerdictByOwner ==
    ASSUME Inv, [Next]_vars, NEW t \in Turns, turn[t].state = "running",
           turn'[t].state \in {"completed", "awaiting_confirmation"}
    PROVE  \E s \in Slots : /\ slot[s].turn = t /\ Owns(s) /\ s \notin conflict
                            /\ slot[s].pc \in OfferLocations
  <1> DEFINE Offered == \E s \in Slots : /\ slot[s].turn = t /\ Owns(s) /\ s \notin conflict
                                         /\ slot[s].pc \in OfferLocations
  <1> SUFFICES Offered
    OBVIOUS
  <1>0. TypeOK /\ turn \in [Turns -> TurnRow] /\ turn[t] \in TurnRow /\ turn'[t] # turn[t]
    BY DEF Inv, TypeOK
  <1>1. ASSUME NEW s \in Slots, PersistAwaitingPlan(s) \/ CompleteTurn(s) PROVE Offered
    <2>1. /\ Owns(s) /\ s \notin conflict /\ slot[s].pc \in OfferLocations
          /\ Writes(slot[s].turn) /\ slot[s].turn \in Turns
      BY <1>1, FieldTypes DEF PersistAwaitingPlan, CompleteTurn, CanWriteConversation, OfferLocations,
                  Writes, Inv, Fields
    <2>2. slot[s].turn = t
      BY <1>0, <2>1, WritesOne
    <2> QED BY <2>1, <2>2
  <1>2. ASSUME NEW s \in Slots,
               \/ CancelClaimedTurn(s) \/ Reason(s) \/ PrepareError(s) \/ CommitUnit(s)
               \/ RepairPreflight(s) \/ PersistReceipt(s) \/ FailClaimedTurn(s)
               \/ RepairExecution(s) \/ AbandonClaim(s) \/ SocialAnswer(s) \/ ResumePlan(s)
        PROVE  FALSE
    <2> DEFINE u == slot[s].turn
    <2>1. u \in Turns /\ slot[s].fault \in Errors
      BY DEF Inv, TypeOK, Job
    <2>2. UNCHANGED turn \/ Writes(u)
      BY <1>2 DEF CancelClaimedTurn, Reason, PrepareError, CommitUnit, RepairPreflight,
           PersistReceipt, FailClaimedTurn, RepairExecution, AbandonClaim, SocialAnswer,
           ResumePlan, Writes
    <2>3. u = t /\ turn' # turn
      BY <1>0, <2>1, <2>2, WritesOne
    <2>4. CASE CancelClaimedTurn(s)
      <3>1. turn'[t] = [Released(turn[t]) EXCEPT !.state = "cancelled"]
        BY <1>0, <2>3, <2>4 DEF CancelClaimedTurn, SetTurn
      <3> QED BY <1>0, <3>1 DEF Released, TurnRow
    <2>5. CASE FailClaimedTurn(s)
      <3>1. turn'[t] = FailedRow(t, slot[s].fault)
        BY <1>0, <2>3, <2>5 DEF FailClaimedTurn, SetTurn
      <3>2. FailedRow(t, slot[s].fault).state \in {"cancelled", "queued", "recovery_required", "failed"}
        BY <1>0 DEF FailedRow, Released, TurnRow
      <3> QED BY <3>1, <3>2
    <2>6. ASSUME ~CancelClaimedTurn(s), ~FailClaimedTurn(s) PROVE turn'[t].state = turn[t].state
      <3>3. CASE Reason(s)
        BY <3>3, <1>0, <2>3 DEF Reason, SetTurn, TurnRow
      <3>4. CASE PrepareError(s)
        BY <3>4, <1>0, <2>3 DEF PrepareError, SetTurn, TurnRow
      <3>5. CASE CommitUnit(s)
        BY <3>5, <1>0, <2>3 DEF CommitUnit, SetTurn, TurnRow
      <3>6. CASE RepairPreflight(s)
        BY <3>6, <1>0, <2>3 DEF RepairPreflight, SetTurn, TurnRow
      <3>7. CASE PersistReceipt(s)
        BY <3>7, <1>0, <2>3 DEF PersistReceipt, SetTurn, TurnRow
      <3>8. CASE RepairExecution(s)
        BY <3>8, <1>0, <2>3 DEF RepairExecution, SetTurn, TurnRow
      <3>9. ~(AbandonClaim(s) \/ SocialAnswer(s) \/ ResumePlan(s))
        BY <2>3 DEF AbandonClaim, SocialAnswer, ResumePlan
      <3> QED BY <1>2, <2>6, <3>3, <3>4, <3>5, <3>6, <3>7, <3>8, <3>9
    <2> QED BY <2>4, <2>5, <2>6
  <1>3. ASSUME NEW s \in Slots,
               \/ ObserveIntervention(s) \/ AcceptDecision(s) \/ NextDecision(s)
               \/ FinishReasoning(s) \/ PreparePlan(s) \/ BeforeUnit(s)
               \/ RunUnit(s) \/ AfterUnit(s) \/ FinishPlan(s) \/ FinishSynthesis(s)
               \/ Raise(s) \/ WriteConflict(s) \/ Crash(s)
        PROVE  FALSE
    BY <1>0, <1>3 DEF ObserveIntervention, AcceptDecision, NextDecision, FinishReasoning,
         PreparePlan, BeforeUnit, RunUnit, AfterUnit, FinishPlan, FinishSynthesis, Raise,
         WriteConflict, Crash
  <1>4. ASSUME NEW u \in Turns,
               \/ Enqueue(u) \/ ApprovePlan(u) \/ RejectPlan(u) \/ ReconcileRollback(u)
               \/ \E s \in Slots : ClaimNextTurn(s, u)
        PROVE  FALSE
    <2>1. Writes(u) /\ u # t
      BY <1>4 DEF Enqueue, ApprovePlan, RejectPlan, ReconcileRollback, ClaimNextTurn, Claimable, Writes
    <2> QED BY <1>0, <2>1, WritesOne
  <1>5. ASSUME NEW u \in Turns, ExpireLease(u) PROVE FALSE
    <2>1. Writes(u)
      BY <1>5 DEF ExpireLease, Writes
    <2>2. u = t
      BY <1>0, <2>1, WritesOne
    <2> QED BY <1>0, <1>5, <2>2 DEF ExpireLease, SetTurn, TurnRow
  <1>6. ASSUME NEW u \in Turns, RecoverStaleTurn(u) PROVE FALSE
    <2>1. Writes(u)
      BY <1>6 DEF RecoverStaleTurn, Writes
    <2>2. u = t /\ ~turn[t].result
      BY <1>0, <2>1, WritesOne DEF Inv, RowInv
    <2>3. turn'[t] = RecoveredRow(t)
      BY <1>0, <1>6, <2>2 DEF RecoverStaleTurn, SetTurn
    <2>4. RecoveredRow(t).state \in {"cancelled", "recovery_required", "queued", "failed"}
      BY <1>0, <2>2 DEF RecoveredRow, Released, TurnRow
    <2> QED BY <2>3, <2>4
  <1>7. ASSUME NEW r \in Requests,
               \/ FinishRedirect(r) \/ FinishCancel(r) \/ AbortRequest(r)
               \/ \E kind \in {"redirect", "cancel"}, u \in Turns : BeginRequest(r, kind, u)
        PROVE  FALSE
    <2> DEFINE u == request[r].turn
    <2>1. u \in Turns
      BY RequestTypes DEF Inv
    <2>2. UNCHANGED turn \/ (Writes(u) /\ turn[u].state \in {"queued", "awaiting_confirmation"})
      BY <1>7 DEF FinishRedirect, FinishCancel, AbortRequest, BeginRequest, RowUnchanged, Writes
    <2> QED BY <1>0, <2>1, <2>2, WritesOne
  <1>8. CASE UNCHANGED vars
    BY <1>0, <1>8 DEF vars
  <1> HIDE DEF Offered
  <1> QED BY <1>1, <1>2, <1>3, <1>4, <1>5, <1>6, <1>7, <1>8 DEF Next, WorkerStep, BrowserStep

\* An accepted redirect is not lost: a turn without effects completes, or offers a plan, only
\* when every redirect was applied.  The check of the control row and the conflict on the
\* conversation row together leave no gap.
THEOREM RedirectsAreApplied == Spec => RedirectNotLost
  <1>1. Init => OfferInv
    BY DEF Init, OfferInv, Offering, IdleJob
  <1>2. Spec => [](Inv /\ OfferInv)
    BY <1>1, OfferStep, Invariance, PTL DEF Spec
  <1>3. ASSUME Inv, OfferInv, [Next]_vars, NEW t \in Turns, turn[t].state = "running",
               turn'[t].state \in {"completed", "awaiting_confirmation"},
               ~turn[t].barrier, turn[t].replans <= MaxReplans
        PROVE  control[t].seq = control[t].applied
    <2>1. PICK s \in Slots : /\ slot[s].turn = t /\ Owns(s) /\ s \notin conflict
                             /\ slot[s].pc \in OfferLocations
      BY <1>3, VerdictByOwner
    <2>2. Offering(s)
      BY <1>3, <2>1 DEF Offering, OfferLocations
    <2> QED BY <1>3, <2>1, <2>2 DEF OfferInv, Applied
  <1>4. Inv /\ OfferInv /\ [Next]_vars =>
           [\A t \in Turns : /\ turn[t].state = "running"
                             /\ turn'[t].state \in {"completed", "awaiting_confirmation"}
                             /\ ~turn[t].barrier
                             /\ turn[t].replans <= MaxReplans
                             => control[t].seq = control[t].applied]_vars
    BY <1>3
  <1> QED BY <1>2, <1>4, PTL DEF Spec, RedirectNotLost
=============================================================================
