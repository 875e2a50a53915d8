----------------------------- MODULE EffectPlan -----------------------------
(***************************************************************************)
(* One turn's effect plans: preparation, approval, the execution of        *)
(* recovery units with their durable checkpoints, the effect journal, the  *)
(* repair of a plan that had no effect, and the reversion of a verified    *)
(* plan.  Leases and queueing are TurnLifecycle's; here one worker holds   *)
(* the turn and may die.                                                   *)
(*                                                                         *)
(* The worker's transaction reads a snapshot and works on a copy of the    *)
(* business records; a checkpoint publishes copy, journal and plan         *)
(* together.  Files and remote effects are not part of a transaction.      *)
(***************************************************************************)
EXTENDS Naturals, Sequences, FiniteSets, FiniteSetsExt

CONSTANTS CallIds,      \* call ids the provider may use as step ids
          Records,      \* business records
          Capabilities, \* the plan capabilities the turn may use
          MaxSteps,     \* max_effect_steps
          MaxReplans,   \* max_replans of the policy
          MaxEdits,     \* bound on edits of other users
          MaxCrashes    \* bound on worker deaths

ASSUME BoundAssumption ==
    /\ Capabilities \subseteq {"patch", "batch_delete", "host", "module", "workspace"}
    /\ {MaxSteps, MaxReplans, MaxEdits, MaxCrashes} \subseteq Nat
    /\ CallIds \cap {"initial", "edited", "deleted"} = {}

VARIABLES turn,    \* the committed turn row: state, write_barrier, plan, approval
          used,    \* call ids in the committed working transcript
          replans, \* plan_execution_error items in it
          rows,    \* the committed effect journal
          data,    \* committed business records
          durable, \* steps whose effects no rollback can undo
          job,     \* the worker's memory and open transaction
          stop,    \* a stop request is committed
          edits, crashes,
          ran,     \* history: for every step that ran, what held at that moment
          granted  \* history: <<capability, record>> pairs a person approved

vars == <<turn, used, replans, rows, data, durable, job, stop, edits, crashes, ran, granted>>

-----------------------------------------------------------------------------
(* Capability metadata *)

\* _recovery_mode
Mode(c) == CASE c \in {"host", "module"} -> "external" [] c = "workspace" -> "segmented"
             [] OTHER -> "odoo_atomic"

\* Definitions with max_calls: batch_mutate allows as many as a plan has steps.
MaxCalls(c) == CASE c \in {"patch", "host"} -> 2 [] c = "module" -> 1 [] c = "workspace" -> 4
                 [] OTHER -> MaxSteps

\* partial_failure_semantics = continue_on_error
ContinueOnError(c) == c = "batch_delete"

\* approval_refinement = record_id_subset
RecordSubset(c) == c = "batch_delete"

\* A capability with a host-only <name>.revert.
Compensable(c) == c = "patch"

\* _journal_classification
Classification(c) ==
    CASE c = "patch" -> "reversible" [] c = "batch_delete" -> "irreversible"
      [] c = "workspace" -> "reconstructable" [] c \in {"host", "module"} -> "external_or_unknown"

\* CapabilityPolicy under risk_based with ceiling "moderate": a patch is automatic.
NeedsApproval(c) == c \in {"batch_delete", "host", "module", "workspace"}

Targets(c) == CASE c = "patch" -> {{r} : r \in Records}
                [] c = "batch_delete" -> (SUBSET Records) \ {{}}
                [] OTHER -> {{}}

-----------------------------------------------------------------------------
(* Plans *)

\* The precondition fingerprint: what the preview read.
Fingerprint(d, recs) == [r \in recs |-> d[r]]

Step(id, c, recs, d) ==
    [id |-> id, cap |-> c, recs |-> recs, before |-> Fingerprint(d, recs),
     state |-> "previewed", outcome |-> "none"]

\* _assign_recovery_units: consecutive Odoo-local steps share a unit.
UnitOf(steps) ==
    LET u[i \in DOMAIN steps] ==
            IF i = 1 THEN 1
            ELSE IF Mode(steps[i].cap) = "odoo_atomic" /\ Mode(steps[i - 1].cap) = "odoo_atomic"
                 THEN u[i - 1] ELSE u[i - 1] + 1
    IN u

NoPlan == [state |-> "none", steps |-> << >>, unitOf |-> << >>, units |-> << >>]

NewPlan(steps) ==
    LET u == UnitOf(steps) IN
    [state |-> IF \E i \in DOMAIN steps : NeedsApproval(steps[i].cap)
               THEN "awaiting_confirmation" ELSE "authorized",
     steps |-> steps,
     unitOf |-> u,
     units |-> [k \in 1..u[Len(steps)] |->
                  [mode |-> Mode(steps[CHOOSE i \in DOMAIN steps : u[i] = k].cap),
                   state |-> "prepared"]]]

StepsOf(plan, k) == {i \in DOMAIN plan.steps : plan.unitOf[i] = k}
Ids(plan) == {plan.steps[i].id : i \in DOMAIN plan.steps}

\* _step_satisfies_dependencies
Satisfies(step) ==
    /\ step.state = "completed"
    /\ ~(ContinueOnError(step.cap) /\ step.outcome \in {"partial", "blocked"})

\* _proposed_plan: each step depends on the one before.
DependencyMet(plan, i) == IF i = 1 THEN TRUE ELSE Satisfies(plan.steps[i - 1])

\* _approval_scopes: record sets per refinable operation, counts per exact call.
Scope(plan, c) == UNION {plan.steps[i].recs : i \in {j \in DOMAIN plan.steps : plan.steps[j].cap = c}}
ExactCount(plan, c, recs) ==
    Cardinality({i \in DOMAIN plan.steps : plan.steps[i].cap = c /\ plan.steps[i].recs = recs})

\* As if only capability names were compared.
ApprovalRefinesNames(original, repaired) ==
    \A i \in DOMAIN repaired.steps : \E j \in DOMAIN original.steps :
        original.steps[j].cap = repaired.steps[i].cap

\* approval_refines
ApprovalRefines(original, repaired) ==
    \A i \in DOMAIN repaired.steps :
        LET s == repaired.steps[i] IN
        IF RecordSubset(s.cap) THEN Scope(repaired, s.cap) \subseteq Scope(original, s.cap)
        ELSE ExactCount(repaired, s.cap, s.recs) <= ExactCount(original, s.cap, s.recs)

-----------------------------------------------------------------------------
(* The journal *)

NoRow == [state |-> "none", unit |-> 0, cap |-> "none", before |-> << >>]

\* _row_values
RowValues(plan, i) ==
    LET s == plan.steps[i] u == plan.unitOf[i] IN
    [state |-> CASE s.state = "completed" -> "verified"
                 [] s.state = "skipped" -> "skipped"
                 [] s.state = "previewed" /\ plan.units[u].state = "executing" -> "executing"
                 [] OTHER -> "prepared",
     unit |-> u, cap |-> s.cap, before |-> s.before]

\* _row_updates: verified and skipped rows keep their state.
RowUpdates(row, values) ==
    IF row.state \in {"verified", "skipped"} THEN row ELSE [row EXCEPT !.state = values.state]

\* The rows _sync_plan looks at.
Existing == {s \in CallIds : rows[s].state \notin {"none", "rolled_back", "reverted"}}

\* _validate_binding
SameBinding(row, values) ==
    row.unit = values.unit /\ row.cap = values.cap /\ row.before = values.before

\* unique(turn_id, step_id): a row _sync_plan does not see still holds its step id.
Collides(plan) == \E s \in Ids(plan) : s \notin Existing /\ rows[s].state # "none"

\* _sync_plan refuses a plan that does not match the rows it sees.
SyncRefused(plan) ==
    \/ Existing \ Ids(plan) # {}
    \/ \E i \in DOMAIN plan.steps :
        /\ plan.steps[i].id \in Existing
        /\ ~SameBinding(rows[plan.steps[i].id], RowValues(plan, i))

SyncPlan(plan) ==
    [s \in CallIds |->
        IF \E i \in DOMAIN plan.steps : plan.steps[i].id = s
        THEN LET i == CHOOSE j \in DOMAIN plan.steps : plan.steps[j].id = s IN
             IF s \in Existing THEN RowUpdates(rows[s], RowValues(plan, i)) ELSE RowValues(plan, i)
        ELSE rows[s]]

\* As if an interrupted external unit were classified like a transactional one.
FailedRowTransactional(row, plan) ==
    IF row.state \in {"none", "verified", "skipped", "reverted"} THEN row.state
    ELSE IF row.unit \notin DOMAIN plan.units
         THEN IF row.state = "executing" THEN "uncertain" ELSE row.state
    ELSE LET u == plan.units[row.unit] IN
         IF u.state = "completed" THEN "uncertain"
         ELSE IF u.state = "executing" \/ row.state = "executing" THEN "rolled_back"
         ELSE row.state

\* _mark_turn_failure for one row, with the plan of the committed turn row.
FailedRow(row, plan) ==
    IF row.state \in {"none", "verified", "skipped", "reverted"} THEN row.state
    ELSE IF row.unit \notin DOMAIN plan.units
         THEN IF row.state = "executing" THEN "uncertain" ELSE row.state
    ELSE LET u == plan.units[row.unit] IN
         IF u.state = "completed" THEN "uncertain"
         ELSE IF u.state = "executing" \/ row.state = "executing"
              THEN IF u.mode = "external" THEN "uncertain" ELSE "rolled_back"
         ELSE row.state

MarkTurnFailure(plan) == [s \in CallIds |-> [rows[s] EXCEPT !.state = FailedRow(rows[s], plan)]]

\* _all_turn_effects_rolled_back
AllRolledBack(journal) ==
    LET present == {s \in CallIds : journal[s].state # "none"} IN
    present # {} /\ \A s \in present : journal[s].state \in {"rolled_back", "skipped"}

-----------------------------------------------------------------------------
Idle == [pc |-> "idle", plan |-> NoPlan, source |-> NoPlan, human |-> FALSE, unit |-> 0,
         step |-> 0, snap |-> << >>, copy |-> << >>, calls |-> [c \in Capabilities |-> 0],
         seen |-> << >>]

Init ==
    /\ turn = [state |-> "running", barrier |-> FALSE, plan |-> NoPlan, human |-> FALSE,
               reversion |-> "none"]
    /\ used = {} /\ replans = 0
    /\ rows = [s \in CallIds |-> NoRow]
    /\ data = [r \in Records |-> "initial"]
    /\ durable = {}
    /\ job = [Idle EXCEPT !.pc = "reasoning"]
    /\ stop = FALSE
    /\ edits = 0 /\ crashes = 0
    /\ ran = << >> /\ granted = {}

Fixed == <<edits, crashes, ran, granted>>

\* _fail_claimed_turn after the rollback of the worker's transaction; the turn's
\* write hook classifies the journal once the write barrier is set.
EndFailed(state) ==
    /\ turn' = [turn EXCEPT !.state = state]
    /\ rows' = IF turn.barrier THEN MarkTurnFailure(turn.plan) ELSE rows
    /\ job' = Idle
    /\ UNCHANGED <<used, replans, data, durable, stop>>

Fail == EndFailed(IF turn.barrier THEN "recovery_required" ELSE "failed")

\* _ensure_turn_control_current raises; the worker closes the turn as cancelled.
Cancel == EndFailed("cancelled")

-----------------------------------------------------------------------------
(* Reasoning and preparation *)

\* _validate_call_ids
Fresh(ids) == ids \cap used = {}

\* The model ends the turn with an answer.
Answer ==
    /\ job.pc = "reasoning"
    /\ turn' = [turn EXCEPT !.state = "completed"]
    /\ job' = Idle
    /\ UNCHANGED <<used, replans, rows, data, durable, stop>> /\ UNCHANGED Fixed

\* A plan goes to the user unless it is automatic or stays within an approval.
Prepared(plan) ==
    IF job.source # NoPlan /\ ApprovalRefines(job.source, plan)
    THEN /\ job' = [job EXCEPT !.pc = "preflight", !.plan = [plan EXCEPT !.state = "authorized"],
                               !.unit = 1]
         /\ UNCHANGED turn
    ELSE IF plan.state = "awaiting_confirmation"
    THEN /\ turn' = [turn EXCEPT !.state = "awaiting", !.plan = plan, !.human = FALSE]
         /\ job' = Idle
    ELSE /\ job' = [job EXCEPT !.pc = "preflight", !.plan = plan, !.unit = 1, !.human = FALSE]
         /\ UNCHANGED turn

Calls == Capabilities \X SUBSET Records

\* The model proposes a complete plan and the host previews every step.
Propose ==
    /\ job.pc = "reasoning"
    /\ \E n \in 1..MaxSteps :
       \E ids \in {f \in [1..n -> CallIds] : \A i, j \in 1..n : f[i] = f[j] => i = j} :
       \E calls \in [1..n -> {x \in Calls : x[2] \in Targets(x[1])}] :
        LET steps == [i \in 1..n |-> Step(ids[i], calls[i][1], calls[i][2], data)] IN
        /\ Fresh({ids[i] : i \in 1..n})
        /\ \A i \in 1..n : \A r \in calls[i][2] : data[r] # "deleted"
        /\ used' = used \union {ids[i] : i \in 1..n}
        /\ Prepared(NewPlan(steps))
    /\ UNCHANGED <<replans, rows, data, durable, stop>> /\ UNCHANGED Fixed

\* The state a repair continues from: the model again, or finish_safely.
Repaired(source, calls) ==
    IF replans >= MaxReplans
    THEN /\ turn' = [turn EXCEPT !.state = "completed", !.barrier = FALSE, !.plan = NoPlan]
         /\ job' = Idle
    ELSE /\ turn' = [turn EXCEPT !.barrier = FALSE, !.plan = NoPlan]
         /\ job' = [Idle EXCEPT !.pc = "reasoning", !.source = source, !.human = job.human,
                                !.calls = calls]

\* A preview fails while a plan is prepared: the model may correct it.
PrepareFails ==
    /\ job.pc = "reasoning"
    /\ ~stop
    /\ ~turn.barrier
    /\ Repaired(job.source, job.calls)
    /\ replans' = replans + 1
    /\ UNCHANGED <<used, rows, data, durable, stop>> /\ UNCHANGED Fixed

Approve ==
    /\ turn.state = "awaiting"
    /\ turn' = [turn EXCEPT !.state = "queued", !.human = TRUE, !.plan.state = "authorized"]
    /\ granted' = granted \union
         UNION {{<<turn.plan.steps[i].cap, r>> : r \in turn.plan.steps[i].recs \union {"none"}}
                  : i \in DOMAIN turn.plan.steps}
    /\ UNCHANGED <<used, replans, rows, data, durable, job, stop, edits, crashes, ran>>

Reject ==
    /\ turn.state = "awaiting"
    /\ turn' = [turn EXCEPT !.state = "completed", !.plan.state = "rejected"]
    /\ UNCHANGED <<used, replans, rows, data, durable, job, stop>> /\ UNCHANGED Fixed

\* A worker claims the approved turn.
Resume ==
    /\ turn.state = "queued"
    /\ job.pc = "idle"
    /\ turn' = [turn EXCEPT !.state = "running"]
    /\ job' = IF turn.plan = NoPlan THEN [Idle EXCEPT !.pc = "reasoning"]
              ELSE [Idle EXCEPT !.pc = "preflight", !.plan = turn.plan, !.human = turn.human,
                                !.unit = 1]
    /\ UNCHANGED <<used, replans, rows, data, durable, stop>> /\ UNCHANGED Fixed

-----------------------------------------------------------------------------
(* Execution *)

Pending(plan, k) == {i \in StepsOf(plan, k) : plan.steps[i].state = "previewed"}

\* Steps of the unit that a terminal dependency already rules out are not previewed.
Checked(plan, k) ==
    {i \in Pending(plan, k) : \A j \in 1..(i - 1) :
        plan.unitOf[j] = k \/ plan.steps[j].state = "previewed" \/ Satisfies(plan.steps[j])}

\* As if the preview of the unit were not compared with the approved one.
PreflightHoldsAlways(plan, k) == TRUE

\* _preflight_unit: the previews are those the plan was approved with.
PreflightHolds(plan, k) ==
    \A i \in Checked(plan, k) : Fingerprint(data, plan.steps[i].recs) = plan.steps[i].before

\* _validate_execution_call_budget counts the steps of the plan only.
WithinCallBudget(plan) ==
    \A c \in Capabilities :
        Cardinality({i \in DOMAIN plan.steps : plan.steps[i].cap = c}) <= MaxCalls(c)

\* A preflight failure is repaired only before the write barrier.
PreflightFails ==
    /\ job.pc = "preflight"
    /\ WithinCallBudget(job.plan)
    /\ ~PreflightHolds(job.plan, job.unit)
    /\ IF turn.barrier THEN Fail
       ELSE IF stop THEN Cancel
       ELSE /\ Repaired(job.plan, job.calls)
            /\ replans' = replans + 1
            /\ UNCHANGED <<used, rows, data, durable, stop>>
    /\ UNCHANGED Fixed

Preflight ==
    /\ job.pc = "preflight"
    /\ WithinCallBudget(job.plan)
    /\ PreflightHolds(job.plan, job.unit)
    /\ job' = [job EXCEPT !.pc = "before_unit", !.plan.units[job.unit].state = "executing",
                          !.plan.state = "executing", !.seen = data]
    /\ UNCHANGED <<turn, used, replans, rows, data, durable, stop>> /\ UNCHANGED Fixed

OverBudget ==
    /\ job.pc = "preflight"
    /\ ~WithinCallBudget(job.plan)
    /\ Fail
    /\ UNCHANGED Fixed

\* recovery_checkpoint("before_unit"): the control check, the journal's intent and
\* the write barrier in one commit; the next statement opens a new snapshot.
BeforeUnit ==
    /\ job.pc = "before_unit"
    /\ IF stop THEN Cancel
       ELSE IF SyncRefused(job.plan) THEN Fail
       ELSE IF Collides(job.plan)
       THEN /\ job' = [job EXCEPT !.pc = "integrity_error"]
            /\ UNCHANGED <<turn, used, replans, rows, data, durable, stop>>
       ELSE /\ rows' = SyncPlan(job.plan)
            /\ turn' = [turn EXCEPT !.barrier = TRUE, !.plan = job.plan, !.human = job.human]
            /\ job' = [job EXCEPT !.pc = "running", !.snap = data, !.copy = data,
                            !.step = Min(StepsOf(job.plan, job.unit))]
            /\ UNCHANGED <<used, replans, data, durable, stop>>
    /\ UNCHANGED Fixed

Current == job.plan.steps[job.step]

\* A record another transaction committed since the snapshot cannot be written.
Conflicts(recs) == \E r \in recs : data[r] # job.snap[r]

\* What a successful handler does to the records.
Applied(s, kept) ==
    [r \in Records |-> IF r \notin s.recs \ kept THEN job.copy[r]
                       ELSE IF s.cap = "patch" THEN s.id ELSE "deleted"]

NextStep(plan, copy, calls) ==
    job' = [job EXCEPT !.plan = plan, !.copy = copy, !.calls = calls,
                       !.step = job.step + 1,
                       !.pc = IF job.step + 1 \in StepsOf(plan, job.unit) THEN "running"
                              ELSE "unit_done"]

\* _dependency_skip_evidence
SkipStep ==
    /\ job.pc = "running"
    /\ ~DependencyMet(job.plan, job.step)
    /\ NextStep([job.plan EXCEPT !.steps[job.step].state = "skipped",
                                 !.steps[job.step].outcome = "skipped"], job.copy, job.calls)
    /\ UNCHANGED <<turn, used, replans, rows, data, durable, stop>> /\ UNCHANGED Fixed

Counted == [job.calls EXCEPT ![Current.cap] = @ + 1]

\* The executor's limit counts the calls of this executor, rolled back ones too.
LimitReached == job.calls[Current.cap] >= MaxCalls(Current.cap)

Ran(s) == Append(ran, [id |-> s.id, cap |-> s.cap, recs |-> s.recs, human |-> job.human,
                       fresh |-> job.seen,
                       before |-> s.before,
                       dep |-> IF job.step = 1 THEN "none"
                               ELSE job.plan.steps[job.step - 1].outcome])

\* execute and verify succeed; a continue_on_error batch may keep some records.
RunStep ==
    LET s == Current IN
    /\ job.pc = "running"
    /\ DependencyMet(job.plan, job.step)
    /\ ~LimitReached
    /\ ~Conflicts(s.recs)
    /\ \A r \in s.recs : job.copy[r] # "deleted"
    /\ \E kept \in IF ContinueOnError(s.cap) THEN SUBSET s.recs ELSE {{}} :
        NextStep([job.plan EXCEPT !.steps[job.step].state = "completed",
                                  !.steps[job.step].outcome =
                                     IF kept = {} THEN "complete"
                                     ELSE IF kept = s.recs THEN "blocked" ELSE "partial"],
                 Applied(s, kept), Counted)
    /\ durable' = IF Mode(s.cap) = "odoo_atomic" THEN durable ELSE durable \union {s.id}
    /\ ran' = Ran(s)
    /\ UNCHANGED <<turn, used, replans, rows, data, stop, edits, crashes, granted>>

\* The handler, its verification or the executor's limit fails.  Only a plan that
\* is one Odoo-local unit is given back to the model, and only if the journal
\* shows that nothing remained.
StepFails ==
    LET s == Current IN
    /\ job.pc = "running"
    /\ DependencyMet(job.plan, job.step)
    /\ \E happened \in IF LimitReached \/ Mode(s.cap) = "odoo_atomic" THEN {FALSE} ELSE BOOLEAN :
        /\ durable' = IF happened THEN durable \union {s.id} ELSE durable
        /\ ran' = IF LimitReached THEN ran ELSE Ran(s)
    /\ LET journal == MarkTurnFailure(turn.plan)
           repairable == /\ Len(job.plan.units) = 1
                         /\ job.plan.units[1].mode = "odoo_atomic"
       IN IF ~repairable \/ (~stop /\ ~AllRolledBack(journal))
          THEN /\ turn' = [turn EXCEPT !.state = "recovery_required"]
               /\ rows' = journal /\ job' = Idle
               /\ UNCHANGED replans
          ELSE IF stop
          THEN /\ turn' = [turn EXCEPT !.state = "cancelled"]
               /\ rows' = journal /\ job' = Idle
               /\ UNCHANGED replans
          ELSE /\ Repaired(job.plan, IF LimitReached THEN job.calls ELSE Counted)
               /\ rows' = journal
               /\ replans' = replans + 1
    /\ UNCHANGED <<used, data, stop, edits, crashes, granted>>

CompletedIds ==
    {job.plan.steps[i].id : i \in {j \in DOMAIN job.plan.steps : job.plan.steps[j].state = "completed"}}

\* recovery_checkpoint("after_unit"): effects, journal and plan in one commit.
AfterUnit ==
    /\ job.pc = "unit_done"
    /\ job.unit < Len(job.plan.units)
    /\ LET plan == [job.plan EXCEPT !.units[job.unit].state = "completed"] IN
        /\ rows' = SyncPlan(plan)
        /\ turn' = [turn EXCEPT !.plan = plan]
        /\ data' = [r \in Records |-> IF job.copy[r] # job.snap[r] THEN job.copy[r] ELSE data[r]]
        /\ job' = [job EXCEPT !.pc = "preflight", !.plan = plan, !.unit = job.unit + 1]
    /\ durable' = durable \union CompletedIds
    /\ UNCHANGED <<used, replans, stop>> /\ UNCHANGED Fixed

\* plan_is_compensatable and _plan_reversion_state
ReversionState(plan) ==
    IF \A i \in DOMAIN plan.steps : Compensable(plan.steps[i].cap) THEN "available" ELSE "unavailable"

\* The last unit commits with the completed plan, its receipt and the answer.
FinishPlan ==
    /\ job.pc = "unit_done"
    /\ job.unit = Len(job.plan.units)
    /\ LET plan == [job.plan EXCEPT !.units[job.unit].state = "completed", !.state = "completed"] IN
        /\ rows' = SyncPlan(plan)
        /\ turn' = [turn EXCEPT !.plan = plan, !.state = "completed",
                                !.reversion = ReversionState(plan)]
        /\ data' = [r \in Records |-> IF job.copy[r] # job.snap[r] THEN job.copy[r] ELSE data[r]]
    /\ durable' = durable \union CompletedIds
    /\ job' = Idle
    /\ UNCHANGED <<used, replans, stop>> /\ UNCHANGED Fixed

\* The worker dies: its transaction is lost, files and remote effects are not.
Crash ==
    /\ job.pc # "idle"
    /\ crashes < MaxCrashes
    /\ crashes' = crashes + 1
    /\ \E late \in {durable} \union
            (IF job.pc = "running" /\ DependencyMet(job.plan, job.step) /\ ~LimitReached
                /\ Mode(Current.cap) # "odoo_atomic"
             THEN {durable \union {Current.id}} ELSE {}) : durable' = late
    /\ job' = Idle
    /\ UNCHANGED <<turn, used, replans, rows, data, stop, edits, ran, granted>>

\* _recover_stale_turns: behind the write barrier nothing is tried again.
Recover ==
    /\ turn.state = "running"
    /\ job.pc = "idle"
    /\ IF turn.barrier THEN Fail
       ELSE /\ turn' = [turn EXCEPT !.state = "queued"]
            /\ UNCHANGED <<used, replans, rows, data, durable, job, stop>>
    /\ UNCHANGED Fixed

-----------------------------------------------------------------------------
(* Other users, stop and reversion *)

\* A row the open transaction wrote is locked until it ends.
Locked(r) == job.pc \in {"running", "unit_done"} /\ job.copy[r] # job.snap[r]

EditRecord(r) ==
    /\ edits < MaxEdits
    /\ ~Locked(r)
    /\ data[r] # "deleted"
    /\ data' = [data EXCEPT ![r] = "edited"]
    /\ edits' = edits + 1
    /\ UNCHANGED <<turn, used, replans, rows, durable, job, stop, crashes, ran, granted>>

RequestStop ==
    /\ ~stop
    /\ turn.state = "running"
    /\ stop' = TRUE
    /\ UNCHANGED <<turn, used, replans, rows, data, durable, job>> /\ UNCHANGED Fixed

\* revert_patch_record: the record still has the value the step wrote.
MayRestore(d, s) == \A r \in s.recs : d[r] = s.id

\* As if a compensator that refuses were passed over.
CompensatedRest(plan) ==
    LET n == Len(plan.steps)
        after[k \in 0..n] ==
            IF k = 0 THEN data
            ELSE LET s == plan.steps[n + 1 - k] d == after[k - 1] IN
                 IF MayRestore(d, s)
                 THEN [r \in Records |-> IF r \in s.recs THEN s.before[r] ELSE d[r]]
                 ELSE d
    IN [ok |-> TRUE, data |-> after[n]]

\* CapabilityCompensationService.compensate: last step first, all or nothing.
Compensated(plan) ==
    LET n == Len(plan.steps)
        after[k \in 0..n] ==
            IF k = 0 THEN [ok |-> TRUE, data |-> data]
            ELSE LET s == plan.steps[n + 1 - k] d == after[k - 1].data IN
                 IF after[k - 1].ok /\ MayRestore(d, s)
                 THEN [ok |-> TRUE,
                       data |-> [r \in Records |-> IF r \in s.recs THEN s.before[r] ELSE d[r]]]
                 ELSE [ok |-> FALSE, data |-> data]
    IN after[n]

\* _mark_reverted
MarkReverted ==
    [s \in CallIds |->
        IF rows[s].state = "verified" /\ Classification(rows[s].cap) = "reversible"
        THEN [rows[s] EXCEPT !.state = "reverted"] ELSE rows[s]]

Revert ==
    /\ turn.state = "completed"
    /\ turn.barrier
    /\ turn.reversion = "available"
    /\ Compensated(turn.plan).ok
    /\ data' = Compensated(turn.plan).data
    /\ turn' = [turn EXCEPT !.reversion = "completed"]
    /\ rows' = MarkReverted
    /\ UNCHANGED <<used, replans, durable, job, stop>> /\ UNCHANGED Fixed

\* _cron_cleanup_effect_journal, a week after the last write of a row.
CleanupJournal ==
    /\ turn.state \notin {"running", "queued"}
    /\ \E s \in CallIds : rows[s] # NoRow
    /\ rows' = [s \in CallIds |-> NoRow]
    /\ UNCHANGED <<turn, used, replans, data, durable, job, stop>> /\ UNCHANGED Fixed

-----------------------------------------------------------------------------
Next ==
    \/ Answer \/ Propose \/ PrepareFails \/ Approve \/ Reject \/ Resume
    \/ Preflight \/ PreflightFails \/ OverBudget \/ BeforeUnit \/ SkipStep \/ RunStep \/ StepFails
    \/ AfterUnit \/ FinishPlan \/ Crash \/ Recover
    \/ \E r \in Records : EditRecord(r)
    \/ RequestStop \/ Revert \/ CleanupJournal

Spec == Init /\ [][Next]_vars

-----------------------------------------------------------------------------
(* Properties *)

Terminal == {"completed", "failed", "cancelled", "recovery_required"}

\* Consecutive Odoo-local steps become durable together or not at all.
AtomicTogether ==
    \A i \in DOMAIN turn.plan.steps :
        LET s == turn.plan.steps[i] t == turn.plan.steps[i + 1] IN
        /\ i + 1 \in DOMAIN turn.plan.steps
        /\ Mode(s.cap) = "odoo_atomic" /\ Mode(t.cap) = "odoo_atomic"
        /\ "skipped" \notin {s.state, t.state}
        => (s.id \in durable <=> t.id \in durable)

\* The journal tells the truth after any failure, crash, stop or repair: a verified
\* step's effect is durable, a rolled back, prepared or skipped step left none, and
\* a finished turn has no row in flight.  Consecutive Odoo-local steps share their
\* fate, and a repaired plan never meets the unique (turn, step) index through a
\* row that an earlier, rolled back plan left behind.
JournalTruth ==
    /\ \A s \in CallIds :
        /\ rows[s].state \in {"verified", "reverted"} => s \in durable
        /\ rows[s].state \in {"prepared", "skipped", "rolled_back"} => s \notin durable
        /\ turn.state \in Terminal => rows[s].state # "executing"
    /\ AtomicTogether
    /\ job.pc # "integrity_error"

\* Whatever repairs happened in between, a step that needs approval runs only over
\* records a person approved for that operation, and no step runs after a step
\* that was only partly done, blocked or skipped.
ApprovedScope ==
    \A k \in DOMAIN ran :
        /\ ran[k].dep \in {"none", "complete"}
        /\ NeedsApproval(ran[k].cap) =>
            /\ ran[k].human
            /\ {<<ran[k].cap, r>> : r \in ran[k].recs \union {"none"}} \subseteq granted

\* An edit of another user that was there when the unit was checked, and that the
\* approved preview did not show, is overwritten neither by the plan nor by a reversion.
ForeignEditKept ==
    [][\A r \in Records : data[r] = "edited" /\ data'[r] # "edited" =>
        \/ job.pc = "unit_done" /\ job.seen[r] # "edited"
        \/ \E i \in DOMAIN turn.plan.steps :
            /\ r \in turn.plan.steps[i].recs
            /\ turn.plan.steps[i].before[r] = "edited"]_vars

\* A reversion that is reported as completed undid every step of the plan: each
\* record has the value it had before the first step that wrote it.
ReversionIsWhole ==
    [][turn'.reversion = "completed" /\ turn.reversion # "completed" =>
        \A i \in DOMAIN turn.plan.steps : \A r \in turn.plan.steps[i].recs :
            (\A j \in 1..(i - 1) : r \notin turn.plan.steps[j].recs) =>
                data'[r] = turn.plan.steps[i].before[r]]_vars

=============================================================================
