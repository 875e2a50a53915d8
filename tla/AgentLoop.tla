------------------------------ MODULE AgentLoop ------------------------------
(***************************************************************************)
(* The bounded host loop of one agent turn (runtime/agent/service.py) over *)
(* the durable working transcript (runtime/agent/working_transcript.py),   *)
(* with the TaskPlan guardrails (planning.py), the decision validation     *)
(* (decision_validation.py), the post-effect boundary (post_effect.py) and *)
(* the host around it, which prepares, executes or refuses the plan the    *)
(* loop returns (embedded_runtime_host_loop.py, effect_recovery_runtime).  *)
(*                                                                         *)
(* The transcript is the only state a worker restart keeps: every budget   *)
(* is held in memory while the loop runs and is computed again from the    *)
(* transcript when it resumes.  A worker may die between any two commits.  *)
(***************************************************************************)
EXTENDS Naturals, Sequences, FiniteSets, FiniteSetsExt

CONSTANTS
    CallIds,             \* the call ids a provider may use
    Capabilities,        \* the REASONING capabilities of the catalog
    DecisionLimit,       \* AgentBudgetSet.provider_decision_limit
    MaxCapabilityCalls,  \* ExplorationBudget.max_capability_calls
    MaxFailures,         \* SafetyBudget.max_consecutive_failures
    MaxEffectSteps,      \* SafetyBudget.max_effect_steps
    MaxCalls,            \* CapabilityDefinition.max_calls, of every capability
    MaxReplans,          \* policy max_replans
    Deliberate,          \* TRUE: the strategy requires a TaskPlan
    Shapes,              \* structures (goal, titles, dependencies) of a TaskPlan
    Proposals,           \* TRUE: the provider may propose plan steps
    MaxCrashes           \* bound: deaths of the worker

\* resolve_agent_budgets: the limits lie in their ranges or the run is refused.
AgentBudgets ==
    /\ {DecisionLimit, MaxCapabilityCalls} \subseteq 1..32
    /\ MaxFailures \in 1..8
    /\ MaxEffectSteps \in 0..5

ASSUME LoopAssumption ==
    /\ AgentBudgets
    /\ MaxCalls \in Nat \ {0} /\ {MaxReplans, MaxCrashes} \subseteq Nat
    /\ {Deliberate, Proposals} \subseteq BOOLEAN

VARIABLES
    items,     \* working_items_payload, the committed transcript
    loop,      \* what the worker holds in memory
    result,    \* the AgentTurnResult or error the last run of the loop gave
    host,      \* what the host around the loop does with the result
    cancel,    \* a cancellation was requested
    crashes,   \* deaths of the worker so far
    executed,  \* ghost: how often each call id was really executed
    accepted,  \* ghost: the proposals accepted since the last refused plan
    delivered  \* ghost: the result of this attempt that was given first

vars == <<items, loop, result, host, cancel, crashes, executed, accepted, delivered>>

None == "none"

\* The terminal codes of _TERMINAL_CALL_ERRORS are one value, every other one
\* is "correctable"; a decision the validation refuses is "rejected".
Item(kind, id, what) == [kind |-> kind, id |-> id, what |-> what]

NoResult == [answer |-> None, plan |-> <<>>]

Idle == [pc |-> "down", decisions |-> 0, calls |-> 0, failures |-> 0,
         terminal |-> FALSE, id |-> None, what |-> None]

Init ==
    /\ items = <<>>
    /\ loop = Idle
    /\ result = NoResult
    /\ host = "reasoning"
    /\ cancel = FALSE
    /\ crashes = 0
    /\ executed = [c \in CallIds |-> 0]
    /\ accepted = <<>>
    /\ delivered = NoResult

----------------------------------------------------------------------------
(* The transcript.                                                          *)

\* The items of these kinds, by their indices.
Of(s, kinds) == {i \in DOMAIN s : s[i].kind \in kinds}

\* The items at the indices in I, in their order.
ItemsAt(s, I) ==
    LET f[n \in 0..Len(s)] ==
            IF n = 0 THEN <<>> ELSE IF n \in I THEN Append(f[n - 1], s[n]) ELSE f[n - 1]
    IN  f[Len(s)]

\* The items after the latest refused plan.
ActivePlanEpoch(s) == {i \in DOMAIN s : \A j \in i..Len(s) : s[j].kind # "plan_execution_error"}

\* As if a call id were only looked up in the current attempt.
CallStateInEpoch(s, c) ==
    IF \E i \in ActivePlanEpoch(s) : s[i].id = c THEN "completed" ELSE None

\* A call id is pending until an error, a result or an accepted proposal.
CallState(s, c) ==
    LET mine == {s[i].kind : i \in {j \in DOMAIN s : s[j].id = c}}
    IN  IF mine = {} THEN None
        ELSE IF mine \cap {"capability_result", "capability_error"} # {} THEN "completed"
        ELSE IF "plan_step_proposed" \in mine THEN "proposed"
        ELSE "pending"

PendingDecisions(s) ==
    ItemsAt(s, {i \in Of(s, {"assistant_decision"}) : CallState(s, s[i].id) = "pending"})

ProviderDecisionsUsed(s) ==
    Cardinality(ActivePlanEpoch(s) \cap
        Of(s, {"assistant_decision", "task_plan", "task_plan_error", "final_answer"}))

CallsOf(s, capabilities) ==
    {i \in ActivePlanEpoch(s) : s[i].kind = "assistant_decision" /\ s[i].what \in capabilities}

CapabilityCallsUsed(s) == Cardinality(CallsOf(s, Capabilities))

DefinitionCallCount(s, capability) == Cardinality(CallsOf(s, {capability}))

\* The errors after the last item that is neither an error nor a decision in
\* progress; a capability_result on the way back answers 0, the errors after it
\* included.
TrailingFailureCount(s) ==
    LET errors == {"capability_error", "task_plan_error"}
        skipped == {"assistant_decision", "capability_call", "plan_step_proposed", "task_plan"}
        stops == ActivePlanEpoch(s) \ Of(s, skipped \cup errors)
        last == Max(stops \cup {0})
    IN  IF last > 0 /\ s[last].kind = "capability_result" THEN 0
        ELSE Cardinality({i \in ActivePlanEpoch(s) : i > last /\ s[i].kind \in errors})

TerminalErrorPending(s) ==
    LET outcomes == ActivePlanEpoch(s) \cap Of(s, {"capability_result", "capability_error"})
        last == s[Max(outcomes)]
    IN  outcomes # {} /\ last.kind = "capability_error" /\ last.what = "terminal"

\* The steps of the current attempt; each depends on the one before it.
ProposedPlan(s) ==
    LET proposed == ItemsAt(s, ActivePlanEpoch(s) \cap Of(s, {"plan_step_proposed"}))
    IN  [i \in DOMAIN proposed |-> proposed[i].id]

\* Before the receipt of a verified effect the loop may propose plan steps;
\* after it the host runs the loop with allow_plan_proposals = False.
PostEffect(s) == Of(s, {"verified_effect_receipt"}) # {}

ResultPlan(s) == IF PostEffect(s) THEN <<>> ELSE ProposedPlan(s)

----------------------------------------------------------------------------
(* The TaskPlan.                                                            *)

TaskPlans(s) == Of(s, {"task_plan"})

LatestTaskPlan(s) == s[Max(TaskPlans(s))].what

Evidence == {"capability_result", "capability_error", "plan_execution_error",
             "verified_effect_receipt"}

\* As if evidence older than the plan it is meant to change counted.
HasReplanEvidenceEver(s) == Of(s, Evidence) # {}

HasReplanEvidence(s) == \E i \in Of(s, Evidence) : TaskPlans(s) \cap i..Len(s) = {}

\* A rejected cosmetic progress revision is not followed by another revision.
TaskPlanRetryBlocked(s) ==
    s[Len(s)].kind = "task_plan_error" /\ s[Len(s)].what = "progress_required"

TaskPlanAvailable(s) ==
    IF TaskPlans(s) = {} THEN Deliberate ELSE ~ TaskPlanRetryBlocked(s)

\* The revisions a provider may send: the host only reads the number, the kind,
\* whether the structure changed and whether any step state changed.
RevisionKinds == {"initial", "progress", "replan"}

TaskPlanOffers(s) ==
    [revision : {1, Cardinality(TaskPlans(s)) + 1}, kind : RevisionKinds,
     shape : Shapes, moved : BOOLEAN]

\* The verdict of parse_task_plan and PlanningDecisionEngine on a revision: the
\* first check that fails.
TaskPlanVerdict(s, p) ==
    LET known == TaskPlans(s) # {} IN
    IF (p.revision = 1) # (p.kind = "initial") THEN "revision_invalid"
    ELSE IF ~ TaskPlanAvailable(s) THEN "not_useful"
    ELSE IF known /\ p.kind = "initial" THEN "revision_invalid"
    ELSE IF p.kind = "progress" /\ p.shape # LatestTaskPlan(s).shape THEN "replan_required"
    ELSE IF p.kind = "progress" /\ ~ p.moved THEN "progress_required"
    ELSE IF p.kind = "replan" /\ ~ HasReplanEvidence(s) THEN "without_evidence"
    ELSE "ok"

----------------------------------------------------------------------------
(* Ends of a run.                                                           *)

Give(r) ==
    /\ result' = r
    /\ delivered' = IF delivered = NoResult /\ r.answer # "error" THEN r ELSE delivered
    /\ loop' = [Idle EXCEPT !.pc = "done"]

Unanswered == UNCHANGED <<result, delivered>>

Record(s) == items' = items \o s

Answered(discard) == Item("final_answer", None, IF discard THEN "discard" ELSE "answer")

\* finish_safely: the host's own answer; it never carries a plan.
FinishSafely(before) ==
    /\ Record(before \o <<Answered(TRUE)>>)
    /\ Give([answer |-> "fallback", plan |-> <<>>])

\* An AgentTurnError: the turn fails.
Fail(before) ==
    /\ Record(before)
    /\ Give([answer |-> "error", plan |-> <<>>])

Ghosts == <<executed, accepted>>

----------------------------------------------------------------------------
(* The loop.                                                                *)

\* As if the mark that discards the plan were not read again.
ResumeTerminalPlan(s) == [answer |-> "answer", plan |-> ResultPlan(s)]

ResumeTerminal(s) ==
    LET last == s[Len(s)] IN
    IF last.what = "discard" THEN [answer |-> "fallback", plan |-> <<>>]
                             ELSE [answer |-> "answer", plan |-> ResultPlan(s)]

\* run: the user input is recorded once, an answered transcript is answered
\* again, calls a dead worker left pending are closed and the budgets are
\* computed from the transcript.
Start ==
    /\ loop.pc = "down" /\ host = "reasoning"
    /\ LET began == IF items = <<>> THEN <<Item("user_input", None, None)>> ELSE items
           pending == PendingDecisions(began)
           closed == [i \in DOMAIN pending |->
                         Item("capability_error", pending[i].id, "interrupted")]
           now == began \o closed
       IN  IF began[Len(began)].kind = "final_answer"
           THEN /\ Give(ResumeTerminal(began))
                /\ items' = began
           ELSE /\ items' = now
                /\ loop' = [Idle EXCEPT !.pc = "loop",
                                        !.decisions = ProviderDecisionsUsed(now),
                                        !.calls = CapabilityCallsUsed(now),
                                        !.failures = TrailingFailureCount(now),
                                        !.terminal = TerminalErrorPending(now)]
                /\ Unanswered
    /\ UNCHANGED <<host, cancel, crashes, Ghosts>>

\* The guard of every provider call: the budget is left and nobody cancelled.
MayAsk == loop.pc = "loop" /\ loop.decisions < DecisionLimit /\ ~ cancel

\* The while loop ends: the decisions are used up.
OutOfDecisions ==
    /\ loop.pc = "loop" /\ loop.decisions >= DecisionLimit
    /\ FinishSafely(<<>>)
    /\ UNCHANGED <<host, cancel, crashes, Ghosts>>

\* The provider fails, answers what cannot be parsed, or the loop sees the
\* cancellation before it asks.  A provider that fails behind a verified effect
\* is answered for by the host.
ProviderFails ==
    /\ loop.pc = "loop" /\ loop.decisions < DecisionLimit
    /\ \/ Fail(<<>>)
       \/ PostEffect(items) /\ FinishSafely(<<>>)
    /\ UNCHANGED <<host, cancel, crashes, Ghosts>>

\* One more failure, with the item that records it.  The streak may reach
\* MaxFailures; the failure after it ends the run.
AfterFailure(before, counted) ==
    IF counted.failures + 1 > MaxFailures
    THEN FinishSafely(before)
    ELSE /\ Record(before)
         /\ loop' = [counted EXCEPT !.pc = "loop", !.failures = @ + 1]
         /\ Unanswered

FinalAnswer ==
    /\ MayAsk
    /\ Record(<<Answered(FALSE)>>)
    /\ Give([answer |-> "answer", plan |-> ResultPlan(items)])
    /\ UNCHANGED <<host, cancel, crashes, Ghosts>>

\* After a terminal error only a final answer is accepted.
TerminalPending == loop.terminal

\* A TaskPlan revision never touches the failure streak or a terminal error.
TaskPlanUpdate ==
    /\ MayAsk
    /\ \E p \in TaskPlanOffers(items) :
          LET verdict == TaskPlanVerdict(items, p)
              asked == [loop EXCEPT !.decisions = @ + 1]
          IN  IF verdict # "ok"
              THEN AfterFailure(<<Item("task_plan_error", None, verdict)>>, asked)
              ELSE IF TerminalPending
              THEN FinishSafely(<<>>)
              ELSE /\ Record(<<Item("task_plan", None, p)>>)
                   /\ loop' = asked
                   /\ Unanswered
    /\ UNCHANGED <<host, cancel, crashes, Ghosts>>

\* A Deliberate turn does no work before its first TaskPlan.
PlanRequired == Deliberate /\ TaskPlans(items) = {}

\* The decision of a call or a proposal, as the validation saw it: its name is
\* in the catalog and its arguments fit, or it is rejected.
Refused(what) ==
    \/ PlanRequired
    \/ what = "proposal" /\ (PostEffect(items) \/ ~ Proposals)

\* A decision that the host rejects is recorded with its error; a rejected
\* reasoning call counts against the calls.  Its id must be fresh.
RejectDecision(what) ==
    /\ MayAsk
    /\ what \in Capabilities \cup {"proposal"}
    /\ \E c \in CallIds :
          LET asked == [loop EXCEPT !.decisions = @ + 1,
                            !.calls = IF what \in Capabilities THEN @ + 1 ELSE @]
          IN  IF asked.calls > MaxCapabilityCalls
              THEN FinishSafely(<<>>)
              ELSE IF CallState(items, c) # None
              THEN Fail(<<>>)
              ELSE /\ Record(<<Item("assistant_decision", c, what)>>)
                   /\ loop' = [asked EXCEPT !.pc = "rejecting", !.id = c]
                   /\ Unanswered
    /\ UNCHANGED <<host, cancel, crashes, Ghosts>>

\* The second commit of _record_rejected_decision.
RecordRejection ==
    /\ loop.pc = "rejecting"
    /\ AfterFailure(<<Item("capability_error", loop.id, "rejected")>>, loop)
    /\ UNCHANGED <<host, cancel, crashes, Ghosts>>

\* An accepted reasoning call: over the budget it ends the run, over the limit
\* of its definition it is a failure, otherwise its decision is committed.
DecideCall(cap) ==
    /\ MayAsk /\ ~ Refused(cap)
    /\ \E c \in CallIds :
          LET asked == [loop EXCEPT !.decisions = @ + 1, !.calls = @ + 1]
              limited == DefinitionCallCount(items, cap) >= MaxCalls
          IN  IF TerminalPending \/ asked.calls > MaxCapabilityCalls
              THEN FinishSafely(<<>>)
              ELSE IF CallState(items, c) # None
              THEN Fail(<<>>)
              ELSE /\ Record(<<Item("assistant_decision", c, cap)>>)
                   /\ loop' = [asked EXCEPT !.pc = IF limited THEN "limited" ELSE "decided",
                                            !.id = c, !.what = cap]
                   /\ Unanswered
    /\ UNCHANGED <<host, cancel, crashes, Ghosts>>

RecordCallLimit ==
    /\ loop.pc = "limited"
    /\ AfterFailure(<<Item("capability_error", loop.id, "call_limit")>>, loop)
    /\ UNCHANGED <<host, cancel, crashes, Ghosts>>

\* The call is committed before it is executed ...
RecordCall ==
    /\ loop.pc = "decided"
    /\ Record(<<Item("capability_call", loop.id, loop.what)>>)
    /\ loop' = [loop EXCEPT !.pc = "called"]
    /\ UNCHANGED <<result, delivered, host, cancel, crashes, Ghosts>>

\* ... unless a cancellation arrived in between.
CancelledCall ==
    /\ loop.pc = "called" /\ cancel
    /\ Fail(<<>>)
    /\ UNCHANGED <<host, cancel, crashes, Ghosts>>

\* _execute_reasoning, in a savepoint.
Execute ==
    /\ loop.pc = "called" /\ ~ cancel
    /\ executed' = [executed EXCEPT ![loop.id] = @ + 1]
    /\ loop' = [loop EXCEPT !.pc = "ran"]
    /\ UNCHANGED <<items, result, delivered, host, cancel, crashes, accepted>>

\* The outcome is committed: a result clears the streak, a terminal error
\* latches, a result too large for the transcript and any other error fail.
RecordOutcome ==
    /\ loop.pc = "ran"
    /\ \/ /\ Record(<<Item("capability_result", loop.id, None)>>)
          /\ loop' = [loop EXCEPT !.pc = "loop", !.failures = 0, !.terminal = FALSE]
          /\ Unanswered
       \/ /\ Record(<<Item("capability_error", loop.id, "terminal")>>)
          /\ loop' = [loop EXCEPT !.pc = "loop", !.failures = 0, !.terminal = TRUE]
          /\ Unanswered
       \/ \E code \in {"correctable", "too_large"} :
             AfterFailure(<<Item("capability_error", loop.id, code)>>, loop)
    /\ UNCHANGED <<host, cancel, crashes, Ghosts>>

\* An accepted plan proposal: its decision is committed first; a proposal with
\* a used id does not fit the transcript.
DecideProposal ==
    /\ MayAsk /\ ~ Refused("proposal")
    /\ \E c \in CallIds :
          IF TerminalPending
          THEN FinishSafely(<<>>)
          ELSE IF CallState(items, c) # None
          THEN Fail(<<>>)
          ELSE /\ Record(<<Item("assistant_decision", c, "proposal")>>)
               /\ loop' = [loop EXCEPT !.pc = "proposing", !.id = c,
                                       !.decisions = @ + 1]
               /\ Unanswered
    /\ UNCHANGED <<host, cancel, crashes, Ghosts>>

\* The proposal joins the plan, unless proposals are not enabled (a second guard
\* behind Refused) or the plan is full: then the turn fails.  A host that allows
\* one step only returns at once, with no final answer recorded.
RecordProposal ==
    /\ loop.pc = "proposing"
    /\ IF PostEffect(items)
       THEN /\ Fail(<<Item("capability_error", loop.id, "not_enabled")>>)
            /\ UNCHANGED accepted
       ELSE IF Len(ProposedPlan(items)) >= MaxEffectSteps
       THEN /\ Fail(<<Item("capability_error", loop.id, "plan_limit")>>)
            /\ UNCHANGED accepted
       ELSE LET now == items \o <<Item("plan_step_proposed", loop.id, None)>> IN
            /\ items' = now
            /\ accepted' = Append(accepted, loop.id)
            /\ IF MaxEffectSteps = 1
               THEN Give([answer |-> "answer", plan |-> ProposedPlan(now)])
               ELSE /\ loop' = [loop EXCEPT !.pc = "loop", !.failures = 0,
                                            !.terminal = FALSE]
                    /\ Unanswered
    /\ UNCHANGED <<host, cancel, crashes, executed>>

\* The transcript is full, the lease is lost or the commit fails.
Abort ==
    /\ loop.pc \in {"rejecting", "limited", "decided", "called", "ran", "proposing"}
    /\ Fail(<<>>)
    /\ UNCHANGED <<host, cancel, crashes, Ghosts>>

----------------------------------------------------------------------------
(* The host around the loop.                                                *)

ReplansLeft(s) == Cardinality(Of(s, {"plan_execution_error"})) <= MaxReplans

\* The host takes the result of the run; an answer without a plan ends the turn.
TakeResult ==
    /\ loop.pc = "done" /\ host = "reasoning"
    /\ host' = IF result.plan = <<>> THEN "ended" ELSE "planning"
    /\ UNCHANGED <<items, loop, result, delivered, cancel, crashes, Ghosts>>

\* The plan cannot be prepared, or its execution failed and is proven to have
\* left no effect: the refusal is committed and the loop runs again, or the
\* replans are used up.
RefusePlan ==
    /\ host \in {"planning", "executing"}
    /\ items' = Append(items, Item("plan_execution_error", None, None))
    /\ host' = IF ReplansLeft(items') THEN "reasoning" ELSE "giving_up"
    /\ loop' = Idle
    /\ result' = NoResult
    /\ accepted' = <<>>
    /\ delivered' = NoResult
    /\ UNCHANGED <<cancel, crashes, executed>>

\* finish_safely after the last replan.
GiveUp ==
    /\ host = "giving_up"
    /\ FinishSafely(<<>>)
    /\ host' = "ended"
    /\ UNCHANGED <<cancel, crashes, Ghosts>>

\* The plan is prepared, authorised, and the write barrier is committed with it.
PrepareOk ==
    /\ host = "planning"
    /\ items' = Append(items, Item("plan_prepared", None, result.plan))
    /\ host' = "executing"
    /\ UNCHANGED <<loop, result, delivered, cancel, crashes, Ghosts>>

\* Every step was executed and verified: the receipt joins the transcript and
\* the loop runs again, unless the outcome is incomplete and the host answers.
EffectVerified ==
    /\ host = "executing"
    /\ \E incomplete \in BOOLEAN :
          LET receipt == Item("verified_effect_receipt", None, None) IN
          IF incomplete
          THEN /\ items' = items \o <<receipt, Answered(FALSE)>>
               /\ host' = "ended"
               /\ result' = [answer |-> "answer", plan |-> <<>>]
               /\ UNCHANGED <<loop, delivered>>
          ELSE /\ items' = Append(items, receipt)
               /\ host' = "reasoning"
               /\ loop' = Idle
               /\ result' = NoResult
               /\ delivered' = NoResult
    /\ UNCHANGED <<cancel, crashes, executed, accepted>>

\* The plan is corrupt or its user rejects it; an execution that may have left
\* an effect is never given back to the model.
DropPlan ==
    /\ host \in {"planning", "executing"}
    /\ host' = IF host = "executing" THEN "recovery" ELSE "ended"
    /\ UNCHANGED <<items, loop, result, delivered, cancel, crashes, Ghosts>>

\* The worker dies.  Behind the write barrier nothing resumes it: the turn
\* waits for its recovery.  Before it another worker starts from the transcript.
Crash ==
    /\ crashes < MaxCrashes
    /\ host \in {"reasoning", "planning", "giving_up", "executing"}
    /\ loop.pc # "down" \/ host # "reasoning"
    /\ crashes' = crashes + 1
    /\ loop' = Idle
    /\ result' = NoResult
    /\ host' = IF host = "executing" \/ PostEffect(items) THEN "recovery" ELSE "reasoning"
    /\ UNCHANGED <<items, delivered, cancel, Ghosts>>

Cancel ==
    /\ ~ cancel /\ host = "reasoning"
    /\ cancel' = TRUE
    /\ UNCHANGED <<items, loop, result, delivered, host, crashes, Ghosts>>

Step ==
    \/ Start \/ OutOfDecisions \/ ProviderFails
    \/ FinalAnswer \/ TaskPlanUpdate
    \/ \E what \in Capabilities \cup {"proposal"} : RejectDecision(what)
    \/ RecordRejection
    \/ \E cap \in Capabilities : DecideCall(cap)
    \/ RecordCallLimit \/ RecordCall \/ CancelledCall \/ Execute \/ RecordOutcome
    \/ DecideProposal \/ RecordProposal \/ Abort
    \/ TakeResult \/ RefusePlan \/ GiveUp \/ PrepareOk \/ EffectVerified
    \/ DropPlan

Next == Step \/ Crash \/ Cancel

Spec == Init /\ [][Next]_vars
----------------------------------------------------------------------------
(* Properties.                                                              *)

\* No call id is decided, executed or answered twice, whatever the worker had
\* committed when it died and however often the host gave the plan back
\* (call_state over the whole transcript, _close_interrupted_calls).
ExecutedOnce ==
    \A c \in CallIds :
        LET times(kinds) == Cardinality({i \in Of(items, kinds) : items[i].id = c})
        IN  /\ executed[c] <= 1
            /\ times({"assistant_decision"}) <= 1
            /\ times({"capability_result", "capability_error"}) <= 1

\* A worker that dies after the loop has answered is followed by one that gives
\* the host the same answer and the same plan (_resume_terminal): the plan a
\* person is asked about cannot change under a restart.
ResumeSameResult ==
    delivered # NoResult /\ result.answer \in {"answer", "fallback"} /\ ~ PostEffect(items)
        => result = delivered

\* The plan a structural replan replaces was followed by evidence, every revision
\* is the next one, and a Deliberate turn calls or proposes nothing before its
\* first TaskPlan.
TaskPlanDiscipline ==
    LET plans == TaskPlans(items) IN
    /\ \A i \in plans : items[i].what.revision = Cardinality(plans \cap 1..(i - 1)) + 1
    /\ \A i, j \in plans :
          /\ j < i /\ plans \cap (j + 1)..(i - 1) = {}
          /\ items[i].what.shape # items[j].what.shape
          => Of(items, Evidence) \cap (j + 1)..(i - 1) # {}
    /\ Deliberate => \A i \in Of(items, {"capability_call", "plan_step_proposed"}) :
          plans \cap 1..(i - 1) # {}

=============================================================================
