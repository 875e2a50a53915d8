--------------------------- MODULE CodexSession ---------------------------
(***************************************************************************)
(* The Codex App Server session of one turn: the child process behind      *)
(* _CodexClient and its request/response pipe, the session that keeps one  *)
(* process for all the decisions of a host loop                            *)
(* (ReusableCodexDecisionEngine), the polling of Stop and redirects around *)
(* it (InteractiveCodexDecisionEngine), and the rollback path that lets    *)
(* the provider stage a plan through tool calls (CodexReasoningEngine).    *)
(* The App Server itself is external: it answers requests in order, sends  *)
(* the notifications of its provider turns whenever it likes, and may die. *)
(***************************************************************************)
EXTENDS Integers, Sequences, FiniteSets, SequencesExt

CONSTANTS Loads,         \* what one host loop may meet: the engine (mode, "decide" for
                         \* the session or "legacy" for the rollback path), the
                         \* corrections the user sends (16 in Odoo) and the decisions
          MaxRestarts,   \* _MAX_REDIRECT_RESTARTS
          MaxTimeouts,   \* reads the model lets time out
          Steps,         \* plan steps the provider may stage
          MaxStaged,     \* max_write_steps_per_plan
          MaxToolCalls   \* max_tool_calls_per_turn

VARIABLES load,      \* the workload of this turn
          eng,       \* the engine and its client
          srv,       \* the child process: its state, pipe and provider turns
          ctl,       \* the turn row in Odoo: redirects and cancellation
          decision,  \* the last decision returned to the host loop
          budget,    \* decisions and timeouts used
          legacy     \* staged plan, acknowledged steps and request ids
cvars == <<load, eng, srv, ctl, decision, budget, legacy>>

Event(kind, turn, about) == [t |-> kind, turn |-> turn, about |-> about]

Response(id, ok) == [t |-> "response", turn |-> id, about |-> ok]

NoDecision == [turn |-> 0, from |-> 0, heard |-> 0, asked |-> 0]

SessionInit ==
    /\ load \in Loads
    /\ eng = [pc |-> "idle",        \* what the engine awaits
              dirs |-> {},          \* the temporary directories of the client
              held |-> FALSE,       \* _session_client is set
              events |-> << >>,     \* _CodexClient._events
              rid |-> 0,            \* id of the last request
              turn |-> 0,           \* thread_id and turn_id of this decision
              completed |-> {},     \* _completed_threads, _completed_turns
              steered |-> 0,        \* _interactive_sequence
              offered |-> 0,        \* the sequence of the snapshot being steered
              restarts |-> 0,
              said |-> << >>,       \* completed_agent_messages
              result |-> "none"]
    /\ srv = [proc |-> "none", inbox |-> << >>, out |-> << >>, turns |-> << >>]
    /\ ctl = [seq |-> 0, cancel |-> FALSE]
    /\ decision = NoDecision
    /\ budget = [decisions |-> 0, timeouts |-> 0]
    /\ legacy = [staged |-> << >>, acked |-> {}, ids |-> {}, plan |-> << >>, sent |-> 0]

---------------------------------------------------------------------------
(* The user and the server. *)

\* A correction or a Stop is committed on the turn row while the engine works.
UserActs ==
    /\ eng.pc # "closed" /\ ~ctl.cancel
    /\ \/ load.mode = "decide" /\ ctl.seq < load.redirects /\ ctl' = [ctl EXCEPT !.seq = @ + 1]
       \/ ctl' = [ctl EXCEPT !.cancel = TRUE]
    /\ UNCHANGED <<load, eng, srv, decision, budget, legacy>>

ProcessDies ==
    /\ srv.proc = "running"
    /\ srv' = [srv EXCEPT !.proc = "dead"]
    /\ UNCHANGED <<load, eng, ctl, decision, budget, legacy>>

\* The server handles the next request: a new turn starts from the input it
\* was given, turn/steer is accepted by a running turn only, turn/interrupt
\* ends a running turn with a notification of its own.
ServerHandles ==
    /\ srv.proc = "running" /\ srv.inbox # << >>
    /\ LET r == Head(srv.inbox)
           i == r.turn
           running == i > 0 /\ srv.turns[i].st = "running"
           Reply(ts, lines) == [srv EXCEPT !.inbox = Tail(@), !.turns = ts, !.out = @ \o lines]
       IN srv' = CASE r.kind = "turn" ->
                        Reply(Append(srv.turns, [st |-> "running", heard |-> r.upto, told |-> -1,
                                                 noted |-> FALSE]),
                              <<Response(r.id, TRUE)>>)
                   [] r.kind \in {"steer", "interrupt"} /\ ~running ->
                        Reply(srv.turns, <<Response(r.id, FALSE)>>)
                   [] r.kind = "steer" /\ running ->
                        Reply([srv.turns EXCEPT ![i].heard = r.upto], <<Response(r.id, TRUE)>>)
                   [] r.kind = "interrupt" /\ running ->
                        Reply([srv.turns EXCEPT ![i].st = "interrupted"],
                              <<Event("completed", i, "interrupted"), Response(r.id, TRUE)>>)
                   [] OTHER -> Reply(srv.turns, <<Response(r.id, TRUE)>>)
    /\ UNCHANGED <<load, eng, ctl, decision, budget, legacy>>

\* A running provider turn tells its answer (again after every correction it
\* accepted) and then completes or fails.  A token count (once per turn) may
\* still arrive after the end of the turn.
ProviderSays ==
    /\ srv.proc = "running"
    /\ \E i \in 1..Len(srv.turns) :
          LET t == srv.turns[i]
              Emit(t2, line) == srv' = [srv EXCEPT !.turns[i] = t2, !.out = Append(@, line)]
          IN \/ /\ t.st = "running" /\ t.told # t.heard
                /\ Emit([t EXCEPT !.told = t.heard], Event("message", i, t.heard))
             \/ /\ t.st = "running" /\ t.told = t.heard
                /\ \E st \in {"completed", "failed"} :
                      Emit([t EXCEPT !.st = st], Event("completed", i, st))
             \/ /\ ~t.noted
                /\ Emit([t EXCEPT !.noted = TRUE], Event("usage", i, 0))
    /\ UNCHANGED <<load, eng, ctl, decision, budget, legacy>>

\* On the rollback path the running turn may ask for tool calls, one at a time:
\* a request with an id of its own, or the id of the call before.
ProviderCalls ==
    /\ load.mode = "legacy" /\ srv.proc = "running" /\ legacy.sent <= MaxToolCalls
    /\ eng.turn > 0 /\ srv.turns[eng.turn].st = "running"
    /\ \A n \in 1..Len(srv.out) : srv.out[n].t # "call"
    /\ \E id \in {legacy.sent, legacy.sent + 1}, s \in Steps :
          srv' = [srv EXCEPT !.out = Append(@, Event("call", id, s))]
    /\ legacy' = [legacy EXCEPT !.sent = @ + 1]
    /\ UNCHANGED <<load, eng, ctl, decision, budget>>

---------------------------------------------------------------------------
(* The client process and its pipe. *)

\* Where the engine stands once a request was written; a process that has
\* exited takes no request.
Sent(e, kind, upto) ==
    /\ srv.proc = "running"
    /\ eng' = [e EXCEPT !.rid = eng.rid + 1]
    /\ srv' = [srv EXCEPT !.inbox =
                  Append(@, [id |-> eng.rid + 1, kind |-> kind, turn |-> eng.turn, upto |-> upto])]

Ended(e, how) == [e EXCEPT !.pc = "finally", !.result = how]

\* _CodexClient.start: two temporary directories, then the child process.  A
\* failed spawn, or an invalid auth file, removes what was created.
StartClient ==
    \/ /\ eng' = [eng EXCEPT !.dirs = {"cwd", "home"}, !.pc = "initialize", !.rid = 1]
       /\ srv' = [srv EXCEPT !.proc = "running",
                             !.inbox = <<[id |-> 1, kind |-> "initialize", turn |-> 0, upto |-> 0]>>]
    \/ /\ eng' = Ended(eng, "failed") /\ UNCHANGED srv

\* As if a failed initialize left the new client to its caller.
AfterFailedAnswerOpen == Ended(eng, "failed")

\* An error of initialize, thread/start or turn/start ends the decision and
\* with it the loop; start() closes the client it could not initialize.
AfterFailedAnswer ==
    IF eng.pc = "initialize" THEN [Ended(eng, "failed") EXCEPT !.pc = "closing"]
                             ELSE Ended(eng, "failed")

\* The answer to the awaited request is the next line that is no event.
AnswerRead ==
    /\ srv.out # << >>
    /\ LET line == Head(srv.out) IN line.t = "response" /\ line.turn = eng.rid /\ line.about

\* What makes an awaited answer an error: no answer in time, the end of the
\* stream, an answer to an earlier request, an error response.
AnswerFails ==
    IF srv.out = << >>
    THEN /\ \/ srv.proc = "dead" /\ UNCHANGED budget
            \/ /\ budget.timeouts < MaxTimeouts
               /\ budget' = [budget EXCEPT !.timeouts = @ + 1]
         /\ UNCHANGED srv
    ELSE /\ Head(srv.out).t = "response" /\ ~AnswerRead
         /\ srv' = [srv EXCEPT !.out = Tail(@)]
         /\ UNCHANGED budget

\* While an answer is awaited, notifications and server requests are kept.
Buffers ==
    /\ eng.pc \in {"initialize", "thread", "turn", "steer", "stopping", "redirecting"}
    /\ srv.out # << >> /\ Head(srv.out).t # "response"
    /\ eng' = [eng EXCEPT !.events = Append(@, Head(srv.out))]
    /\ srv' = [srv EXCEPT !.out = Tail(@)]
    /\ UNCHANGED <<load, ctl, decision, budget, legacy>>

---------------------------------------------------------------------------
(* One decision. *)

\* InteractiveCodexDecisionEngine.next_decision: one pass of its loop takes a
\* snapshot of the turn; the input carries every correction in it.  The first
\* decision starts the client, the later ones find it held.
Pass ==
    /\ eng.pc = "idle" /\ budget.decisions < load.decisions
    /\ CASE ctl.cancel -> eng' = Ended(eng, "cancelled") /\ UNCHANGED srv
         [] ~ctl.cancel /\ ~eng.held -> StartClient
         [] OTHER ->
              LET e == [eng EXCEPT !.steered = ctl.seq, !.said = << >>] IN
              IF srv.proc = "running" THEN Sent([e EXCEPT !.pc = "thread"], "thread", 0)
                                      ELSE eng' = Ended(e, "failed") /\ UNCHANGED srv
    /\ UNCHANGED <<load, ctl, decision, budget, legacy>>

\* initialize, thread/start and turn/start are answered in this order.
Proceeds ==
    /\ AnswerRead
    /\ CASE eng.pc = "initialize" ->
              /\ eng' = [eng EXCEPT !.held = TRUE, !.pc = "idle"]
              /\ srv' = [srv EXCEPT !.out = Tail(@)]
         [] eng.pc = "thread" ->
              /\ srv' = [srv EXCEPT !.out = Tail(@),
                            !.inbox = Append(@, [id |-> eng.rid + 1, kind |-> "turn", turn |-> 0,
                                                 upto |-> eng.steered])]
              /\ eng' = [eng EXCEPT !.pc = "turn", !.rid = @ + 1]
         [] eng.pc = "turn" ->
              /\ eng' = [eng EXCEPT !.pc = "poll", !.turn = Len(srv.turns)]
              /\ srv' = [srv EXCEPT !.out = Tail(@)]
         [] OTHER -> FALSE
    /\ UNCHANGED <<load, ctl, decision, budget, legacy>>

StartingFails ==
    /\ eng.pc \in {"initialize", "thread", "turn"}
    /\ AnswerFails
    /\ eng' = AfterFailedAnswer
    /\ UNCHANGED <<load, ctl, decision, legacy>>

\* _check_control, before every read of at most 0.2 s: a Stop interrupts the
\* provider turn, a newer correction is steered into it.  When nothing can be
\* written, Stop ends the decision and a correction restarts it.  The rollback
\* path knows the cancellation flag only.
CheckControl ==
    /\ eng.pc = "poll"
    /\ CASE ctl.cancel ->
              \/ Sent([eng EXCEPT !.pc = "stopping"], "interrupt", 0)
              \/ srv.proc = "dead" /\ eng' = Ended(eng, "cancelled") /\ UNCHANGED srv
         [] ~ctl.cancel /\ ctl.seq > eng.steered ->
              \/ Sent([eng EXCEPT !.pc = "steer", !.offered = ctl.seq], "steer", ctl.seq)
              \/ srv.proc = "dead" /\ eng' = [eng EXCEPT !.pc = "restart"] /\ UNCHANGED srv
         [] OTHER -> eng' = [eng EXCEPT !.pc = "read"] /\ UNCHANGED srv
    /\ UNCHANGED <<load, ctl, decision, budget, legacy>>

\* As if a correction counted as taken once it was written.
AfterSteerRefusedCounts == [eng EXCEPT !.pc = "poll", !.steered = eng.offered]

\* A refused or unanswered turn/steer interrupts the provider turn.
AfterSteerRefused == [eng EXCEPT !.pc = "redirect"]

Steered ==
    /\ eng.pc = "steer"
    /\ \/ /\ AnswerRead
          /\ eng' = [eng EXCEPT !.pc = "poll", !.steered = eng.offered]
          /\ srv' = [srv EXCEPT !.out = Tail(@)]
          /\ UNCHANGED budget
       \/ AnswerFails /\ eng' = AfterSteerRefused
    /\ UNCHANGED <<load, ctl, decision, legacy>>

\* The interrupt before a restart, whatever its answer; _RedirectRequested.
InterruptForRedirect ==
    /\ eng.pc = "redirect"
    /\ \/ Sent([eng EXCEPT !.pc = "redirecting"], "interrupt", 0)
       \/ srv.proc = "dead" /\ eng' = [eng EXCEPT !.pc = "restart"] /\ UNCHANGED srv
    /\ UNCHANGED <<load, ctl, decision, budget, legacy>>

Interrupted ==
    /\ eng.pc \in {"stopping", "redirecting"}
    /\ \/ AnswerRead /\ srv' = [srv EXCEPT !.out = Tail(@)] /\ UNCHANGED budget
       \/ AnswerFails
    /\ eng' = IF eng.pc = "stopping" THEN Ended(eng, "cancelled")
                                     ELSE [eng EXCEPT !.pc = "restart"]
    /\ UNCHANGED <<load, ctl, decision, legacy>>

\* Another pass of the loop, on the same client, within _MAX_REDIRECT_RESTARTS.
Restart ==
    /\ eng.pc = "restart"
    /\ eng' = IF eng.restarts < MaxRestarts
              THEN [eng EXCEPT !.pc = "idle", !.restarts = @ + 1]
              ELSE Ended(eng, "failed")
    /\ UNCHANGED <<load, srv, ctl, decision, budget, legacy>>

---------------------------------------------------------------------------
(* The events of the decision. *)

\* The next event: the buffered ones first, then the pipe.
NextEvent == IF eng.events # << >> THEN Head(eng.events) ELSE Head(srv.out)

TakeEvent(e) ==
    IF eng.events # << >>
    THEN eng' = [e EXCEPT !.events = Tail(eng.events)] /\ UNCHANGED srv
    ELSE eng' = e /\ srv' = [srv EXCEPT !.out = Tail(@)]

HasEvent == eng.pc = "read" /\ (eng.events # << >> \/ srv.out # << >>)

\* Nothing to read: the poll of 0.2 s ends and control is checked again, or
\* the deadline of the decision is over, or the stream has ended.
ReadFails ==
    /\ eng.pc = "read" /\ ~HasEvent
    /\ \/ /\ \/ srv.proc = "dead" /\ UNCHANGED budget
             \/ budget.timeouts < MaxTimeouts /\ budget' = [budget EXCEPT !.timeouts = @ + 1]
          /\ eng' = Ended(eng, "failed")
       \/ srv.proc = "running" /\ eng' = [eng EXCEPT !.pc = "poll"] /\ UNCHANGED budget
    /\ UNCHANGED <<load, srv, ctl, decision, legacy>>

\* _late_completed_notification: not a request, and of a turn that completed.
\* The token count of a settled turn is dropped; the drop may use up the 0.2 s
\* of the poll, whose codex_turn_timeout nobody catches.
DropLate ==
    /\ HasEvent /\ NextEvent.t \in {"message", "completed", "usage"}
    /\ NextEvent.turn \in eng.completed
    /\ TakeEvent([eng EXCEPT !.pc = "poll"]) \/ TakeEvent(Ended(eng, "failed"))
    /\ UNCHANGED <<load, ctl, decision, budget, legacy>>

\* Every event names its thread and turn: one of another turn is an error.
Foreign == NextEvent.turn # eng.turn

Notified ==
    /\ HasEvent /\ NextEvent.t \in {"message", "completed", "usage"}
    /\ NextEvent.turn \notin eng.completed
    /\ CASE Foreign -> TakeEvent(Ended(eng, "failed"))
         [] ~Foreign /\ NextEvent.t = "usage" -> TakeEvent([eng EXCEPT !.pc = "poll"])
         [] ~Foreign /\ NextEvent.t = "message" ->
              TakeEvent([eng EXCEPT !.pc = "poll", !.said = Append(@, NextEvent)])
         [] OTHER ->
              TakeEvent(CASE NextEvent.about = "interrupted" -> Ended(eng, "cancelled")
                          [] NextEvent.about = "failed" -> Ended(eng, "failed")
                          [] OTHER -> [eng EXCEPT !.pc = "validate"])
    /\ UNCHANGED <<load, ctl, decision, budget, legacy>>

\* An answer line nobody waits for has an id, as a server request has:
\* codex_server_request_not_allowed.  A defence: no answer to the session's own
\* requests gets here (LateAnswersAreRefused), _request refuses the late ones.
Unexpected ==
    /\ HasEvent /\ NextEvent.t = "response"
    /\ TakeEvent(Ended(eng, "failed"))
    /\ UNCHANGED <<load, ctl, decision, budget, legacy>>

\* The decision of the last message: the session remembers the turn as
\* completed before it validates the text (a text that is no decision fails).
Validate ==
    /\ eng.pc = "validate" /\ load.mode = "decide"
    /\ LET e == [eng EXCEPT !.completed = @ \union {eng.turn}] IN
       eng' = [e EXCEPT !.pc = "accept"] \/ eng' = Ended(e, "failed")
    /\ UNCHANGED <<load, srv, ctl, decision, budget, legacy>>

\* A redirect that reached Odoo after the last accepted steer.
Outdated == ctl.seq > eng.steered

\* The second snapshot: a Stop wins, an outdated decision is asked for again;
\* otherwise the corrections up to the last steer are marked as applied.
Accept ==
    /\ eng.pc = "accept"
    /\ CASE ctl.cancel -> eng' = Ended(eng, "cancelled") /\ UNCHANGED <<decision, budget>>
         [] ~ctl.cancel /\ Outdated ->
              eng' = [eng EXCEPT !.pc = "restart"] /\ UNCHANGED <<decision, budget>>
         [] OTHER ->
              /\ decision' = [turn |-> eng.turn, from |-> Last(eng.said).turn,
                              heard |-> Last(eng.said).about, asked |-> ctl.seq]
              /\ budget' = [budget EXCEPT !.decisions = @ + 1]
              /\ eng' = [eng EXCEPT !.pc = "idle", !.restarts = 0]
    /\ UNCHANGED <<load, srv, ctl, legacy>>

---------------------------------------------------------------------------
(* The rollback path: tool calls and the staged plan. *)

\* _stage_plan_step: a step already staged is acknowledged again; a new one
\* must fit the limit of the policy, or the call is answered with an error.
Staged(s) ==
    IF s \in ToSet(legacy.staged) \/ Len(legacy.staged) >= MaxStaged
    THEN legacy.staged ELSE Append(legacy.staged, s)

ToolCall ==
    /\ HasEvent /\ NextEvent.t = "call"
    /\ LET id == NextEvent.turn
           s == NextEvent.about IN
       IF load.mode = "decide" \/ id \in legacy.ids \/ Cardinality(legacy.ids) >= MaxToolCalls
                          \/ srv.proc = "dead"
       THEN TakeEvent(Ended(eng, "failed")) /\ UNCHANGED legacy
       ELSE /\ TakeEvent([eng EXCEPT !.pc = "poll"])
            /\ legacy' = [legacy EXCEPT !.ids = @ \union {id}, !.staged = Staged(s),
                             !.acked = IF s \in ToSet(Staged(s)) THEN @ \union {s} ELSE @]
    /\ UNCHANGED <<load, ctl, decision, budget>>

\* As if the plan of the final answer replaced the staged one.
ReconciledStructured(structured) == <<structured>>

\* _reconcile_staged_plan: << >> is the error, <<plan>> the plan.
Reconciled(structured) ==
    CASE legacy.staged = << >> -> <<structured>>
      [] structured = << >> /\ Len(legacy.staged) = 1 -> <<legacy.staged>>
      [] structured = legacy.staged -> <<legacy.staged>>
      [] OTHER -> << >>

\* The completed turn names a plan of its own (any), after the client is closed.
LegacyResult ==
    /\ eng.pc = "validate" /\ load.mode = "legacy"
    /\ \E structured \in UNION {[1..n -> Steps] : n \in 0..MaxStaged} :
          IF Reconciled(structured) = << >>
          THEN eng' = Ended(eng, "failed") /\ UNCHANGED legacy
          ELSE /\ eng' = Ended(eng, "planned")
               /\ legacy' = [legacy EXCEPT !.plan = Reconciled(structured)[1]]
    /\ UNCHANGED <<load, srv, ctl, decision, budget>>

---------------------------------------------------------------------------
(* The end of the loop. *)

\* The host loop has what it wanted, or its task is cancelled in the middle
\* of an await; start() closes a client that is not initialized yet.
LoopEnds ==
    /\ \/ eng.pc = "idle" /\ budget.decisions > 0 /\ eng' = Ended(eng, "decided")
       \/ /\ eng.pc \in {"initialize", "thread", "turn", "steer", "stopping", "redirecting", "read"}
          /\ ctl.cancel /\ eng' = AfterFailedAnswer
    /\ UNCHANGED <<load, srv, ctl, decision, budget, legacy>>

\* aclose (and __aexit__): the session forgets the client and its completed
\* turns, then closes the client, if it has one.
Aclose ==
    /\ eng.pc = "finally"
    /\ eng' = [eng EXCEPT !.pc = IF eng.held THEN "closing" ELSE "closed",
                          !.held = FALSE, !.completed = {}]
    /\ UNCHANGED <<load, srv, ctl, decision, budget, legacy>>

\* _CodexClient.close: end of input, then SIGTERM, then SIGKILL; when the
\* process is gone its directories are removed.
Close ==
    /\ eng.pc = "closing"
    /\ IF srv.proc = "running"
       THEN srv' = [srv EXCEPT !.proc = "dead"] /\ UNCHANGED eng
       ELSE eng' = [eng EXCEPT !.pc = "closed", !.dirs = {}] /\ UNCHANGED srv
    /\ UNCHANGED <<load, ctl, decision, budget, legacy>>

SessionNext ==
    \/ UserActs \/ ProcessDies \/ ServerHandles \/ ProviderSays \/ ProviderCalls
    \/ Pass \/ Proceeds \/ StartingFails \/ Buffers
    \/ CheckControl \/ Steered \/ InterruptForRedirect \/ Interrupted \/ Restart
    \/ ReadFails \/ DropLate \/ Notified \/ Unexpected \/ Validate \/ Accept
    \/ ToolCall \/ LegacyResult
    \/ LoopEnds \/ Aclose \/ Close

SessionSpec == SessionInit /\ [][SessionNext]_cvars

---------------------------------------------------------------------------
(* Properties. *)

\* A decision handed to the host loop comes from the provider turn started for
\* it, never from the events of an interrupted or completed one on the same
\* pipe, and its text was written after the provider had every correction that
\* Odoo held at the moment of acceptance: the steer, its lost answer and the
\* restart on the reused process must neither skip nor mix anything.
DecisionIsCurrent ==
    decision # NoDecision =>
        /\ decision.from = decision.turn
        /\ decision.heard >= decision.asked

\* However the loop ends (a refused initialize, a dead process, a timeout in
\* the middle of a steer, Stop), the child process and the copy of the login
\* in its temporary home are gone at the end.
NothingLeftOpen ==
    eng.pc = "closed" => eng.dirs = {} /\ srv.proc # "running"

\* On the rollback path a step the provider was told is staged is in the plan
\* shown to the user, and nothing else is, whatever plan the final answer named.
StagedPlanIsFinal ==
    eng.result = "planned" /\ legacy.acked # {} => ToSet(legacy.plan) = legacy.acked
===========================================================================
