---------------------------- MODULE Conversation ----------------------------
(***************************************************************************)
(* What a turn takes with it from its conversation: when it is enqueued,   *)
(* the autonomy, the consent to synthetic data and the language that are   *)
(* in force; when it first reasons, a bounded checkpoint of the turns      *)
(* before it, built from the newest checkpoint an earlier turn left.       *)
(* Turns of one conversation run one after the other; a turn may fail, be  *)
(* stopped or be tried again before its checkpoint is committed.           *)
(***************************************************************************)
EXTENDS Naturals, Sequences, SequencesExt

CONSTANTS
    Scan,         \* _MAX_PREDECESSOR_SCAN
    MaxMessages,  \* _MAX_RECENT_MESSAGES
    MaxSummary,   \* _MAX_ROLLING_SUMMARY
    MaxActive,    \* _MAX_ACTIVE_REFS
    MaxEffects,   \* _MAX_EFFECT_REFS
    MaxContext,   \* _MAX_PROVIDER_CONTEXT_CHARS, in items
    Talks         \* bounds of one behaviour: messages, screens, turns, turns that wait,
                  \* changes of preferences and retries

VARIABLES
    user,   \* the user's default autonomy and the administrator's switch for synthetic data
    chat,   \* the preferences of the conversation
    log,    \* the turns of the conversation, oldest first
    quota   \* what is left of the bounds

cvars == <<user, chat, log, quota>>

-----------------------------------------------------------------------------
(* Autonomy, consent and language.                                         *)

\* The profiles, as the rank of their confirmation mode and of the risk they run on their own.
Profile == [strict |-> [mode |-> 0, risk |-> 0], balanced |-> [mode |-> 1, risk |-> 1],
            autonomous |-> [mode |-> 2, risk |-> 2], full_access |-> [mode |-> 2, risk |-> 3]]

Profiles == DOMAIN Profile

ProfileFromLegacy(mode, risk) ==
    CASE mode = 0 -> "strict"
      [] mode = 2 /\ risk = 3 -> "full_access"
      [] mode = 2 /\ risk # 3 -> "autonomous"
      [] OTHER -> "balanced"

\* The page of the user, or a browser that still holds the page before profiles, which
\* cannot name the protected risk.
SetProfile ==
    /\ quota.changes > 0
    /\ \/ \E p \in Profiles : user' = [user EXCEPT !.profile = p]
       \/ \E mode \in 0 .. 2, risk \in 0 .. 2 :
            user' = [user EXCEPT !.profile = ProfileFromLegacy(mode, risk)]
    /\ quota' = [quota EXCEPT !.changes = @ - 1]
    /\ UNCHANGED <<chat, log>>

SetAdministrator ==
    /\ quota.changes > 0
    /\ user' = [user EXCEPT !.synthetic = ~@]
    /\ quota' = [quota EXCEPT !.changes = @ - 1]
    /\ UNCHANGED <<chat, log>>

\* What a message says of synthetic data: nothing, that it asks for some, that they may be
\* used from now on, or that they may not.
Messages == {"plain", "asks", "allows", "forbids"}

Said(msg) ==
    CASE msg = "allows" -> [chat EXCEPT !.allow = TRUE, !.authorized = TRUE]
      [] msg = "forbids" -> [chat EXCEPT !.allow = FALSE, !.authorized = FALSE]
      [] OTHER -> chat

Authorized(msg) == msg \in {"asks", "allows"} \/ (msg # "forbids" /\ chat.authorized)

\* The layers of a policy: the ceiling of the system, the administrator, the user (or the
\* override of the conversation in their place) and the conversation.
Layer(profile, allow) == [mode |-> Profile[profile].mode, risk |-> Profile[profile].risk,
                          allow |-> allow]

PolicyLayers(after) ==
    {Layer("full_access", TRUE), Layer("full_access", user.synthetic),
     Layer(IF chat.override = "inherit" THEN user.profile ELSE chat.override, TRUE),
     Layer("full_access", after.allow)}

ResolvedPolicy(layers, authorized) ==
    [mode |-> Min({l.mode : l \in layers}), risk |-> Min({l.risk : l \in layers}),
     allow |-> \A l \in layers : l.allow, authorized |-> authorized]

\* The settings of a turn, captured when it is created and never written again.
SettingsSnapshot(msg) == ResolvedPolicy(PolicyLayers(Said(msg)), Authorized(msg))

-----------------------------------------------------------------------------
(* The turns.                                                              *)

Terminal == {"completed", "failed", "cancelled", "recovery_required"}

Nothing == [revision |-> 0, messages |-> << >>, summary |-> << >>, refs |-> << >>,
            effects |-> << >>, language |-> "none"]

NoCheckpoint == [Nothing EXCEPT !.language = "absent"]

\* The plan of a turn: the outcome of each step, or a change of the conversation's autonomy
\* with the value it was previewed on.
NoPlan == [state |-> "none", steps |-> << >>, to |-> "none", seen |-> "none"]

Enqueue(msg, screen) ==
    /\ Len(log) < quota.turns
    /\ Len(SelectSeq(log, LAMBDA row : row.state \notin Terminal)) < quota.open
    /\ chat' = Said(msg)
    /\ log' = Append(log, [state |-> "queued", msg |-> msg, screen |-> screen,
                           policy |-> SettingsSnapshot(msg),
                           language |-> chat.language, answer |-> FALSE, plan |-> NoPlan,
                           staged |-> NoCheckpoint, context |-> NoCheckpoint])
    /\ UNCHANGED <<user, quota>>

Init ==
    /\ user = [profile |-> "balanced", synthetic |-> TRUE]
    /\ chat = [override |-> "inherit", allow |-> TRUE, authorized |-> FALSE, language |-> "inherit"]
    /\ log = << >>
    /\ quota \in Talks

\* Everything but the turn stays.
SetTurn(t, row) == log' = [log EXCEPT ![t] = row] /\ UNCHANGED <<user, chat, quota>>

\* A turn waits for the end of every turn before it in its conversation.
Start(t) ==
    /\ log[t].state = "queued" /\ \A i \in 1 .. t - 1 : log[i].state \in Terminal
    /\ SetTurn(t, [log[t] EXCEPT !.state = "running"])

-----------------------------------------------------------------------------
(* The checkpoint.                                                         *)

BoundedTail(s, n) == SubSeq(s, IF Len(s) > n THEN Len(s) - n + 1 ELSE 1, Len(s))

\* The records of the screen, or its model when there is none.
ScreenRefs(screen) ==
    LET records == (IF screen.res > 0 THEN <<screen.res>> ELSE << >>) \o screen.selected
    IN  IF ~screen.model THEN << >> ELSE IF records = << >> THEN <<0>> ELSE records

\* A reference that comes again moves to the end.
MergeRefs(old, new) ==
    BoundedTail(FoldLeft(LAMBDA refs, r : Append(Remove(refs, r), r), << >>, old \o new), MaxActive)

\* The completed steps of a plan that ran to its end.
EffectRefs(t) ==
    LET plan == log[t].plan
        done == SelectSeq([i \in DOMAIN plan.steps |-> i], LAMBDA i : plan.steps[i] = "completed")
    IN  IF plan.state # "completed" THEN << >>
        ELSE BoundedTail([i \in DOMAIN done |-> <<t, done[i]>>], MaxEffects)

MergeEffects(old, new) ==
    BoundedTail(FoldLeft(LAMBDA refs, r : Append(Remove(refs, r), r), << >>, old \o new), MaxEffects)

TurnSummary(t) == [turn |-> t, state |-> log[t].state, answer |-> log[t].answer]

FoldTurn(c, t) ==
    [c EXCEPT !.revision = @ + 1,
              !.summary = BoundedTail(Append(@, TurnSummary(t)), MaxSummary),
              !.refs = MergeRefs(@, ScreenRefs(log[t].screen)),
              !.effects = MergeEffects(@, EffectRefs(t)),
              !.messages = << >>]

\* The turns read: the last ones before this turn.
Predecessors(t) == BoundedTail([i \in 1 .. t - 1 |-> i], Scan)

\* As if the turn that owns the checkpoint were part of it.
BaseAfterOwner(t) ==
    LET seen == Predecessors(t)
        with == {k \in DOMAIN seen : log[seen[k]].context # NoCheckpoint}
        k == CHOOSE m \in with : \A n \in with : n <= m
    IN  IF with = {} THEN [context |-> Nothing, turns |-> seen]
        ELSE [context |-> log[seen[k]].context, turns |-> SubSeq(seen, k + 1, Len(seen))]

\* The newest checkpoint among them, to be followed by its own turn and the later ones.
BaseCheckpoint(t) ==
    LET seen == Predecessors(t)
        with == {k \in DOMAIN seen : log[seen[k]].context # NoCheckpoint}
        k == CHOOSE m \in with : \A n \in with : n <= m
    IN  IF with = {} THEN [context |-> Nothing, turns |-> seen]
        ELSE [context |-> log[seen[k]].context, turns |-> SubSeq(seen, k, Len(seen))]

\* The question and, when there is one, the answer of each turn, in the order of the turns.
RecentMessages(t) ==
    BoundedTail(FlattenSeq([k \in DOMAIN Predecessors(t) |->
                    LET i == Predecessors(t)[k]
                    IN  IF log[i].answer THEN <<<<"user", i>>, <<"assistant", i>>>>
                        ELSE <<<<"user", i>>>>]), MaxMessages)

BuildSnapshot(t) ==
    LET base == BaseCheckpoint(t)
        folded == FoldLeft(FoldTurn, base.context, base.turns)
    IN  [folded EXCEPT !.messages = RecentMessages(t),
                       !.refs = MergeRefs(@, ScreenRefs(log[t].screen)),
                       !.language = log[t].language]

\* What an item of a checkpoint must be.
ValidItems(c) ==
    /\ \A i \in DOMAIN c.messages : c.messages[i][1] \in {"user", "assistant"}
    /\ \A i \in DOMAIN c.summary : c.summary[i].state \in Terminal
    /\ \A i \in DOMAIN c.refs : c.refs[i] \in Nat
    /\ \A i \in DOMAIN c.effects : c.effects[i][2] > 0

ValidSnapshot(c) ==
    /\ Len(c.messages) <= MaxMessages /\ Len(c.summary) <= MaxSummary
    /\ Len(c.refs) <= MaxActive /\ Len(c.effects) <= MaxEffects
    /\ ValidItems(c)

\* A turn that already has a checkpoint works with it again; one that is not valid fails it.
Capture(t) ==
    /\ log[t].state = "running" /\ log[t].staged = NoCheckpoint
    /\ ValidSnapshot(IF log[t].context # NoCheckpoint THEN log[t].context ELSE BuildSnapshot(t))
    /\ SetTurn(t, [log[t] EXCEPT !.staged = IF log[t].context # NoCheckpoint THEN log[t].context
                                             ELSE BuildSnapshot(t)])

\* What the provider is shown: the oldest items go first, messages before summaries,
\* of which two each stay, before references.
Shown(c) ==
    LET size == Len(c.messages) + Len(c.summary) + Len(c.refs) + Len(c.effects)
        cut(s, left, keep) == Min({IF left > MaxContext THEN left - MaxContext ELSE 0,
                                   IF Len(s) > keep THEN Len(s) - keep ELSE 0})
        m == cut(c.messages, size, 2)
        y == cut(c.summary, size - m, 2)
        r == cut(c.refs, size - m - y, 0)
        e == cut(c.effects, size - m - y - r, 0)
        from(q, n) == SubSeq(q, n + 1, Len(q))
    IN  [c EXCEPT !.messages = from(@, m), !.summary = from(@, y),
                  !.refs = from(@, r), !.effects = from(@, e)]

\* The working transcript is committed, and the checkpoint with it.
Persist(t) ==
    /\ log[t].state = "running" /\ log[t].staged # log[t].context
    /\ log[t].staged # NoCheckpoint
    /\ SetTurn(t, [log[t] EXCEPT !.context = log[t].staged])

-----------------------------------------------------------------------------
(* The end of a turn.                                                      *)

\* A turn ends with what its transaction staged.
Ended(t, state, answer) ==
    [log[t] EXCEPT !.state = state, !.answer = answer, !.staged = NoCheckpoint,
                   !.context = IF log[t].staged # NoCheckpoint THEN log[t].staged ELSE @]

\* What of the turn outlives a transaction that is rolled back.
RolledBack(t, state) == [log[t] EXCEPT !.state = state, !.staged = NoCheckpoint]

\* An answer without a plan, for a greeting without any context.
Complete(t) ==
    /\ log[t].state = "running" /\ log[t].plan.state = "none"
    /\ SetTurn(t, Ended(t, "completed", TRUE))

\* An answer after a plan, some steps of which may have been skipped.
CompletePlan(t) ==
    /\ log[t].state = "running" /\ log[t].staged # NoCheckpoint /\ log[t].plan.state = "none"
    /\ \E steps \in {<<"skipped", "completed">>, <<"completed", "completed">>} :
        SetTurn(t, [Ended(t, "completed", TRUE) EXCEPT !.plan =
                        [NoPlan EXCEPT !.state = "completed", !.steps = steps]])

Fail(t) == log[t].state = "running" /\ SetTurn(t, RolledBack(t, "failed"))

Retry(t) ==
    /\ log[t].state = "running" /\ quota.retries > 0
    /\ log' = [log EXCEPT ![t] = RolledBack(t, "queued")]
    /\ quota' = [quota EXCEPT !.retries = @ - 1]
    /\ UNCHANGED <<user, chat>>

\* The prose the user saw when they stopped the turn becomes its answer.
Cancel(t) ==
    /\ log[t].state \in {"queued", "running", "awaiting_confirmation"}
    /\ \E answer \in IF log[t].state = "running" THEN BOOLEAN ELSE {FALSE} :
        SetTurn(t, [RolledBack(t, "cancelled") EXCEPT !.answer = answer])

\* The worker died behind the barrier of its effects.
Recover(t) ==
    /\ log[t].state = "running" /\ log[t].context # NoCheckpoint
    /\ SetTurn(t, RolledBack(t, "recovery_required"))

\* The journal proved that nothing survived.
Reconcile(t) ==
    /\ log[t].state = "recovery_required"
    /\ SetTurn(t, [log[t] EXCEPT !.state = "failed"])

-----------------------------------------------------------------------------
(* The capabilities that change the preferences of the conversation.       *)

\* A change of autonomy always waits for the user.
ProposeAutonomy(t) ==
    /\ log[t].state = "running" /\ log[t].staged # NoCheckpoint /\ quota.changes > 0
    /\ log[t].plan.state = "none"
    /\ \E to \in {"inherit", "strict", "full_access"} :
        log' = [log EXCEPT ![t] = [Ended(t, "awaiting_confirmation", FALSE) EXCEPT !.plan =
            [state |-> "awaiting_confirmation", steps |-> << >>, to |-> to, seen |-> chat.override]]]
    /\ quota' = [quota EXCEPT !.changes = @ - 1]
    /\ UNCHANGED <<user, chat>>

Decide(t) ==
    /\ log[t].state = "awaiting_confirmation"
    /\ \/ SetTurn(t, [log[t] EXCEPT !.state = "queued", !.plan.state = "authorized"])
       \/ SetTurn(t, [Ended(t, "completed", TRUE) EXCEPT !.plan.state = "rejected"])

\* The approved change, on the value it was shown on; it is for the turns to come.
SetAutonomy(t) ==
    /\ log[t].state = "running" /\ log[t].plan.state = "authorized"
    /\ chat.override = log[t].plan.seen
    /\ chat' = [chat EXCEPT !.override = log[t].plan.to]
    /\ log' = [log EXCEPT ![t] = [Ended(t, "completed", TRUE) EXCEPT
                    !.plan.state = "completed", !.plan.steps = <<"completed">>]]
    /\ UNCHANGED <<user, quota>>

\* A change of language needs no approval.
SetLanguage(t) ==
    /\ log[t].state = "running" /\ log[t].staged # NoCheckpoint /\ quota.changes > 0
    /\ log[t].plan.state = "none"
    /\ \E language \in {"inherit", "automatic", "odoo", "fixed"} :
        chat' = [chat EXCEPT !.language = language]
    /\ log' = [log EXCEPT ![t] = [Ended(t, "completed", TRUE) EXCEPT !.plan =
                    [NoPlan EXCEPT !.state = "completed", !.steps = <<"completed">>]]]
    /\ quota' = [quota EXCEPT !.changes = @ - 1]
    /\ UNCHANGED user

-----------------------------------------------------------------------------

Next ==
    \/ SetProfile \/ SetAdministrator
    \/ \E msg \in Messages \intersect quota.messages, screen \in quota.screens : Enqueue(msg, screen)
    \/ \E t \in DOMAIN log :
        \/ Start(t) \/ Capture(t) \/ Persist(t) \/ Complete(t) \/ CompletePlan(t)
        \/ Fail(t) \/ Retry(t) \/ Cancel(t) \/ Recover(t) \/ Reconcile(t)
        \/ ProposeAutonomy(t) \/ Decide(t) \/ SetAutonomy(t) \/ SetLanguage(t)

Spec == Init /\ [][Next]_cvars

\* Up to turn t, no row of Scan turns left no checkpoint.
Unbroken(t) ==
    \A i \in Scan + 2 .. t : \E j \in i - Scan .. i - 1 : log[j].context # NoCheckpoint

\* The references that the screens of the first t turns leave, the latest last.
Viewed(t) ==
    LET all == FlattenSeq([i \in 1 .. t |-> ScreenRefs(log[i].screen)])
        last == SelectSeq([i \in DOMAIN all |-> i],
                          LAMBDA i : \A j \in DOMAIN all : j > i => all[j] # all[i])
    IN  BoundedTail([k \in DOMAIN last |-> all[last[k]]], MaxActive)

\* A checkpoint is the history of the conversation, whichever of the turns before failed
\* before they left one: its summary holds the last turns once each and in order, in the
\* state they ended in (a recovery may be settled later); the messages shown to the provider
\* end with the last turn's; no effect is there twice or of a step that did not complete;
\* and when no long row of turns left none, it counts every turn and has the records last
\* seen (conversation_context.py).
CheckpointIsHistory(t) ==
    LET c == log[t].context
        n == Len(c.summary)
    IN  /\ n = IF t - 1 < MaxSummary THEN t - 1 ELSE MaxSummary
        /\ \A k \in 1 .. n :
            /\ c.summary[k].turn = t - 1 - n + k
            /\ c.summary[k].state \in {log[t - 1 - n + k].state, "recovery_required"}
            /\ c.summary[k].answer = log[t - 1 - n + k].answer
        /\ t > 1 => LET shown == Shown(c).messages
                    IN  shown # << >> /\ shown[Len(shown)] =
                            <<IF log[t - 1].answer THEN "assistant" ELSE "user", t - 1>>
        /\ \A i, j \in DOMAIN c.effects : c.effects[i] = c.effects[j] => i = j
        /\ \A i \in DOMAIN c.effects :
            log[c.effects[i][1]].plan.steps[c.effects[i][2]] = "completed"
        /\ Unbroken(t) => c.revision = t - 1 /\ c.refs = Viewed(t)

\* A turn may use synthetic data only while the last the user said of them, up to its own
\* message, is not that they may not be used, and only when they said so or it asks for them
\* (chat_policy.py).
ConsentIsKept(t) ==
    LET said == {i \in 1 .. t : log[i].msg \in {"allows", "forbids"}}
        last == CHOOSE i \in said : \A j \in said : j <= i
    IN  log[t].policy.allow /\ log[t].policy.authorized =>
            IF said = {} THEN log[t].msg = "asks" ELSE log[last].msg = "allows"

\* Each turn works on its conversation as it was: the consent of the messages before it and,
\* once it reasons, the history of the turns before it.
TurnKnowsConversation ==
    \A t \in DOMAIN log :
        ConsentIsKept(t) /\ (log[t].context # NoCheckpoint => CheckpointIsHistory(t))
=============================================================================
