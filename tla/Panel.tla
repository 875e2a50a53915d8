------------------------------- MODULE Panel -------------------------------
\* The assistant panel in the browser.  Every chat has a scope object of its own;
\* the fields a user sees are a projection of the active scope.  Requests run in
\* the background: they hold on to their scope while the user opens other chats,
\* so that their answers arrive when another chat, or the history, is shown.
\*
\* A chat is named by the number of the turn that opened it.  The key of a scope is
\* the number of its chat, or -n for the n-th chat that the server has not named.
EXTENDS Integers, Sequences, SequencesExt, FiniteSets, TLC

CONSTANTS Turns,   \* turn numbers, in the order of submission
          Loads    \* how many turns, navigations, controls and faults a run has

VARIABLES turns,   \* the server's turns
          panel,   \* the service's reactive state with its scope objects
          load,    \* the history request in flight
          ops,     \* the other requests in flight
          left     \* what remains of the load

vars == <<turns, panel, load, ops, left>>

-----------------------------------------------------------------------------
\* What a chat shows: messages, a busy turn, a busy decision, the last result with
\* the state of its plan, the receipt of a decision, the turn whose activity is
\* displayed, and the turn's state.
NoResult == [turn |-> 0, plan |-> "none"]

Blank == [msgs |-> <<>>, loading |-> FALSE, deciding |-> FALSE, result |-> NoResult,
          receipt |-> "none", act |-> 0, st |-> "none"]

Scope(key, conv) ==
    [key |-> key, conv |-> conv, turn |-> 0, gen |-> 0, stop |-> FALSE, view |-> Blank]

Message(role, t, origin) == [role |-> role, turn |-> t, origin |-> origin]

Ended == {"completed", "failed", "cancelled"}

Unstored == {"none", "sent", "refused"}

\* The server still knows the turn as one to follow.
Followed == {"running", "cancelling", "awaiting", "executing", "recovery"}

ExecutionPending(v) ==
    /\ v.receipt \notin {"recovery", "final"}
    /\ v.st \notin Ended \cup {"recovery"}
    /\ v.result.plan = "authorized"

RecoveryPending(v) == v.receipt = "recovery" \/ v.st = "recovery" \/ ExecutionPending(v)

\* The answer to a history request: the stored messages of a chat and the turn to follow.
History(c) ==
    LET of(t) == IF turns[t].conv # c \/ turns[t].state \in Unstored THEN <<>>
                 ELSE <<Message("user", t, "server")>>
                      \o IF turns[t].state \in {"completed", "cancelled"}
                         THEN <<Message("answer", t, "server")>> ELSE <<>>
    IN FlattenSeq([t \in Turns |-> of(t)])

ActiveTurn(c) ==
    LET S == {t \in Turns : turns[t].conv = c /\ turns[t].state \in Followed}
    IN IF S = {} THEN 0 ELSE CHOOSE t \in S : \A u \in S : u <= t

Stored == {turns[t].conv : t \in {u \in Turns : turns[u].state \notin Unstored}}

\* A validated response carries the turn and the state of its plan.
Response(t) == [turn |-> t, plan |-> IF turns[t].state = "awaiting" THEN "awaiting" ELSE "none"]

-----------------------------------------------------------------------------
\* The registry of scopes.
Ensure(p, key, conv) ==
    IF key \in DOMAIN p.reg THEN p
    ELSE [p EXCEPT !.scopes = Append(@, Scope(key, conv)),
                   !.reg = @ @@ (key :> Len(p.scopes) + 1)]

WithActive(p) == Ensure(p, p.key, p.conv)

Active(p) == p.reg[p.key]

\* The scope takes over what is displayed; the turn's state is not copied.
CopyVisible(p) ==
    LET q == WithActive(p)
    IN [q EXCEPT !.scopes[Active(q)].view = [p.shown EXCEPT !.st = q.scopes[Active(q)].view.st]]

Project(p, s) == [p EXCEPT !.shown = p.scopes[s].view]

\* As if a background chat wrote to the screen without asking which chat is open.
ProjectAlways(p, s) == Project(p, s)

ProjectIfActive(p, s) == IF p.key = p.scopes[s].key THEN Project(p, s) ELSE p

\* The control layer asks for the very scope object instead of its key.
ProjectScope(p, s) ==
    IF p.key \in DOMAIN p.reg /\ p.reg[p.key] = s THEN Project(p, s) ELSE p

Show(p, s, v) == ProjectIfActive([p EXCEPT !.scopes[s].view = v], s)

\* A scope gets the name of its chat; the open chat moves with it.
BindScope(p, s, c, t) ==
    LET old == p.scopes[s].key
        q == [p EXCEPT !.scopes[s].key = c, !.scopes[s].conv = c, !.scopes[s].turn = t,
                       !.reg = (c :> s) @@ [k \in DOMAIN p.reg \ (IF old = c THEN {} ELSE {old}) |-> p.reg[k]]]
    IN IF p.key = old THEN [q EXCEPT !.key = c, !.conv = c] ELSE q

Says(m, n) == m.role = n.role /\ m.turn = n.turn

\* An answer with the same text is not shown twice.
AppendOnce(msgs, m) ==
    IF \E i \in DOMAIN msgs : Says(msgs[i], m) THEN msgs ELSE Append(msgs, m)

\* Only the last message is compared.
AppendUnlessLast(msgs, m) ==
    IF msgs # <<>> /\ Says(msgs[Len(msgs)], m) THEN msgs ELSE Append(msgs, m)

\* The last local copy of the result's answer stays, and one is added if there is none.
Reconciled(v) ==
    LET a == Message("answer", v.result.turn, "local")
        own == {i \in DOMAIN v.msgs : v.msgs[i] = a}
        keep(i) == i \notin own \/ \A j \in own : j <= i
    IN IF v.result.turn = 0 THEN v.msgs
       ELSE IF own = {} THEN Append(v.msgs, a)
       ELSE FlattenSeq([i \in DOMAIN v.msgs |-> IF keep(i) THEN <<v.msgs[i]>> ELSE <<>>])

\* After every submission and decision, all registered scopes are reconciled.
Reconcile(p) ==
    LET new(s) == IF \E k \in DOMAIN p.reg : p.reg[k] = s
                  THEN [p.scopes[s] EXCEPT !.view.msgs = Reconciled(p.scopes[s].view)]
                  ELSE p.scopes[s]
        q == [p EXCEPT !.scopes = [s \in DOMAIN p.scopes |-> new(s)]]
    IN IF p.key \in DOMAIN p.reg /\ q.scopes[p.reg[p.key]] # p.scopes[p.reg[p.key]]
       THEN Project(q, p.reg[p.key]) ELSE q

-----------------------------------------------------------------------------
Op(kind, s, t, pc) == [kind |-> kind, s |-> s, turn |-> t, pc |-> pc, gen |-> 0]

Idle == [kind |-> "idle", conv |-> 0, key |-> 0, pconv |-> 0, prev |-> 0,
         target |-> 0, read |-> FALSE, msgs |-> <<>>, active |-> 0, convs |-> {}]

\* A fresh service starts in an empty new chat behind the history list.
Init ==
    /\ turns = [t \in Turns |-> [conv |-> 0, from |-> 0, state |-> "none"]]
    /\ panel = [open |-> FALSE, auth |-> "unknown", boot |-> FALSE, list |-> TRUE,
                key |-> -1, conv |-> 0, active |-> 0, seq |-> 1, known |-> {},
                stopping |-> FALSE, astray |-> FALSE, shown |-> Blank,
                scopes |-> <<Scope(-1, 0)>>, reg |-> (-1 :> 1)]
    /\ load = Idle
    /\ ops = {}
    /\ left \in Loads

Spend(what) == left[what] > 0 /\ left' = [left EXCEPT ![what] = @ - 1]

\* A request is lost, or its answer does not have the form the validators ask for.
RequestFails == Spend("faults")

View(s) == panel.scopes[s].view

Busy == load.kind # "idle"

\* The chat view is on the screen, with its composer.
InChat == panel.open /\ panel.auth = "ok" /\ ~panel.list

LockChat(p) ==
    [p EXCEPT !.boot = FALSE, !.list = TRUE, !.known = {},
              !.shown = [@ EXCEPT !.msgs = <<>>, !.result = NoResult, !.receipt = "none"]]

\* Opening the panel asks for the account; a panel that was in use shows its chat again.
Open ==
    /\ ~panel.open /\ Spend("navs")
    /\ LET live == panel.auth = "ok" /\ panel.boot
           p == WithActive(panel)
       IN /\ panel' = IF live THEN [Project(p, Active(p)) EXCEPT !.open = TRUE]
                      ELSE [LockChat(panel) EXCEPT !.open = TRUE, !.auth = "unknown"]
          /\ ops' = ops \cup {Op("account", 0, 0, IF live THEN "sync" ELSE "ask"),
                              Op("restore", 0, 0, "wait")}
    /\ UNCHANGED <<turns, load>>

Close ==
    /\ panel.open /\ Spend("navs")
    /\ panel' = [CopyVisible(panel) EXCEPT !.open = FALSE]
    /\ UNCHANGED <<turns, load, ops>>

\* A panel that was in use shows its chat again when the account has answered.
Synced(o, p) == IF o.pc = "sync" THEN Project(WithActive(p), Active(WithActive(p))) ELSE p

\* The account's answer unlocks the chat and asks for the history of the open chat.
AccountReady(o) ==
    /\ o.kind = "account"
    /\ panel' = Synced(o, [panel EXCEPT !.auth = "ok", !.boot = TRUE])
    /\ load' = IF panel.boot \/ Busy THEN load
               ELSE [Idle EXCEPT !.kind = "boot", !.conv = panel.conv]
    /\ ops' = ops \ {o}
    /\ UNCHANGED <<turns, left>>

\* Any other answer, a malformed one and none at all lock the chat.
AccountLocked(o) ==
    /\ o.kind = "account" /\ RequestFails
    /\ panel' = Synced(o, [LockChat(panel) EXCEPT !.auth = "other"])
    /\ ops' = ops \ {o}
    /\ UNCHANGED <<turns, load>>

\* While the panel is open its account is asked again from time to time.
PollAccount ==
    /\ panel.open /\ panel.auth = "ok" /\ Spend("navs")
    /\ ops' = ops \cup {Op("account", 0, 0, "ask")}
    /\ UNCHANGED <<turns, panel, load>>

-----------------------------------------------------------------------------
\* Navigation.
ShowHistory ==
    /\ InChat /\ ~Busy /\ Spend("navs")
    /\ panel' = CopyVisible(panel)
    /\ load' = [Idle EXCEPT !.kind = "list"]
    /\ UNCHANGED <<turns, ops>>

\* The chat is opened before its history is there: its own scope is shown meanwhile.
SelectConversation(c) ==
    /\ panel.open /\ panel.auth = "ok" /\ panel.list /\ c \in panel.known
    /\ ~Busy /\ Spend("navs")
    /\ LET p == CopyVisible(panel)
           q == Ensure([p EXCEPT !.key = c, !.conv = c], c, c)
       IN /\ panel' = Project(q, Active(q))
          /\ load' = [Idle EXCEPT !.kind = "chat", !.conv = c, !.key = p.key,
                                  !.pconv = p.conv, !.prev = Active(p),
                                  !.target = Active(q)]
    /\ UNCHANGED <<turns, ops>>

NewConversation ==
    /\ panel.open /\ panel.auth = "ok" /\ ~Busy /\ Spend("navs")
    /\ LET n == panel.seq + 1
           p == [CopyVisible(panel) EXCEPT !.conv = 0, !.active = 0, !.seq = n, !.key = -n,
                                           !.list = FALSE]
           q == Ensure(p, -n, 0)
       IN panel' = Project(q, Active(q))
    /\ UNCHANGED <<turns, load, ops>>

\* The server reads the history; what happens until the answer is applied is not in it.
HistoryRead ==
    /\ Busy /\ ~load.read
    /\ load' = [load EXCEPT !.read = TRUE, !.convs = Stored,
                            !.msgs = IF load.conv = 0 THEN <<>> ELSE History(load.conv),
                            !.active = IF load.conv = 0 THEN 0 ELSE ActiveTurn(load.conv)]
    /\ UNCHANGED <<turns, panel, ops, left>>

\* A restored turn is followed under a new generation: older followers of the scope give up.
Replays(p, s, t) ==
    LET v == [p.scopes[s].view EXCEPT !.st = turns[t].state, !.act = 0,
                                      !.loading = turns[t].state \in {"running", "cancelling", "executing"}]
        q == [p EXCEPT !.scopes[s].gen = @ + 1, !.scopes[s].turn = t]
    IN Show(q, s, v)

Follower(p, s, t) == {[Op("replay", s, t, "check") EXCEPT !.gen = p.scopes[s].gen + 1]}

HistoryLoaded ==
    /\ load.read
    /\ LET s == load.target
           p == [panel EXCEPT !.conv = load.conv, !.active = load.active, !.known = load.convs,
                              !.shown.msgs = load.msgs]
           q == [Project([p EXCEPT !.scopes[s].view.msgs = load.msgs], s) EXCEPT !.list = FALSE]
       IN CASE load.kind = "list" -> panel' = [p EXCEPT !.list = TRUE] /\ UNCHANGED ops
            [] load.kind = "boot" -> panel' = p /\ UNCHANGED ops
            [] load.kind = "chat" /\ load.active = 0 -> panel' = q /\ UNCHANGED ops
            [] OTHER -> /\ panel' = Replays(q, s, load.active)
                        /\ ops' = ops \cup Follower(q, s, load.active)
    /\ load' = Idle
    /\ UNCHANGED <<turns, left>>

\* The previous chat comes back under the key it had when the request was sent.
HistoryFailed ==
    /\ Busy /\ RequestFails
    /\ panel' = IF load.kind # "chat" THEN panel
                ELSE [Project(panel, load.prev)
                        EXCEPT !.key = load.key, !.conv = load.pconv,
                               !.astray = @ \/ panel.scopes[load.prev].key # load.key]
    /\ load' = Idle
    /\ UNCHANGED <<turns, ops>>

\* For a while after opening, the panel waits for a loaded chat with a turn to follow.
RestoreLoaded(o) ==
    /\ o.kind = "restore"
    /\ IF panel.conv # 0 /\ panel.active # 0
       THEN LET p == Ensure(panel, panel.conv, panel.conv)
                s == p.reg[panel.conv]
                q == Project([p EXCEPT !.scopes[s].view.msgs = panel.shown.msgs], s)
            IN /\ panel' = Replays(q, s, panel.active)
               /\ ops' = (ops \ {o}) \cup Follower(q, s, panel.active)
       ELSE ops' = ops \ {o} /\ UNCHANGED panel
    /\ UNCHANGED <<turns, load, left>>

-----------------------------------------------------------------------------
\* Following a turn.
WithAnswer(v, t) == [v EXCEPT !.msgs = AppendOnce(@, Message("answer", t, "local"))]

\* The generation is checked before a status request and not when its answer is there.
ReplayCheck(o) ==
    /\ o.kind = "replay" /\ o.pc = "check"
    /\ LET sc == panel.scopes[o.s]
       IN ops' = (ops \ {o}) \cup (IF sc.gen # o.gen \/ sc.turn # o.turn THEN {}
                                  ELSE {[o EXCEPT !.pc = "ask"]})
    /\ UNCHANGED <<turns, panel, load, left>>

ReplayStatus(o) ==
    /\ o.kind = "replay" /\ o.pc = "ask"
    /\ LET st == turns[o.turn].state
           v == [View(o.s) EXCEPT !.st = st, !.loading = FALSE, !.act = o.turn]
           own == turns[o.turn].conv = panel.scopes[o.s].conv
           gone == ops \ {o}
       IN CASE own /\ st \in {"completed", "awaiting"} ->
                 /\ panel' = Show(panel, o.s, WithAnswer([v EXCEPT !.result = Response(o.turn)], o.turn))
                 /\ ops' = gone
            [] own /\ st = "cancelled" ->
                 panel' = Show(panel, o.s, WithAnswer(v, o.turn)) /\ ops' = gone
            [] own /\ st \in {"failed", "recovery"} -> panel' = Show(panel, o.s, v) /\ ops' = gone
            [] own /\ st \in {"running", "cancelling", "executing"} ->
                 /\ panel' = Show(panel, o.s, [v EXCEPT !.loading = TRUE])
                 /\ ops' = gone \cup {[o EXCEPT !.pc = "check"]}
            [] ~own -> panel' = Show(panel, o.s, [v EXCEPT !.st = View(o.s).st]) /\ ops' = gone
    /\ UNCHANGED <<turns, load, left>>

\* A failed request, or one attempt too many, ends a follower with an error.
ReplayFails(o) ==
    /\ o.kind = "replay" /\ o.pc = "ask" /\ RequestFails
    /\ panel' = Show(panel, o.s, [View(o.s) EXCEPT !.loading = FALSE])
    /\ ops' = ops \ {o}
    /\ UNCHANGED <<turns, load>>

-----------------------------------------------------------------------------
\* Submitting a message.
NextTurn == 1 + Cardinality({t \in Turns : turns[t].state # "none"})

\* The control layer sends a correction instead while a turn is busy or asks for approval.
Corrects == panel.key \in DOMAIN panel.reg
            /\ LET v == View(Active(panel)) IN v.loading \/ v.result.plan = "awaiting"

Submit ==
    /\ InChat /\ ~Corrects /\ ~panel.stopping /\ Spend("turns")
    /\ LET p == CopyVisible(panel)
           s == Active(p)
           v == p.scopes[s].view
           t == NextTurn
           c == p.scopes[s].conv
       IN IF v.loading \/ v.deciding \/ RecoveryPending(v)
          THEN panel' = p /\ UNCHANGED <<turns, ops>>
          ELSE /\ panel' = Show([p EXCEPT !.scopes[s].turn = 0], s,
                        [v EXCEPT !.loading = TRUE, !.st = "queued", !.act = 0, !.receipt = "none",
                                  !.msgs = Append(@, Message("user", t, "local"))])
               /\ turns' = [turns EXCEPT ![t] = [conv |-> IF c = 0 THEN t ELSE c, from |-> s,
                                                  state |-> "sent"]]
               /\ ops' = ops \cup {Op("submit", s, t, "sent")}
    /\ UNCHANGED load

\* The server stores the turn and, for a new chat, the conversation.
Enqueued(o) ==
    /\ o.kind = "submit" /\ o.pc = "sent"
    /\ turns' = [turns EXCEPT ![o.turn].state = "running"]
    /\ ops' = (ops \ {o}) \cup {[o EXCEPT !.pc = "queued"]}
    /\ UNCHANGED <<panel, load, left>>

\* The identity of the stored turn: the chat's name is asked for unless a turn is set.
TurnPersisted(o) ==
    /\ o.kind = "submit" /\ o.pc = "queued"
    /\ LET set == panel.scopes[o.s].turn # 0
       IN /\ panel' = IF set THEN panel ELSE [panel EXCEPT !.scopes[o.s].turn = o.turn]
          /\ ops' = (ops \ {o}) \cup {[o EXCEPT !.pc = IF set THEN "stream" ELSE "bind"]}
    /\ UNCHANGED <<turns, load, left>>

\* A failed status request is tolerated: the final response names the chat as well.
BindPersisted(o) ==
    /\ o.kind = "submit" /\ o.pc = "bind"
    /\ \/ LET c == turns[o.turn].conv
              p == BindScope(panel, o.s, c, o.turn)
          IN /\ panel' = [Show(p, o.s, [View(o.s) EXCEPT !.st = turns[o.turn].state])
                             EXCEPT !.known = @ \cup {c}]
             /\ UNCHANGED left
       \/ RequestFails /\ panel' = ProjectIfActive(panel, o.s)
    /\ ops' = (ops \ {o}) \cup {[o EXCEPT !.pc = "stream"]}
    /\ UNCHANGED <<turns, load>>

\* Activity and text of the turn reach the scope.
StreamEvent(o) ==
    /\ o.kind = "submit" /\ o.pc = "stream" /\ View(o.s).act # o.turn
    /\ panel' = Show(panel, o.s, [View(o.s) EXCEPT !.act = o.turn,
                                     !.st = IF @ = "queued" THEN "running" ELSE @])
    /\ UNCHANGED <<turns, load, ops, left>>

SubmitAnswered(o) ==
    /\ o.kind = "submit" /\ o.pc = "stream" /\ turns[o.turn].state \in {"completed", "awaiting"}
    /\ LET c == turns[o.turn].conv
           r == Response(o.turn)
           p == IF panel.scopes[o.s].conv # c THEN BindScope(panel, o.s, c, o.turn)
                ELSE [panel EXCEPT !.scopes[o.s].turn = o.turn]
           v == [View(o.s) EXCEPT !.result = r, !.loading = FALSE,
                    !.st = IF r.plan = "awaiting" THEN "awaiting" ELSE "completed",
                    !.msgs = Append(@, Message("answer", o.turn, "local"))]
           q == [Show(p, o.s, v) EXCEPT !.scopes[o.s].stop = FALSE, !.list = FALSE,
                                        !.known = @ \cup {c}]
       IN panel' = Reconcile(q)
    /\ ops' = ops \ {o}
    /\ UNCHANGED <<turns, load, left>>

\* A turn that ended otherwise, a refused submission or a lost connection; after a stop
\* the failure is the expected end.
SubmitFails(o) ==
    /\ o.kind = "submit"
    /\ \/ o.pc = "stream" /\ turns[o.turn].state \in {"failed", "cancelled", "recovery"}
          /\ UNCHANGED <<turns, left>> /\ ops' = ops \ {o}
       \/ o.pc = "stream" /\ RequestFails /\ UNCHANGED turns /\ ops' = ops \ {o}
       \/ o.pc = "sent" /\ RequestFails
          /\ turns' = [turns EXCEPT ![o.turn].state = "refused"]
          /\ ops' = (ops \ {o}) \cup {Op("account", 0, 0, "ask")}
    /\ LET v == [View(o.s) EXCEPT !.result = NoResult, !.loading = FALSE,
                                   !.st = IF @ = "recovery" THEN @ ELSE "failed"]
           p == Show(panel, o.s, v)
           q == [p EXCEPT !.scopes[o.s].stop = FALSE, !.scopes[o.s].view.st = "cancelled"]
       IN panel' = Reconcile(IF panel.scopes[o.s].stop THEN ProjectScope(q, o.s) ELSE p)
    /\ UNCHANGED load

-----------------------------------------------------------------------------
\* Corrections and stops need the turn's identity, for which they wait a while.
Waiting(o) == o.pc = "bind" /\ panel.scopes[o.s].turn = 0

Identified(o) ==
    /\ o.kind \in {"redirect", "stop"} /\ o.pc = "bind" /\ panel.scopes[o.s].turn # 0
    /\ ops' = (ops \ {o}) \cup {[o EXCEPT !.pc = "post", !.turn = panel.scopes[o.s].turn]}
    /\ UNCHANGED <<turns, panel, load, left>>

Redirect ==
    /\ InChat /\ Corrects /\ ~panel.stopping /\ Spend("controls")
    /\ LET s == Active(panel)
           asked == View(s).result.plan = "awaiting"
           t == panel.scopes[s].turn
           o == Op("redirect", s, t, IF t = 0 THEN "bind" ELSE "post")
       IN /\ t # 0 \/ View(s).loading
          /\ ops' = ops \cup {[o EXCEPT !.gen = IF asked THEN 1 ELSE 0]}
    /\ UNCHANGED <<turns, panel, load>>

\* An accepted correction; one of a turn that asked for approval is followed by polling.
Redirected(o) ==
    /\ o.kind = "redirect" /\ o.pc = "post" /\ turns[o.turn].state \in {"running", "awaiting"}
    /\ turns' = [turns EXCEPT ![o.turn].state = "running"]
    /\ LET v == [View(o.s) EXCEPT !.msgs = AppendOnce(@, Message("correction", o.turn, "server")),
                                   !.st = "running"]
           p == ProjectScope([panel EXCEPT !.scopes[o.s].view = v], o.s)
           w == [v EXCEPT !.result = NoResult, !.receipt = "none", !.loading = TRUE, !.act = 0]
       IN IF o.gen = 1
          THEN /\ panel' = ProjectScope([p EXCEPT !.scopes[o.s].view = w], o.s)
               /\ ops' = (ops \ {o}) \cup {Op("follow", o.s, 0, "poll")}
          ELSE panel' = p /\ ops' = ops \ {o}
    /\ UNCHANGED <<load, left>>

\* A correction the server refuses, or that never finds a turn, leaves a notice.
RedirectRefused(o) ==
    /\ o.kind = "redirect"
    /\ \/ o.pc = "post" /\ turns[o.turn].state \notin {"running", "awaiting"} /\ UNCHANGED left
          /\ panel' = ProjectScope(panel, o.s)
       \/ Waiting(o) /\ ~View(o.s).loading /\ UNCHANGED <<left, panel>>
       \/ RequestFails /\ UNCHANGED panel
    /\ ops' = ops \ {o}
    /\ UNCHANGED <<turns, load>>

\* The poll asks for the turn the scope has now.
FollowStatus(o) ==
    /\ o.kind = "follow"
    /\ LET t == panel.scopes[o.s].turn
           st == IF t = 0 THEN "lost" ELSE turns[t].state
           v == [View(o.s) EXCEPT !.st = IF t = 0 THEN @ ELSE st, !.loading = FALSE]
           w == CASE st \in {"completed", "awaiting"} ->
                       [WithAnswer(v, t) EXCEPT !.result = Response(t), !.receipt = "none"]
                  [] st = "cancelled" -> WithAnswer(v, t)
                  [] OTHER -> v
       IN IF st \in {"running", "cancelling", "executing"}
          THEN /\ View(o.s).st # st
               /\ panel' = [panel EXCEPT !.scopes[o.s].view.st = st]
               /\ UNCHANGED ops
          ELSE /\ panel' = ProjectScope([panel EXCEPT !.scopes[o.s].view = w,
                                                      !.scopes[o.s].stop = FALSE], o.s)
               /\ ops' = ops \ {o}
    /\ UNCHANGED <<turns, load, left>>

FollowFails(o) ==
    /\ o.kind = "follow" /\ RequestFails
    /\ panel' = ProjectScope([panel EXCEPT !.scopes[o.s].view.loading = FALSE,
                                           !.scopes[o.s].stop = FALSE], o.s)
    /\ ops' = ops \ {o}
    /\ UNCHANGED <<turns, load>>

Stop ==
    /\ InChat /\ panel.key \in DOMAIN panel.reg /\ ~panel.stopping /\ Spend("controls")
    /\ LET s == Active(panel)
           t == panel.scopes[s].turn
       IN /\ View(s).loading
          /\ panel' = [panel EXCEPT !.stopping = TRUE, !.scopes[s].stop = TRUE]
          /\ ops' = ops \cup {Op("stop", s, t, IF t = 0 THEN "bind" ELSE "post")}
    /\ UNCHANGED <<turns, load>>

\* The server accepts the request; a turn that no worker holds ends at once.
CancelPosted(o) ==
    /\ o.kind = "stop" /\ o.pc = "post" /\ turns[o.turn].state \in Followed \ {"recovery"}
    /\ \E st \in {"cancelling", "cancelled"} : turns' = [turns EXCEPT ![o.turn].state = st]
    /\ ops' = (ops \ {o}) \cup {[o EXCEPT !.pc = "await"]}
    /\ UNCHANGED <<panel, load, left>>

\* The turn was cancelled, or is still to be when the panel stops waiting.
Stopped(o) ==
    /\ o.kind = "stop" /\ o.pc = "await" /\ turns[o.turn].state \in {"cancelling", "cancelled"}
    /\ LET st == turns[o.turn].state
           over == st = "cancelled"
           v == [View(o.s) EXCEPT !.st = st, !.loading = @ /\ ~over]
       IN panel' = ProjectScope([panel EXCEPT !.stopping = FALSE,
                        !.scopes[o.s].stop = @ /\ ~over,
                        !.scopes[o.s].view = IF over THEN WithAnswer(v, o.turn) ELSE v], o.s)
    /\ ops' = ops \ {o}
    /\ UNCHANGED <<turns, load, left>>

\* A turn that ended first, a refused request or no turn to stop.
StopFails(o) ==
    /\ o.kind = "stop"
    /\ \/ o.pc = "post" /\ turns[o.turn].state \in Ended \cup {"recovery"} /\ UNCHANGED left
       \/ o.pc = "await" /\ turns[o.turn].state \notin {"cancelling", "cancelled"} /\ UNCHANGED left
       \/ Waiting(o) /\ ~View(o.s).loading /\ UNCHANGED left
       \/ RequestFails
    /\ panel' = [panel EXCEPT !.stopping = FALSE, !.scopes[o.s].stop = FALSE]
    /\ ops' = ops \ {o}
    /\ UNCHANGED <<turns, load>>

-----------------------------------------------------------------------------
\* Decisions on a plan.
Decide(d) ==
    /\ InChat /\ panel.shown.result.plan = "awaiting" /\ Spend("controls")
    /\ LET p == CopyVisible(panel)
           s == Active(p)
           v == p.scopes[s].view
       IN IF v.loading \/ v.deciding \/ RecoveryPending(v)
          THEN panel' = p /\ UNCHANGED ops
          ELSE /\ panel' = Show(p, s, [v EXCEPT !.deciding = TRUE])
               /\ ops' = ops \cup {Op(d, s, v.result.turn, "post")}
    /\ UNCHANGED <<turns, load>>

Decided(o) ==
    /\ o.kind \in {"approve", "reject"} /\ o.pc = "post" /\ turns[o.turn].state = "awaiting"
    /\ LET v == [View(o.s) EXCEPT !.deciding = FALSE]
       IN IF o.kind = "approve"
          THEN /\ turns' = [turns EXCEPT ![o.turn].state = "executing"]
               /\ panel' = Show(panel, o.s, [v EXCEPT !.receipt = "accepted", !.st = "running",
                                                      !.result.plan = "authorized"])
               /\ ops' = (ops \ {o}) \cup {[o EXCEPT !.pc = "poll"]}
          ELSE /\ turns' = [turns EXCEPT ![o.turn].state = "completed"]
               /\ panel' = Reconcile(Show(panel, o.s,
                     [v EXCEPT !.receipt = "final", !.st = "completed",
                               !.result = [turn |-> o.turn, plan |-> "none"],
                               !.msgs = AppendUnlessLast(@, Message("answer", o.turn, "local"))]))
               /\ ops' = ops \ {o}
    /\ UNCHANGED <<load, left>>

\* A plan that is no longer open for a decision, or a failed request.
DecisionFails(o) ==
    /\ o.kind \in {"approve", "reject"} /\ o.pc = "post"
    /\ \/ turns[o.turn].state # "awaiting" /\ UNCHANGED left
       \/ RequestFails
    /\ panel' = Reconcile(Show(panel, o.s, [View(o.s) EXCEPT !.deciding = FALSE, !.receipt =
                                IF turns[o.turn].state # "awaiting" THEN @ ELSE "none"]))
    /\ ops' = ops \ {o}
    /\ UNCHANGED <<turns, load>>

\* What the status of a plan makes of the scope.
PlanStatus(v, t) ==
    LET st == turns[t].state
    IN CASE st = "completed" ->
              [v EXCEPT !.st = st, !.receipt = "final", !.result = Response(t),
                        !.msgs = AppendUnlessLast(@, Message("answer", t, "local"))]
         [] st = "recovery" -> [v EXCEPT !.st = st, !.receipt = "recovery"]
         [] st \in {"failed", "cancelled"} ->
              [v EXCEPT !.st = st, !.receipt = "final", !.result.plan = "none"]
         [] OTHER -> [v EXCEPT !.st = st]

\* An approved plan is polled for as long as the scope shows it as executing.
PlanPolled(o) ==
    /\ o.kind = "approve" /\ o.pc = "poll"
    /\ LET v == PlanStatus(View(o.s), o.turn)
           over == ~ExecutionPending(View(o.s)) \/ turns[o.turn].state \in Ended \cup {"recovery"}
           w == IF ExecutionPending(View(o.s)) THEN v ELSE View(o.s)
       IN IF over THEN panel' = Reconcile(Show(panel, o.s, w)) /\ ops' = ops \ {o}
          ELSE v # View(o.s) /\ panel' = Show(panel, o.s, v) /\ UNCHANGED ops
    /\ UNCHANGED <<turns, load, left>>

\* Retrying a turn in recovery only reads its status once.
Retry ==
    /\ InChat /\ Spend("controls")
    /\ LET p == CopyVisible(panel)
           s == Active(p)
           v == p.scopes[s].view
       IN /\ ~v.loading /\ ~v.deciding /\ RecoveryPending(v) /\ v.result.turn # 0
          /\ panel' = Show(p, s, [v EXCEPT !.deciding = TRUE])
          /\ ops' = ops \cup {Op("retry", s, v.result.turn, "post")}
    /\ UNCHANGED <<turns, load>>

Retried(o) ==
    /\ o.kind = "retry"
    /\ \/ UNCHANGED left
          /\ panel' = Show(panel, o.s, [PlanStatus(View(o.s), o.turn) EXCEPT !.deciding = FALSE])
       \/ RequestFails /\ panel' = Show(panel, o.s, [View(o.s) EXCEPT !.deciding = FALSE])
    /\ ops' = ops \ {o}
    /\ UNCHANGED <<turns, load>>

-----------------------------------------------------------------------------
\* The server works on its turns.
ServerStep(t) ==
    /\ \/ /\ turns[t].state = "running"
          /\ \E st \in {"completed", "awaiting", "failed"} : turns' = [turns EXCEPT ![t].state = st]
       \/ /\ turns[t].state = "executing"
          /\ \E st \in {"completed", "recovery"} : turns' = [turns EXCEPT ![t].state = st]
       \/ /\ turns[t].state = "cancelling"
          /\ \E st \in {"cancelled", "completed"} : turns' = [turns EXCEPT ![t].state = st]
    /\ UNCHANGED <<panel, load, ops, left>>

Step(o) ==
    \/ AccountReady(o) \/ AccountLocked(o) \/ RestoreLoaded(o)
    \/ ReplayCheck(o) \/ ReplayStatus(o) \/ ReplayFails(o)
    \/ Enqueued(o) \/ TurnPersisted(o) \/ BindPersisted(o) \/ StreamEvent(o)
    \/ SubmitAnswered(o) \/ SubmitFails(o)
    \/ Identified(o) \/ Redirected(o) \/ RedirectRefused(o) \/ FollowStatus(o) \/ FollowFails(o)
    \/ CancelPosted(o) \/ Stopped(o) \/ StopFails(o)
    \/ Decided(o) \/ DecisionFails(o) \/ PlanPolled(o) \/ Retried(o)

Next ==
    \/ Open \/ Close \/ PollAccount
    \/ ShowHistory \/ NewConversation \/ \E c \in Turns : SelectConversation(c)
    \/ HistoryRead \/ HistoryLoaded \/ HistoryFailed
    \/ Submit \/ Redirect \/ Stop \/ Retry \/ \E d \in {"approve", "reject"} : Decide(d)
    \/ \E o \in ops : Step(o)
    \/ \E t \in Turns : ServerStep(t)

Spec == Init /\ [][Next]_vars

-----------------------------------------------------------------------------
\* A turn of the open chat, or one that was submitted from its scope before it had a name.
Belongs(t) ==
    \/ turns[t].conv = panel.key
    \/ panel.key \in DOMAIN panel.reg /\ turns[t].from = Active(panel)

\* Everything a chat shows when it can be answered, its messages, activity and the plan
\* to approve, belongs to the chat a new message or decision goes to, whatever requests
\* of other chats end meanwhile.  The one exception is a chat put back by a failed
\* history request after it got its name: the panel then holds a key nobody has.
ShownBelongs ==
    InChat /\ ~panel.astray =>
        /\ \A i \in DOMAIN panel.shown.msgs : Belongs(panel.shown.msgs[i].turn)
        /\ panel.shown.act # 0 => Belongs(panel.shown.act)
        /\ panel.shown.result.turn # 0 => Belongs(panel.shown.result.turn)
=============================================================================
