----------------------------- MODULE LiveStream -----------------------------
(***************************************************************************)
(* The live channel of one turn: the provider's event loop in the worker    *)
(* (codex_streaming.py), the independent store of live rows with its own    *)
(* cursor and advisory lock (turn_live_event.py), the history of the turn   *)
(* under the turn row lock (turn_event.py), and the browser that drains the *)
(* rows page by page while it polls the status (assistant_live_stream_      *)
(* client.js, assistant_answer_stream_presenter.js).                        *)
(*                                                                          *)
(* Every cursor of the database is a REPEATABLE READ transaction, so what a *)
(* cursor reads is what was committed at its first statement.  The first    *)
(* statement of a live cursor is the one that waits for the advisory lock.  *)
(*                                                                          *)
(* A piece of an answer is a pair of the attempt that produced it and its   *)
(* place; wording and encoding are left out.  Lengths are counted in pieces.*)
(***************************************************************************)
EXTENDS Naturals, Sequences, FiniteSets, FiniteSetsExt

CONSTANTS
    Workers,      \* the attempts on the turn, in no particular order
    Workloads,    \* the claims the turn may take, whether a browser watches it and
                  \* whether the model offers readable summaries
    Pieces,       \* pieces of every attempt's final answer
    MaxLive,      \* _MAX_LIVE_EVENTS
    MaxAnswer,    \* _MAX_ANSWER_CHARS of the store and of the presenter
    PageSize,     \* _MAX_LIVE_PAGE
    MaxPages,     \* pages one drain reads before it gives up
    MaxFailures,  \* MAX_TRANSIENT_POLL_FAILURES
    MaxPolls      \* MAX_POLL_ATTEMPTS

VARIABLES
    turn,      \* the committed turn row
    hist,      \* the committed historical events, by sequence
    rows,      \* the committed live rows
    rowLock,   \* who holds the turn row FOR UPDATE
    liveLock,  \* who holds the advisory lock of the turn
    work,      \* what every attempt is doing
    cursor,    \* the live cursor every writer has open
    br         \* the browser

vars == <<turn, hist, rows, rowLock, liveLock, work, cursor, br>>

None == "none"

(* Nobody is not an attempt, and the limits are numbers.                    *)
ASSUME StreamAssumption ==
    None \notin Workers /\ Pieces \in Nat /\ MaxLive \in Nat /\ PageSize \in Nat

Cron == "cron"

Writers == Workers \cup {Cron}

NoCursor == [pc |-> "closed", last |-> 0, answers |-> 0, state |-> None, item |-> None]

(* A live row to write: channel "activity" with the kind of the event,      *)
(* "answer" or "reasoning" with the piece.                                  *)
Item(channel, kind, piece) == [channel |-> channel, kind |-> kind, piece |-> piece]

AssertingKinds == {"started", "completed", "failed"}

StreamOff == [on |-> FALSE, summary |-> FALSE, seen |-> 0, due |-> 0, sent |-> 0]

StreamOn == [StreamOff EXCEPT !.on = TRUE, !.summary = TRUE]

NoWork == [pc |-> "idle", base |-> 0, staged |-> <<>>, s |-> StreamOff]

Init ==
    /\ \E load \in Workloads :
         /\ turn = [state |-> "queued", owner |-> None, ver |-> 0, claims |-> 0,
                    max |-> load.attempts, summaries |-> load.summaries, answer |-> None]
         /\ br = [pc |-> IF load.watched THEN "drain" ELSE "away", after |-> 0, at |-> 0,
                  page |-> 1, failures |-> 0, polls |-> 1, final |-> FALSE, redone |-> FALSE,
                  got |-> <<>>, displayed |-> 0, shown |-> None]
    /\ hist = <<>>
    /\ rows = {}
    /\ rowLock = None
    /\ liveLock = None
    /\ work = [w \in Workers |-> NoWork]
    /\ cursor = [w \in Writers |-> NoCursor]

(***************************************************************************)
(* The independent store                                                    *)
(***************************************************************************)

LastSequence(rs) == IF rs = {} THEN 0 ELSE Max({r.seq : r \in rs})

AnswerRows(rs) == {r \in rs : r.channel = "answer"}

(* _live_cursor: the snapshot is taken by the statement that asks for the   *)
(* lock, before the lock is granted.                                        *)
Opened(item) ==
    [pc |-> "waits", last |-> LastSequence(rows), answers |-> Cardinality(AnswerRows(rows)),
     state |-> turn.state, item |-> item]

Idle(w) == cursor[w].pc = "closed"

LiveLock(w) ==
    /\ cursor[w].pc = "waits"
    /\ liveLock = None
    /\ liveLock' = w
    /\ cursor' = [cursor EXCEPT ![w].pc = "holds"]
    /\ UNCHANGED <<turn, hist, rows, rowLock, work, br>>

(* The rows one append adds: the first answer delta also announces that the *)
(* answer has started.                                                      *)
NewRows(c) ==
    LET n == c.last + 1
        row(i, item) == [seq |-> i, channel |-> item.channel, kind |-> item.kind,
                         piece |-> item.piece]
    IN  IF c.item.channel = "answer" /\ c.answers = 0
          THEN {row(n, Item("activity", "answer.started", None)), row(n + 1, c.item)}
          ELSE {row(n, c.item)}

(* The refusals of _append_activity, _append_answer and                     *)
(* _append_reasoning_summary, and unique(turn_ref_id, sequence).            *)
Refused(c) ==
    \/ \E r \in NewRows(c) : r.seq > MaxLive
    \/ c.item.channel # "activity" /\ c.state # "running"
    \/ c.item.channel = "answer" /\ c.answers >= MaxAnswer
    \/ \E r \in NewRows(c) : \E old \in rows : old.seq = r.seq

(* As if a refused delta were skipped and the next one were sent.           *)
AfterAppendGoesOn(s, channel, ok) ==
    IF channel = "answer" THEN [s EXCEPT !.sent = @ + 1] ELSE s

(* What the worker does with a stream whose append answered ok: a refused   *)
(* answer delta ends the provisional answer of this decision and a refused  *)
(* summary ends the summaries; an activity is fail-soft.                    *)
AfterAppend(s, channel, ok) ==
    CASE channel = "answer" /\ ok -> [s EXCEPT !.sent = @ + 1]
      [] channel = "answer" /\ ~ok -> [s EXCEPT !.on = FALSE]
      [] channel = "reasoning" /\ ~ok -> [s EXCEPT !.summary = FALSE]
      [] OTHER -> s

(* The append and the commit of the live cursor.  The optional append may   *)
(* also fail for a reason of its own.                                       *)
LiveAppend(w) ==
    /\ cursor[w].pc = "holds"
    /\ \E ok \in IF Refused(cursor[w]) THEN {FALSE} ELSE BOOLEAN :
         /\ rows' = IF ok THEN rows \cup NewRows(cursor[w]) ELSE rows
         /\ work' = IF w \in Workers
                      THEN [work EXCEPT ![w].s = AfterAppend(@, cursor[w].item.channel, ok)]
                      ELSE work
    /\ liveLock' = None
    /\ cursor' = [cursor EXCEPT ![w] = NoCursor]
    /\ UNCHANGED <<turn, hist, rowLock, br>>

(***************************************************************************)
(* The history of the turn                                                  *)
(***************************************************************************)

(* The projection of a committed event that asserts a state, run after the  *)
(* commit by the thread that committed it.                                  *)
Projected(w, type) ==
    IF type \in AssertingKinds
      THEN [cursor EXCEPT ![w] = Opened(Item("activity", type, None))]
      ELSE cursor

(* _append_event and append_optional_for_turn in a transaction of its own:  *)
(* the event is committed under the row lock and its public projection is   *)
(* scheduled after that commit, or it fails and nothing is projected.       *)
AppendEvent(w, type) ==
    \/ /\ rowLock = None
       /\ hist' = Append(hist, type)
       /\ turn' = [turn EXCEPT !.ver = @ + 1]
       /\ cursor' = Projected(w, type)
    \/ UNCHANGED <<hist, turn, cursor>>

(* append_for_turn inside the worker's transaction: the row is locked until *)
(* the transaction ends, and locking a row that changed after the snapshot  *)
(* of the transaction fails, which telemetry ignores.                       *)
StageEvent(w, type) ==
    /\ rowLock \in {None, w}
    /\ IF turn.ver = work[w].base
         THEN /\ rowLock' = w
              /\ work' = [work EXCEPT ![w].staged = Append(@, type), ![w].pc = "provider",
                                      ![w].s = StreamOn]
         ELSE /\ work' = [work EXCEPT ![w].pc = "provider", ![w].s = StreamOn]
              /\ UNCHANGED rowLock

(***************************************************************************)
(* The worker                                                               *)
(***************************************************************************)

Claim(w) ==
    /\ turn.state = "queued" /\ rowLock = None /\ turn.claims < turn.max
    /\ work[w].pc = "idle"
    /\ turn' = [turn EXCEPT !.state = "running", !.owner = w, !.ver = @ + 1, !.claims = @ + 1]
    /\ work' = [work EXCEPT ![w].pc = "claimed"]
    /\ UNCHANGED <<hist, rows, rowLock, liveLock, cursor, br>>

AnnounceStart(w) ==
    /\ work[w].pc = "claimed"
    /\ AppendEvent(w, "started")
    /\ work' = [work EXCEPT ![w].pc = "execute"]
    /\ UNCHANGED <<rows, rowLock, liveLock, br>>

(* _execute_claimed_turn opens the transaction of the turn.                 *)
Execute(w) ==
    /\ work[w].pc = "execute" /\ Idle(w)
    /\ IF turn.state = "running" /\ turn.owner = w
         THEN work' = [work EXCEPT ![w].pc = "prepare", ![w].base = turn.ver]
         ELSE work' = [work EXCEPT ![w].pc = "ended"]
    /\ UNCHANGED <<turn, hist, rows, rowLock, liveLock, cursor, br>>

(* A provisional event is shown before it is staged.                        *)
ShowReasoning(w) ==
    /\ work[w].pc = "prepare" /\ Idle(w)
    /\ cursor' = [cursor EXCEPT ![w] = Opened(Item("activity", "reasoning.started", None))]
    /\ work' = [work EXCEPT ![w].pc = "stage"]
    /\ UNCHANGED <<turn, hist, rows, rowLock, liveLock, br>>

StageReasoning(w) ==
    /\ work[w].pc = "stage" /\ Idle(w)
    /\ StageEvent(w, "reasoning.started")
    /\ UNCHANGED <<turn, hist, rows, liveLock, cursor, br>>

InProvider(w) ==
    /\ work[w].pc = "provider" /\ Idle(w)
    /\ work[w].s.on => work[w].s.sent = work[w].s.due

(* StructuredFinalAnswerDeltaExtractor.feed: one more piece is decoded; it  *)
(* is kept back until the batch is long enough or the string is closed.  A  *)
(* broken document and text after the closing quote raise.                  *)
Fed(s) ==
    IF s.seen = Pieces THEN {[s EXCEPT !.on = FALSE]}
    ELSE {[s EXCEPT !.on = FALSE, !.seen = @ + 1]} \cup
         {[s EXCEPT !.seen = @ + 1, !.due = due] :
            due \in IF s.seen + 1 = Pieces THEN {Pieces} ELSE {s.due, s.seen + 1}}

(* item/agentMessage/delta: a stream that is off ignores the text; a delta  *)
(* the extractor refuses or that belongs to a second message item turns it  *)
(* off, and the decision goes on.                                           *)
Delta(w) ==
    LET s == work[w].s
    IN  /\ InProvider(w)
        /\ s.on \/ s.seen < Pieces
        /\ \E next \in IF s.on THEN Fed(s) ELSE {[s EXCEPT !.seen = @ + 1]} :
             work' = [work EXCEPT ![w].s = next]
        /\ UNCHANGED <<turn, hist, rows, rowLock, liveLock, cursor, br>>

(* _emit_answer_delta for the next chunk of the batch.                      *)
EmitDelta(w) ==
    LET s == work[w].s
    IN  /\ work[w].pc = "provider" /\ Idle(w)
        /\ s.on /\ s.sent < s.due
        /\ cursor' = [cursor EXCEPT ![w] = Opened(Item("answer", None, <<w, s.sent + 1>>))]
        /\ UNCHANGED <<turn, hist, rows, rowLock, liveLock, work, br>>

(* item/reasoning/summaryTextDelta, before the first piece of the answer.   *)
EmitSummary(w) ==
    /\ InProvider(w)
    /\ turn.summaries /\ work[w].s.summary /\ work[w].s.seen = 0
    /\ ~\E r \in rows : r.channel = "reasoning" /\ r.piece[1] = w
    /\ cursor' = [cursor EXCEPT ![w] = Opened(Item("reasoning", None, <<w, 0>>))]
    /\ UNCHANGED <<turn, hist, rows, rowLock, liveLock, work, br>>

(* turn/completed: the completed message is the answer, whatever was shown. *)
TurnCompleted(w) ==
    /\ InProvider(w)
    /\ work[w].s.seen = Pieces
    /\ work' = [work EXCEPT ![w].pc = "decided", ![w].s = StreamOff]
    /\ UNCHANGED <<turn, hist, rows, rowLock, liveLock, cursor, br>>

(* The provider fails, asks the host for something, or the turn is cancelled.*)
ProviderFails(w) ==
    /\ InProvider(w)
    /\ work' = [work EXCEPT ![w].pc = "failing", ![w].staged = <<>>, ![w].s = StreamOff]
    /\ rowLock' = IF rowLock = w THEN None ELSE rowLock
    /\ UNCHANGED <<turn, hist, rows, liveLock, cursor, br>>

(* _stage_completed_turn and the commit; the transaction cannot be          *)
(* committed when the row changed after its snapshot.                       *)
Commit(w) ==
    /\ work[w].pc = "decided" /\ rowLock \in {None, w}
    /\ rowLock' = None
    /\ IF turn.ver = work[w].base
         THEN /\ turn' = [turn EXCEPT !.state = "completed", !.owner = None, !.ver = @ + 1,
                                      !.answer = w]
              /\ hist' = hist \o work[w].staged
              /\ work' = [work EXCEPT ![w].pc = "announce", ![w].staged = <<>>]
         ELSE /\ work' = [work EXCEPT ![w].pc = "failing", ![w].staged = <<>>]
              /\ UNCHANGED <<turn, hist>>
    /\ UNCHANGED <<rows, liveLock, cursor, br>>

AnnounceEnd(w) ==
    /\ work[w].pc = "announce"
    /\ AppendEvent(w, "completed")
    /\ work' = [work EXCEPT ![w].pc = "ended"]
    /\ UNCHANGED <<rows, rowLock, liveLock, br>>

(* _fail_claimed_turn, in a transaction of its own.                         *)
Fail(w) ==
    /\ work[w].pc = "failing" /\ rowLock = None
    /\ IF turn.owner # w
         THEN work' = [work EXCEPT ![w].pc = "ended"] /\ UNCHANGED turn
         ELSE IF turn.claims < turn.max
           THEN /\ turn' = [turn EXCEPT !.state = "queued", !.owner = None, !.ver = @ + 1]
                /\ work' = [work EXCEPT ![w].pc = "ended"]
           ELSE /\ turn' = [turn EXCEPT !.state = "failed", !.owner = None, !.ver = @ + 1]
                /\ work' = [work EXCEPT ![w].pc = "announce.failed"]
    /\ UNCHANGED <<hist, rows, rowLock, liveLock, cursor, br>>

AnnounceFailure(w) ==
    /\ work[w].pc = "announce.failed"
    /\ AppendEvent(w, "failed")
    /\ work' = [work EXCEPT ![w].pc = "ended"]
    /\ UNCHANGED <<rows, rowLock, liveLock, br>>

(* The worker dies: its transactions are rolled back and its locks freed.   *)
Crash(w) ==
    /\ work[w].pc \notin {"idle", "ended"}
    /\ work' = [work EXCEPT ![w] = [NoWork EXCEPT !.pc = "ended"]]
    /\ cursor' = [cursor EXCEPT ![w] = NoCursor]
    /\ rowLock' = IF rowLock = w THEN None ELSE rowLock
    /\ liveLock' = IF liveLock = w THEN None ELSE liveLock
    /\ UNCHANGED <<turn, hist, rows, br>>

(* _recover_stale_turns: an expired lease on a row nobody has locked.  The  *)
(* event is part of the transaction that changes the state.                 *)
Recover ==
    /\ turn.state = "running" /\ rowLock = None /\ Idle(Cron)
    /\ IF turn.claims < turn.max
         THEN /\ turn' = [turn EXCEPT !.state = "queued", !.owner = None, !.ver = @ + 1]
              /\ hist' = Append(hist, "requeued")
              /\ UNCHANGED cursor
         ELSE /\ turn' = [turn EXCEPT !.state = "failed", !.owner = None, !.ver = @ + 1]
              /\ hist' = Append(hist, "failed")
              /\ cursor' = Projected(Cron, "failed")
    /\ UNCHANGED <<rows, rowLock, liveLock, work, br>>

(***************************************************************************)
(* The browser                                                              *)
(***************************************************************************)

(* live_for_current_user: the first rows after a cursor.                    *)
After(n) == {r \in rows : r.seq > n}

Rank(r, rs) == Cardinality({q \in rs : q.seq <= r.seq})

Page(n) == {r \in After(n) : Rank(r, After(n)) <= PageSize}

HasMore(n) == Cardinality(After(n)) > PageSize

(* The pieces of the answer among some rows, in the order of their sequence.*)
TextOf(rs) ==
    LET answers == AnswerRows(rs)
        nth(i) == CHOOSE r \in answers : Rank(r, answers) = i
    IN  [i \in 1..Cardinality(answers) |-> nth(i).piece]

(* A failed call of one poll: the next poll starts again at the cursor of   *)
(* the last drain that ended, whatever this drain has delivered.            *)
Failed ==
    IF br.failures < MaxFailures /\ br.polls < MaxPolls
      THEN [br EXCEPT !.failures = @ + 1, !.polls = @ + 1, !.pc = "drain", !.at = br.after,
                      !.page = 1, !.final = FALSE, !.redone = br.redone \/ br.at # br.after]
      ELSE [br EXCEPT !.pc = "error"]

CallFails ==
    /\ br.pc \in {"drain", "status"}
    /\ br' = Failed
    /\ UNCHANGED <<turn, hist, rows, rowLock, liveLock, work, cursor>>

(* drainLive: one page.  The presenter refuses text past its limit.         *)
Drain ==
    LET page == Page(br.at)
        got == br.got \o TextOf(page)
        at == IF page = {} THEN br.at ELSE LastSequence(page)
    IN  /\ br.pc = "drain"
        /\ br' = IF Len(got) > MaxAnswer THEN [br EXCEPT !.pc = "error"]
                 ELSE IF ~HasMore(br.at)
                   THEN [br EXCEPT !.got = got, !.at = at, !.after = at, !.page = 1,
                                   !.pc = IF br.final THEN "reconcile" ELSE "status"]
                 ELSE IF br.page < MaxPages
                   THEN [br EXCEPT !.got = got, !.at = at, !.page = @ + 1]
                   ELSE [br EXCEPT !.got = got, !.pc = "error"]
        /\ UNCHANGED <<turn, hist, rows, rowLock, liveLock, work, cursor>>

(* As if the response of a completed turn were used at once.                *)
AfterStatusAtOnce(b, state) ==
    IF state = "completed" THEN [b EXCEPT !.pc = "reconcile"]
    ELSE [b EXCEPT !.pc = IF b.polls < MaxPolls THEN "drain" ELSE "error", !.polls = @ + 1]

(* What a status answer makes of the poll: a completed turn is drained once *)
(* more before its response is used.                                        *)
AfterStatus(b, state) ==
    CASE state = "completed" -> [b EXCEPT !.pc = "drain", !.final = TRUE, !.failures = 0]
      [] state = "failed" -> [b EXCEPT !.pc = "error"]
      [] OTHER -> IF b.polls < MaxPolls
                    THEN [b EXCEPT !.pc = "drain", !.polls = @ + 1, !.failures = 0]
                    ELSE [b EXCEPT !.pc = "error"]

PollStatus ==
    /\ br.pc = "status"
    /\ br' = AfterStatus(br, turn.state)
    /\ UNCHANGED <<turn, hist, rows, rowLock, liveLock, work, cursor>>

(* The presenter writes the next slice of what it has received.             *)
Present ==
    /\ br.pc \notin {"away", "error", "shown"} /\ br.displayed < Len(br.got)
    /\ br' = [br EXCEPT !.displayed = Len(br.got)]
    /\ UNCHANGED <<turn, hist, rows, rowLock, liveLock, work, cursor>>

Answer(w) == [i \in 1..Pieces |-> <<w, i>>]

(* reconcile waits for the slices only when the text received is the answer;*)
(* the message is the answer of the response in every case.                 *)
Reconcile ==
    /\ br.pc = "reconcile"
    /\ br.got = Answer(turn.answer) => br.displayed = Len(br.got)
    /\ br' = [br EXCEPT !.pc = "shown", !.shown = turn.answer]
    /\ UNCHANGED <<turn, hist, rows, rowLock, liveLock, work, cursor>>

Next ==
    \/ \E w \in Writers : LiveLock(w) \/ LiveAppend(w)
    \/ \E w \in Workers :
         \/ Claim(w) \/ AnnounceStart(w) \/ Execute(w) \/ ShowReasoning(w) \/ StageReasoning(w)
         \/ Delta(w) \/ EmitDelta(w) \/ EmitSummary(w) \/ TurnCompleted(w) \/ ProviderFails(w)
         \/ Commit(w) \/ AnnounceEnd(w) \/ Fail(w) \/ AnnounceFailure(w) \/ Crash(w)
    \/ Recover
    \/ CallFails \/ Drain \/ PollStatus \/ Present \/ Reconcile

Spec == Init /\ [][Next]_vars

(***************************************************************************)
(* Properties                                                               *)
(***************************************************************************)

(* The text an attempt has stored is a prefix of its answer: a delta that   *)
(* was refused, lost to a used sequence or cut off by a limit never leaves  *)
(* a hole with later text behind it.  Whoever writes them, the rows of a    *)
(* turn are numbered without a gap and within the limit.                    *)
StreamIsPrefix ==
    /\ {r.seq : r \in rows} = 1..Cardinality(rows) /\ Cardinality(rows) <= MaxLive
    /\ \A w \in Workers :
         LET mine == {r \in AnswerRows(rows) : r.piece[1] = w}
         IN  /\ {r.piece[2] : r \in mine} = 1..Cardinality(mine)
             /\ \A r, q \in mine : r.seq < q.seq => r.piece[2] < q.piece[2]

(* A live row that asserts a state of the turn is only ever seen after the  *)
(* historical event was committed, and then the turn has that state: a      *)
(* projection never runs ahead of the transaction it speaks for.            *)
CommittedOnly ==
    \A r \in rows :
      r.kind \in AssertingKinds =>
        /\ \E i \in 1..Len(hist) : hist[i] = r.kind
        /\ r.kind # "started" => turn.state = r.kind

(* What the table of live rows says, an attempt's text and the turn's       *)
(* state, is true whatever interleaves.                                     *)
LiveRowsTrue == StreamIsPrefix /\ CommittedOnly

(* The browser receives every row once and in order as long as no drain is  *)
(* cut short, shows the answer of the attempt that completed the turn, and  *)
(* by then has received everything that attempt had streamed.               *)
BrowserShowsTurn ==
    /\ ~br.redone /\ br.pc # "error" => br.got = TextOf({r \in rows : r.seq <= br.at})
    /\ br.pc = "shown" =>
         /\ turn.state = "completed" /\ br.shown = turn.answer
         /\ \A r \in AnswerRows(rows) :
              r.piece[1] = turn.answer => \E i \in 1..Len(br.got) : br.got[i] = r.piece

=============================================================================
