------------------------- MODULE CodexSessionProofs -------------------------
(***************************************************************************)
(* Proofs about CodexSession, for any load, number of restarts, timeouts,  *)
(* plan steps and tool calls.                                              *)
(*                                                                         *)
(* A decision is current because the pipe keeps its order.  Requests are   *)
(* answered one after the other, so an engine that reads the answer to its *)
(* last request has no other request under way (IdInv).  From the accepted *)
(* turn/start to the end of the turn, the last message of the turn, read,  *)
(* kept or still in the pipe, is about all that the provider has told      *)
(* (Speaks), and nothing is told after the turn completed (Over).          *)
(***************************************************************************)
EXTENDS CodexSession, FiniteSetTheorems, TLAPS

---------------------------------------------------------------------------
(* The types. *)

Pcs == {"idle", "initialize", "thread", "turn", "poll", "read", "steer", "stopping", "redirect",
        "redirecting", "restart", "validate", "accept", "finally", "closing", "closed"}

\* While the engine has a client of its own.
Working == Pcs \ {"idle", "initialize", "finally", "closing", "closed"}

Results == {"none", "failed", "cancelled", "decided", "planned"}

\* The lines of the pipe.
Lines ==
    UNION {[t : {"message"}, turn : Nat, about : Nat],
           [t : {"completed"}, turn : Nat, about : {"completed", "failed", "interrupted"}],
           [t : {"usage"}, turn : Nat, about : {0}],
           [t : {"call"}, turn : Nat, about : Steps],
           [t : {"response"}, turn : Nat, about : BOOLEAN]}

Requests == [id : Nat, kind : {"initialize", "thread", "turn", "steer", "interrupt"},
             turn : Nat, upto : Nat]

ProviderTurns == [st : {"running", "completed", "failed", "interrupted"}, heard : Nat,
                  told : Nat \union {-1}, noted : BOOLEAN]

EngineRow ==
    [pc : Pcs, dirs : SUBSET {"cwd", "home"}, held : BOOLEAN, events : Seq(Lines), rid : Nat,
     turn : Nat, completed : SUBSET Nat, steered : Nat, offered : Nat, restarts : Nat,
     said : Seq(Lines), result : Results]

ServerRow == [proc : {"none", "running", "dead"}, inbox : Seq(Requests), out : Seq(Lines),
              turns : Seq(ProviderTurns)]

LegacyRow == [staged : Seq(Steps), acked : SUBSET Steps, ids : SUBSET Nat, plan : Seq(Steps),
              sent : Nat]

TypeOK == /\ eng \in EngineRow /\ srv \in ServerRow
          /\ ctl \in [seq : Nat, cancel : BOOLEAN] /\ legacy \in LegacyRow

---------------------------------------------------------------------------
(* The invariants. *)

\* Who still has to close the client: a process and its directories are there only while the
\* session holds the client, start() awaits initialize, or the client is being closed.
OpenInv ==
    /\ eng.pc = "idle" /\ ~eng.held =>
          /\ srv.proc = "none" /\ eng.dirs = {} /\ eng.rid = 0
          /\ srv.inbox = << >> /\ srv.out = << >> /\ srv.turns = << >>
    /\ eng.pc \in Working => eng.held
    /\ eng.pc = "finally" /\ ~eng.held => srv.proc # "running" /\ eng.dirs = {}
    /\ NothingLeftOpen

\* A step is acknowledged when it is staged, and a plan is made of all of them.
StageInv ==
    /\ legacy.acked = ToSet(legacy.staged)
    /\ eng.result = "planned" => /\ eng.pc \in {"finally", "closing", "closed"}
                                 /\ legacy.staged # << >> => legacy.plan = legacy.staged

\* The ids of the requests under way: in the order they were sent, after those answered.
IdsInOrder(inbox, out, rid) ==
    /\ \A k \in DOMAIN inbox : inbox[k].id <= rid
    /\ \A j, k \in DOMAIN inbox : j < k => inbox[j].id < inbox[k].id
    /\ \A n \in DOMAIN out : out[n].t = "response" =>
          /\ out[n].turn <= rid
          /\ \A m \in DOMAIN out : m < n /\ out[m].t = "response" => out[m].turn < out[n].turn
          /\ \A k \in DOMAIN inbox : out[n].turn < inbox[k].id

IdInv == IdsInOrder(srv.inbox, srv.out, eng.rid)

\* The provider turns that the engine, the requests and the lines name.
Names(e) == e.t \in {"message", "completed", "usage"}

NamesUpTo(s, n) == \A k \in DOMAIN s : Names(s[k]) => s[k].turn <= n

TurnInv ==
    /\ eng.turn <= Len(srv.turns) /\ \A i \in eng.completed : i <= Len(srv.turns)
    /\ \A k \in DOMAIN srv.inbox : srv.inbox[k].turn <= Len(srv.turns)
    /\ NamesUpTo(srv.out, Len(srv.turns)) /\ NamesUpTo(eng.events, Len(srv.turns))

\* A message of provider turn i, and its completion.
MsgOf(e, i) == e.t = "message" /\ e.turn = i

EndOf(e, i) == e.t = "completed" /\ e.turn = i /\ e.about = "completed"

NoMsg(s, i) == \A k \in DOMAIN s : ~MsgOf(s[k], i)

HasEnd(s, i) == \E k \in DOMAIN s : EndOf(s[k], i)

\* The last message of turn i in s is about v; none follows the completion of the turn.
LastSays(s, i, v) ==
    \E k \in DOMAIN s : /\ MsgOf(s[k], i) /\ s[k].about = v
                        /\ \A m \in DOMAIN s : m > k => ~MsgOf(s[m], i)

EndsLast(s, i) ==
    \A k \in DOMAIN s : EndOf(s[k], i) => \A m \in DOMAIN s : m > k => ~MsgOf(s[m], i)

\* The last message of turn i that was sent, wherever it is by now.
Speaks(said, events, out, i, v) ==
    \/ LastSays(out, i, v)
    \/ NoMsg(out, i) /\ LastSays(events, i, v)
    \/ NoMsg(out, i) /\ NoMsg(events, i) /\ LastSays(said, i, v)

Over(events, out, t, i) ==
    /\ EndsLast(events, i) /\ EndsLast(out, i)
    /\ HasEnd(events, i) => NoMsg(out, i)
    /\ HasEnd(events, i) \/ HasEnd(out, i) => t.st # "running" /\ t.told = t.heard

OverInv == \A i \in DOMAIN srv.turns : Over(eng.events, srv.out, srv.turns[i], i)

\* The answer that the engine awaits is on its way and good.
Grants(out, rid) == \E n \in DOMAIN out : out[n] = Response(rid, TRUE)

Silent(out) == \A n \in DOMAIN out : out[n].t # "response"

\* The newest provider turn works on all that the engine has steered.
Lively(turns, completed, said, events, out, heard) ==
    LET n == Len(turns) IN
    /\ turns # << >> /\ n \notin completed
    /\ turns[n].heard = heard
    /\ turns[n].told # -1 => Speaks(said, events, out, n, turns[n].told)

LiveTurn(heard) == Lively(srv.turns, eng.completed, eng.said, eng.events, srv.out, heard)

\* The requests under way while the engine awaits the answer to turn/start or turn/steer.
Starts(inbox, upto) == \A k \in DOMAIN inbox : inbox[k].kind = "turn" /\ inbox[k].upto = upto

Steers(inbox, turn, upto) ==
    \A k \in DOMAIN inbox : inbox[k].kind = "steer" /\ inbox[k].turn = turn /\ inbox[k].upto = upto

LiveInv ==
    /\ eng.pc \in {"thread", "turn"} => eng.said = << >>
    /\ eng.pc = "turn" => Starts(srv.inbox, eng.steered) /\ (Grants(srv.out, eng.rid) => LiveTurn(eng.steered))
    /\ eng.pc \in {"poll", "read", "steer"} =>
          eng.turn = Len(srv.turns) /\ \A k \in DOMAIN eng.said : MsgOf(eng.said[k], eng.turn)
    /\ eng.pc \in {"poll", "read"} => srv.inbox = << >> /\ Silent(srv.out) /\ LiveTurn(eng.steered)
    /\ eng.pc = "steer" =>
          /\ Steers(srv.inbox, eng.turn, eng.offered)
          /\ LiveTurn(eng.offered) \/ (~Grants(srv.out, eng.rid) /\ LiveTurn(eng.steered))
    /\ eng.pc \in {"validate", "accept"} =>
          eng.said # << >> /\ MsgOf(Last(eng.said), eng.turn) /\ Last(eng.said).about >= eng.steered

SessionInv == /\ TypeOK /\ OpenInv /\ StageInv /\ IdInv /\ TurnInv /\ OverInv /\ LiveInv
              /\ DecisionIsCurrent

---------------------------------------------------------------------------
(* Facts about sequences. *)

\* What appending one element does.
LEMMA Appended ==
    ASSUME NEW S, NEW s \in Seq(S), NEW e \in S
    PROVE  /\ Append(s, e) \in Seq(S) /\ Len(Append(s, e)) = Len(s) + 1
           /\ DOMAIN Append(s, e) = DOMAIN s \union {Len(s) + 1}
           /\ DOMAIN s = 1 .. Len(s) /\ Len(s) \in Nat
           /\ \A k \in DOMAIN s : Append(s, e)[k] = s[k]
           /\ Append(s, e)[Len(s) + 1] = e
  OBVIOUS

\* What taking the head off does.
LEMMA Shortened ==
    ASSUME NEW S, NEW s \in Seq(S), s # << >>
    PROVE  /\ Tail(s) \in Seq(S) /\ Head(s) \in S /\ Head(s) = s[1]
           /\ DOMAIN s = 1 .. Len(s) /\ Len(s) \in Nat /\ Len(s) > 0
           /\ DOMAIN Tail(s) = 1 .. (Len(s) - 1)
           /\ \A k \in DOMAIN Tail(s) : Tail(s)[k] = s[k + 1]
  OBVIOUS

\* Writing one or two lines is appending them.
LEMMA Written ==
    ASSUME NEW S, NEW s \in Seq(S), NEW a \in S, NEW b \in S
    PROVE  s \o <<a>> = Append(s, a) /\ s \o <<a, b>> = Append(Append(s, a), b)
  OBVIOUS

\* A line of the pipe, by its kind.
LEMMA LineKinds ==
    ASSUME NEW e \in Lines
    PROVE  /\ e.t \in {"message", "completed", "usage", "call", "response"} /\ e.turn \in Nat
           /\ e.t = "message" => e.about \in Nat
           /\ e.t = "completed" => e.about \in {"completed", "failed", "interrupted"}
           /\ e.t = "call" => e.about \in Steps
  BY DEF Lines

\* The lines that the server writes.
LEMMA WrittenLines ==
    ASSUME NEW i \in Nat
    PROVE  /\ \A v \in Nat : Event("message", i, v) \in Lines
           /\ \A st \in {"completed", "failed", "interrupted"} : Event("completed", i, st) \in Lines
           /\ Event("usage", i, 0) \in Lines
           /\ \A s \in Steps : Event("call", i, s) \in Lines
           /\ \A ok \in BOOLEAN : Response(i, ok) \in Lines
  BY DEF Lines, Event, Response

\* The last message of a turn when a line is written, and when one is taken.
LEMMA SaysAppended ==
    ASSUME NEW s \in Seq(Lines), NEW e \in Lines, NEW i, NEW v
    PROVE  /\ MsgOf(e, i) => LastSays(Append(s, e), i, e.about)
           /\ ~MsgOf(e, i) /\ LastSays(s, i, v) => LastSays(Append(s, e), i, v)
           /\ ~MsgOf(e, i) /\ NoMsg(s, i) => NoMsg(Append(s, e), i)
  BY Appended DEF LastSays, NoMsg

LEMMA SaysShortened ==
    ASSUME NEW s \in Seq(Lines), s # << >>, NEW i, NEW v
    PROVE  /\ NoMsg(s, i) => NoMsg(Tail(s), i) /\ ~MsgOf(Head(s), i)
           /\ ~MsgOf(Head(s), i) /\ LastSays(s, i, v) => LastSays(Tail(s), i, v)
           /\ MsgOf(Head(s), i) /\ LastSays(s, i, v) =>
                 LastSays(Tail(s), i, v) \/ (Head(s).about = v /\ NoMsg(Tail(s), i))
  <1>0. /\ DOMAIN s = 1 .. Len(s) /\ Len(s) \in Nat /\ Len(s) > 0 /\ Head(s) = s[1]
        /\ DOMAIN Tail(s) = 1 .. (Len(s) - 1) /\ \A k \in DOMAIN Tail(s) : Tail(s)[k] = s[k + 1]
    BY Shortened
  <1>1. NoMsg(s, i) => NoMsg(Tail(s), i) /\ ~MsgOf(Head(s), i)
    <2>1. SUFFICES ASSUME \A k \in DOMAIN s : ~MsgOf(s[k], i)
                   PROVE  (\A k \in DOMAIN Tail(s) : ~MsgOf(Tail(s)[k], i)) /\ ~MsgOf(s[1], i)
      BY <1>0 DEF NoMsg
    <2>2. \A k \in DOMAIN Tail(s) : k + 1 \in DOMAIN s
      BY <1>0
    <2> QED BY <1>0, <2>1, <2>2
  <1>2. ASSUME LastSays(s, i, v)
        PROVE  LastSays(Tail(s), i, v) \/ (MsgOf(Head(s), i) /\ Head(s).about = v /\ NoMsg(Tail(s), i))
    <2>1. PICK k \in DOMAIN s : /\ MsgOf(s[k], i) /\ s[k].about = v
                                /\ \A m \in DOMAIN s : m > k => ~MsgOf(s[m], i)
      BY <1>2 DEF LastSays
    <2>2. CASE k = 1
      <3>1. \A m \in DOMAIN Tail(s) : m + 1 \in DOMAIN s /\ m + 1 > k /\ Tail(s)[m] = s[m + 1]
        BY <1>0, <2>2
      <3> QED BY <1>0, <2>1, <2>2, <3>1 DEF NoMsg
    <2>3. CASE k # 1
      <3>1. k - 1 \in DOMAIN Tail(s) /\ Tail(s)[k - 1] = s[k]
        BY <1>0, <2>3
      <3>2. \A m \in DOMAIN Tail(s) : m > k - 1 => m + 1 \in DOMAIN s /\ m + 1 > k /\ Tail(s)[m] = s[m + 1]
        BY <1>0
      <3>3. MsgOf(Tail(s)[k - 1], i) /\ Tail(s)[k - 1].about = v
            /\ \A m \in DOMAIN Tail(s) : m > k - 1 => ~MsgOf(Tail(s)[m], i)
        BY <2>1, <3>1, <3>2
      <3> QED BY <3>1, <3>3 DEF LastSays
    <2> QED BY <2>2, <2>3
  <1> QED BY <1>1, <1>2

\* The same of the completion of a turn.
LEMMA EndAppended ==
    ASSUME NEW s \in Seq(Lines), NEW e \in Lines, NEW i, EndsLast(s, i)
    PROVE  /\ ~MsgOf(e, i) \/ ~HasEnd(s, i) => EndsLast(Append(s, e), i)
           /\ HasEnd(Append(s, e), i) => HasEnd(s, i) \/ EndOf(e, i)
  <1>0. /\ DOMAIN Append(s, e) = DOMAIN s \union {Len(s) + 1} /\ DOMAIN s = 1 .. Len(s) /\ Len(s) \in Nat
        /\ \A k \in DOMAIN s : Append(s, e)[k] = s[k]
        /\ Append(s, e)[Len(s) + 1] = e
    BY Appended
  <1>1. ASSUME ~MsgOf(e, i) \/ ~HasEnd(s, i) PROVE EndsLast(Append(s, e), i)
    <2>1. SUFFICES ASSUME NEW k \in DOMAIN Append(s, e), EndOf(Append(s, e)[k], i),
                          NEW m \in DOMAIN Append(s, e), m > k
                   PROVE  ~MsgOf(Append(s, e)[m], i)
      BY DEF EndsLast
    <2>2. k \in DOMAIN s
      BY <1>0, <2>1
    <2>3. CASE m \in DOMAIN s
      BY <1>0, <2>1, <2>2, <2>3 DEF EndsLast
    <2>4. CASE m = Len(s) + 1
      BY <1>0, <1>1, <2>1, <2>2, <2>4 DEF HasEnd
    <2> QED BY <1>0, <2>3, <2>4
  <1>2. HasEnd(Append(s, e), i) => HasEnd(s, i) \/ EndOf(e, i)
    BY <1>0 DEF HasEnd
  <1> QED BY <1>1, <1>2

LEMMA EndShortened ==
    ASSUME NEW s \in Seq(Lines), s # << >>, NEW i, EndsLast(s, i)
    PROVE  /\ EndsLast(Tail(s), i)
           /\ HasEnd(Tail(s), i) => HasEnd(s, i)
           /\ EndOf(Head(s), i) => NoMsg(Tail(s), i) /\ HasEnd(s, i)
  <1>0. /\ DOMAIN s = 1 .. Len(s) /\ Len(s) \in Nat /\ Len(s) > 0 /\ Head(s) = s[1]
        /\ DOMAIN Tail(s) = 1 .. (Len(s) - 1) /\ \A k \in DOMAIN Tail(s) : Tail(s)[k] = s[k + 1]
    BY Shortened
  <1>1. \A k \in DOMAIN Tail(s) : k + 1 \in DOMAIN s /\ k + 1 > 1 /\ Tail(s)[k] = s[k + 1]
    BY <1>0
  <1>2. EndsLast(Tail(s), i)
    <2>1. SUFFICES ASSUME NEW k \in DOMAIN Tail(s), EndOf(Tail(s)[k], i), NEW m \in DOMAIN Tail(s), m > k
                   PROVE  ~MsgOf(Tail(s)[m], i)
      BY DEF EndsLast
    <2>2. m + 1 > k + 1
      BY <1>0, <2>1
    <2> QED BY <1>1, <2>1, <2>2 DEF EndsLast
  <1>3. HasEnd(Tail(s), i) => HasEnd(s, i)
    BY <1>1 DEF HasEnd
  <1>4. EndOf(Head(s), i) => NoMsg(Tail(s), i) /\ HasEnd(s, i)
    <2>1. 1 \in DOMAIN s
      BY <1>0
    <2> QED BY <1>0, <1>1, <2>1 DEF EndsLast, NoMsg, HasEnd
  <1> QED BY <1>2, <1>3, <1>4

\* The ids when a request is sent, when its answer is written and when a line is taken or written.
LEMMA IdsSent ==
    ASSUME NEW inbox \in Seq(Requests), NEW out \in Seq(Lines), NEW rid \in Nat, IdsInOrder(inbox, out, rid),
           NEW r \in Requests, r.id = rid + 1
    PROVE  IdsInOrder(Append(inbox, r), out, rid + 1)
  <1> DEFINE q == Append(inbox, r)
  <1>1. /\ DOMAIN q = DOMAIN inbox \union {Len(inbox) + 1} /\ q[Len(inbox) + 1] = r
        /\ DOMAIN inbox = 1 .. Len(inbox) /\ Len(inbox) \in Nat /\ \A k \in DOMAIN inbox : q[k] = inbox[k]
    BY Appended
  <1>2. (\A k \in DOMAIN inbox : inbox[k].id \in Nat) /\ (\A n \in DOMAIN out : out[n].turn \in Nat)
    <2>1. \A k \in DOMAIN inbox : inbox[k] \in Requests
      OBVIOUS
    <2>2. \A n \in DOMAIN out : out[n] \in Lines
      OBVIOUS
    <2> QED BY <2>1, <2>2, LineKinds DEF Requests
  <1> HIDE DEF q
  <1>3. \A k \in DOMAIN q : q[k].id <= rid + 1
    BY <1>1, <1>2 DEF IdsInOrder
  <1>4. ASSUME NEW j \in DOMAIN q, NEW k \in DOMAIN q, j < k PROVE q[j].id < q[k].id
    <2>1. j \in DOMAIN inbox
      BY <1>1, <1>4
    <2>2. CASE k \in DOMAIN inbox
      BY <1>1, <1>4, <2>1, <2>2 DEF IdsInOrder
    <2>3. CASE k = Len(inbox) + 1
      <3>1. inbox[j].id <= rid /\ inbox[j].id \in Nat
        BY <1>2, <2>1 DEF IdsInOrder
      <3> QED BY <1>1, <2>1, <2>3, <3>1
    <2> QED BY <1>1, <2>2, <2>3
  <1>5. \A n \in DOMAIN out : out[n].t = "response" =>
           out[n].turn <= rid + 1 /\ \A k \in DOMAIN q : out[n].turn < q[k].id
    BY <1>1, <1>2 DEF IdsInOrder
  <1>6. IdsInOrder(q, out, rid + 1)
    BY <1>3, <1>4, <1>5 DEF IdsInOrder
  <1> QED BY <1>6 DEF q

LEMMA IdsTaken ==
    ASSUME NEW inbox \in Seq(Requests), NEW out \in Seq(Lines), NEW rid \in Nat, IdsInOrder(inbox, out, rid),
           out # << >>
    PROVE  /\ IdsInOrder(inbox, Tail(out), rid)
           /\ Head(out).t = "response" /\ Head(out).turn = rid =>
                 inbox = << >> /\ \A n \in DOMAIN Tail(out) : Tail(out)[n].t # "response"
  <1>1. /\ DOMAIN out = 1 .. Len(out) /\ Len(out) \in Nat /\ Len(out) > 0 /\ Head(out) = out[1]
        /\ DOMAIN Tail(out) = 1 .. (Len(out) - 1) /\ \A k \in DOMAIN Tail(out) : Tail(out)[k] = out[k + 1]
    BY Shortened
  <1>2. \A k \in DOMAIN Tail(out) : k + 1 \in DOMAIN out /\ 1 < k + 1 /\ Tail(out)[k] = out[k + 1] /\ k \in Nat
    BY <1>1
  <1>3. 1 \in DOMAIN out /\ \A k \in DOMAIN out : out[k].turn \in Nat
    BY <1>1, LineKinds
  <1>4. \A m, n \in DOMAIN Tail(out) : m < n => m + 1 < n + 1
    BY <1>2
  <1>5. IdsInOrder(inbox, Tail(out), rid)
    BY <1>2, <1>4 DEF IdsInOrder
  <1>6. ASSUME Head(out).t = "response", Head(out).turn = rid
        PROVE  inbox = << >> /\ \A n \in DOMAIN Tail(out) : Tail(out)[n].t # "response"
    <2>1. ASSUME inbox # << >> PROVE FALSE
      <3>1. 1 \in DOMAIN inbox /\ inbox[1].id \in Nat
        <4>1. 1 \in DOMAIN inbox /\ inbox[1] \in Requests
          BY <2>1
        <4> QED BY <4>1 DEF Requests
      <3> QED BY <1>1, <1>3, <1>6, <3>1 DEF IdsInOrder
    <2>2. ASSUME NEW n \in DOMAIN Tail(out), Tail(out)[n].t = "response" PROVE FALSE
      <3>1. n + 1 \in DOMAIN out /\ 1 < n + 1 /\ out[n + 1].t = "response" /\ out[n + 1].turn \in Nat
        BY <1>2, <1>3, <2>2
      <3>2. out[n + 1].turn <= rid /\ out[1].turn < out[n + 1].turn
        BY <1>1, <1>3, <1>6, <3>1 DEF IdsInOrder
      <3> QED BY <1>1, <1>6, <3>1, <3>2
    <2> QED BY <2>1, <2>2
  <1> QED BY <1>5, <1>6

LEMMA IdsWritten ==
    ASSUME NEW inbox \in Seq(Requests), NEW out \in Seq(Lines), NEW rid \in Nat, IdsInOrder(inbox, out, rid),
           NEW e \in Lines, e.t # "response"
    PROVE  IdsInOrder(inbox, Append(out, e), rid)
  <1> DEFINE o == Append(out, e)
  <1>1. /\ DOMAIN o = DOMAIN out \union {Len(out) + 1} /\ o[Len(out) + 1] = e
        /\ \A k \in DOMAIN out : o[k] = out[k]
    BY Appended
  <1> HIDE DEF o
  <1>2. IdsInOrder(inbox, o, rid)
    BY <1>1 DEF IdsInOrder
  <1> QED BY <1>2 DEF o

LEMMA IdsAnswered ==
    ASSUME NEW inbox \in Seq(Requests), NEW out \in Seq(Lines), NEW rid \in Nat, IdsInOrder(inbox, out, rid),
           inbox # << >>, NEW ok \in BOOLEAN
    PROVE  IdsInOrder(Tail(inbox), Append(out, Response(Head(inbox).id, ok)), rid)
  <1> DEFINE e == Response(Head(inbox).id, ok)
             o == Append(out, e)
             q == Tail(inbox)
  <1>1. /\ DOMAIN inbox = 1 .. Len(inbox) /\ Len(inbox) \in Nat /\ Len(inbox) > 0 /\ Head(inbox) = inbox[1]
        /\ DOMAIN q = 1 .. (Len(inbox) - 1) /\ \A k \in DOMAIN q : q[k] = inbox[k + 1]
    BY Shortened
  <1>2. \A k \in DOMAIN q : k + 1 \in DOMAIN inbox /\ 1 < k + 1 /\ q[k] = inbox[k + 1] /\ k \in Nat
    BY <1>1
  <1>3. 1 \in DOMAIN inbox /\ \A k \in DOMAIN inbox : inbox[k].id \in Nat
    <2>1. 1 \in DOMAIN inbox /\ \A k \in DOMAIN inbox : inbox[k] \in Requests
      BY <1>1
    <2> QED BY <2>1 DEF Requests
  <1>4. e \in Lines /\ e.t = "response" /\ e.turn = inbox[1].id
    <2>1. Head(inbox).id \in Nat /\ Head(inbox) = inbox[1]
      BY <1>1, <1>3
    <2> QED BY <2>1, WrittenLines DEF Response
  <1>5. \A k \in DOMAIN out : out[k].turn \in Nat
    BY LineKinds
  <1> HIDE DEF e, q
  <1>6. /\ DOMAIN o = DOMAIN out \union {Len(out) + 1} /\ o[Len(out) + 1] = e
        /\ DOMAIN out = 1 .. Len(out) /\ Len(out) \in Nat /\ \A k \in DOMAIN out : o[k] = out[k]
    BY <1>4, Appended
  <1> HIDE DEF o
  <1>7. /\ \A k \in DOMAIN q : q[k].id <= rid
        /\ \A j, k \in DOMAIN q : j < k => q[j].id < q[k].id
    <2>1. \A j, k \in DOMAIN q : j < k => j + 1 < k + 1
      BY <1>2
    <2> QED BY <1>2, <2>1 DEF IdsInOrder
  <1>8. ASSUME NEW n \in DOMAIN o, o[n].t = "response"
        PROVE  /\ o[n].turn <= rid
               /\ \A m \in DOMAIN o : m < n /\ o[m].t = "response" => o[m].turn < o[n].turn
               /\ \A k \in DOMAIN q : o[n].turn < q[k].id
    <2>1. CASE n \in DOMAIN out
      <3>1. \A m \in DOMAIN o : m < n => m \in DOMAIN out
        BY <1>6, <2>1
      <3> QED BY <1>2, <1>6, <1>8, <2>1, <3>1 DEF IdsInOrder
    <2>2. CASE n = Len(out) + 1
      <3>1. \A m \in DOMAIN o : m < n => m \in DOMAIN out
        BY <1>6, <2>2
      <3>2. o[n].turn = inbox[1].id
        BY <1>4, <1>6, <2>2
      <3>3. \A m \in DOMAIN out : out[m].t = "response" => out[m].turn < inbox[1].id
        BY <1>3 DEF IdsInOrder
      <3>4. inbox[1].id <= rid /\ \A k \in DOMAIN q : inbox[1].id < q[k].id
        BY <1>2, <1>3 DEF IdsInOrder
      <3> QED BY <1>6, <3>1, <3>2, <3>3, <3>4
    <2> QED BY <1>6, <2>1, <2>2
  <1>9. IdsInOrder(q, o, rid)
    BY <1>7, <1>8 DEF IdsInOrder
  <1> QED BY <1>9 DEF e, o, q

\* The turns that lines name.
LEMMA NamesKept ==
    ASSUME NEW s \in Seq(Lines), NEW n \in Nat, NamesUpTo(s, n)
    PROVE  /\ \A e \in Lines : (Names(e) => e.turn <= n) => NamesUpTo(Append(s, e), n)
           /\ s # << >> => NamesUpTo(Tail(s), n) /\ (Names(Head(s)) => Head(s).turn <= n)
           /\ \A m \in Nat : m >= n => NamesUpTo(s, m)
  <1>1. ASSUME NEW e \in Lines, Names(e) => e.turn <= n PROVE NamesUpTo(Append(s, e), n)
    BY <1>1, Appended DEF NamesUpTo
  <1>2. ASSUME s # << >> PROVE NamesUpTo(Tail(s), n) /\ (Names(Head(s)) => Head(s).turn <= n)
    <2>1. /\ DOMAIN s = 1 .. Len(s) /\ Len(s) \in Nat /\ Len(s) > 0 /\ Head(s) = s[1]
          /\ DOMAIN Tail(s) = 1 .. (Len(s) - 1) /\ \A k \in DOMAIN Tail(s) : Tail(s)[k] = s[k + 1]
      BY <1>2, Shortened
    <2>2. 1 \in DOMAIN s /\ \A k \in DOMAIN Tail(s) : k + 1 \in DOMAIN s
      BY <2>1
    <2> QED BY <2>1, <2>2 DEF NamesUpTo
  <1>3. ASSUME NEW m \in Nat, m >= n PROVE NamesUpTo(s, m)
    <2>1. \A k \in DOMAIN s : s[k].turn \in Nat
      BY LineKinds
    <2> QED BY <1>3, <2>1 DEF NamesUpTo
  <1> QED BY <1>1, <1>2, <1>3

---------------------------------------------------------------------------
(* What happens to the lines of a turn between the provider and the decision. *)

\* A line is written to the pipe.
LEMMA SpeaksWritten ==
    ASSUME NEW said \in Seq(Lines), NEW events \in Seq(Lines), NEW out \in Seq(Lines),
           NEW e \in Lines, NEW i, NEW v
    PROVE  /\ MsgOf(e, i) => Speaks(said, events, Append(out, e), i, e.about)
           /\ ~MsgOf(e, i) /\ Speaks(said, events, out, i, v) => Speaks(said, events, Append(out, e), i, v)
  BY SaysAppended DEF Speaks

LEMMA OverWritten ==
    ASSUME NEW events \in Seq(Lines), NEW out \in Seq(Lines), NEW e \in Lines, NEW i, NEW t, NEW u,
           Over(events, out, t, i),
           MsgOf(e, i) => t.st = "running",
           EndOf(e, i) => u.st # "running" /\ u.told = u.heard,
           t.st # "running" => u.st # "running" /\ u.told = t.told /\ u.heard = t.heard
    PROVE  Over(events, Append(out, e), u, i)
  <1>1. MsgOf(e, i) => ~HasEnd(events, i) /\ ~HasEnd(out, i)
    BY DEF Over
  <1>2. EndsLast(Append(out, e), i) /\ (HasEnd(Append(out, e), i) => HasEnd(out, i) \/ EndOf(e, i))
    BY <1>1, EndAppended DEF Over
  <1>3. HasEnd(events, i) => NoMsg(Append(out, e), i)
    BY <1>1, SaysAppended DEF Over
  <1> QED BY <1>2, <1>3 DEF Over

\* A line is kept while an answer is awaited.
LEMMA SpeaksKept ==
    ASSUME NEW said \in Seq(Lines), NEW events \in Seq(Lines), NEW out \in Seq(Lines), out # << >>,
           NEW i, NEW v, Speaks(said, events, out, i, v)
    PROVE  Speaks(said, Append(events, Head(out)), Tail(out), i, v)
  <1>1. Head(out) \in Lines
    BY Shortened
  <1>2. CASE LastSays(out, i, v)
    BY <1>1, <1>2, SaysShortened, SaysAppended DEF Speaks
  <1>3. CASE NoMsg(out, i)
    BY <1>1, <1>3, SaysShortened, SaysAppended DEF Speaks
  <1> QED BY <1>2, <1>3 DEF Speaks

LEMMA OverKept ==
    ASSUME NEW events \in Seq(Lines), NEW out \in Seq(Lines), out # << >>, NEW i, NEW t,
           Over(events, out, t, i)
    PROVE  Over(Append(events, Head(out)), Tail(out), t, i)
  <1>1. Head(out) \in Lines
    BY Shortened
  <1>2. EndsLast(Tail(out), i) /\ (HasEnd(Tail(out), i) => HasEnd(out, i))
    BY EndShortened DEF Over
  <1>3. HasEnd(events, i) => NoMsg(Tail(out), i) /\ ~MsgOf(Head(out), i)
    BY SaysShortened DEF Over
  <1>4. EndOf(Head(out), i) => NoMsg(Tail(out), i) /\ HasEnd(out, i)
    BY EndShortened DEF Over
  <1>5. EndsLast(Append(events, Head(out)), i)
        /\ (HasEnd(Append(events, Head(out)), i) => HasEnd(events, i) \/ EndOf(Head(out), i))
    BY <1>1, <1>3, EndAppended DEF Over
  <1> QED BY <1>2, <1>3, <1>4, <1>5 DEF Over

\* A line is taken, from the ones kept or from the pipe.
LEMMA SpeaksTaken ==
    ASSUME NEW said \in Seq(Lines), NEW events \in Seq(Lines), NEW out \in Seq(Lines),
           NEW i, NEW v, Speaks(said, events, out, i, v)
    PROVE  /\ events # << >> =>
                 /\ ~MsgOf(Head(events), i) => Speaks(said, Tail(events), out, i, v)
                 /\ MsgOf(Head(events), i) => Speaks(Append(said, Head(events)), Tail(events), out, i, v)
           /\ events = << >> /\ out # << >> =>
                 /\ ~MsgOf(Head(out), i) => Speaks(said, events, Tail(out), i, v)
                 /\ MsgOf(Head(out), i) => Speaks(Append(said, Head(out)), events, Tail(out), i, v)
  <1>1. ASSUME events # << >>
        PROVE  /\ ~MsgOf(Head(events), i) => Speaks(said, Tail(events), out, i, v)
               /\ MsgOf(Head(events), i) => Speaks(Append(said, Head(events)), Tail(events), out, i, v)
    <2>1. Head(events) \in Lines
      BY <1>1, Shortened
    <2> QED BY <1>1, <2>1, SaysShortened, SaysAppended DEF Speaks
  <1>2. ASSUME events = << >>, out # << >>
        PROVE  /\ ~MsgOf(Head(out), i) => Speaks(said, events, Tail(out), i, v)
               /\ MsgOf(Head(out), i) => Speaks(Append(said, Head(out)), events, Tail(out), i, v)
    <2>1. Head(out) \in Lines
      BY <1>2, Shortened
    <2>2. NoMsg(events, i) /\ ~LastSays(events, i, v)
      BY <1>2 DEF NoMsg, LastSays
    <2> QED BY <1>2, <2>1, <2>2, SaysShortened, SaysAppended DEF Speaks
  <1> QED BY <1>1, <1>2

LEMMA OverTaken ==
    ASSUME NEW events \in Seq(Lines), NEW out \in Seq(Lines), NEW i, NEW t, Over(events, out, t, i)
    PROVE  /\ events # << >> => Over(Tail(events), out, t, i)
           /\ out # << >> => Over(events, Tail(out), t, i)
  <1>1. ASSUME events # << >> PROVE Over(Tail(events), out, t, i)
    BY <1>1, EndShortened DEF Over
  <1>2. ASSUME out # << >> PROVE Over(events, Tail(out), t, i)
    BY <1>2, EndShortened, SaysShortened DEF Over
  <1> QED BY <1>1, <1>2

\* When the next line is the completion of turn i, the last message is one that was read.
LEMMA AllRead ==
    ASSUME NEW said \in Seq(Lines), NEW events \in Seq(Lines), NEW out \in Seq(Lines), NEW i, NEW t,
           Over(events, out, t, i), t.told # -1 => Speaks(said, events, out, i, t.told),
           t.heard # -1,
           \/ events # << >> /\ EndOf(Head(events), i)
           \/ events = << >> /\ out # << >> /\ EndOf(Head(out), i)
    PROVE  LastSays(said, i, t.heard)
  <1>1. CASE events # << >> /\ EndOf(Head(events), i)
    <2>1. NoMsg(Tail(events), i) /\ HasEnd(events, i) /\ ~MsgOf(Head(events), i)
      BY <1>1, EndShortened DEF Over, EndOf, MsgOf
    <2>2. NoMsg(out, i) /\ t.told = t.heard
      BY <2>1 DEF Over
    <2>3. Speaks(said, Tail(events), out, i, t.heard)
      BY <1>1, <2>1, <2>2, SpeaksTaken
    <2> QED BY <2>1, <2>2, <2>3 DEF Speaks, NoMsg, LastSays
  <1>2. CASE events = << >> /\ out # << >> /\ EndOf(Head(out), i)
    <2>1. NoMsg(Tail(out), i) /\ HasEnd(out, i) /\ ~MsgOf(Head(out), i)
      BY <1>2, EndShortened DEF Over, EndOf, MsgOf
    <2>2. NoMsg(events, i) /\ t.told = t.heard
      BY <1>2, <2>1 DEF Over, NoMsg
    <2>3. Speaks(said, events, Tail(out), i, t.heard)
      BY <1>2, <2>1, <2>2, SpeaksTaken
    <2> QED BY <2>1, <2>2, <2>3 DEF Speaks, NoMsg, LastSays
  <1> QED BY <1>1, <1>2

---------------------------------------------------------------------------
(* The types are kept. *)

\* The fields of the engine and of the server.
LEMMA Fields ==
    ASSUME TypeOK
    PROVE  /\ eng.pc \in Pcs /\ eng.events \in Seq(Lines) /\ eng.rid \in Nat /\ eng.turn \in Nat
           /\ eng.completed \in SUBSET Nat /\ eng.steered \in Nat /\ eng.offered \in Nat
           /\ eng.restarts \in Nat /\ eng.said \in Seq(Lines) /\ eng.result \in Results
           /\ eng.held \in BOOLEAN /\ eng.dirs \in SUBSET {"cwd", "home"}
           /\ srv.proc \in {"none", "running", "dead"} /\ srv.inbox \in Seq(Requests)
           /\ srv.out \in Seq(Lines) /\ srv.turns \in Seq(ProviderTurns)
           /\ ctl.seq \in Nat /\ ctl.cancel \in BOOLEAN
           /\ legacy.staged \in Seq(Steps) /\ legacy.ids \in SUBSET Nat /\ legacy.sent \in Nat
  BY DEF TypeOK, EngineRow, ServerRow, LegacyRow

\* What an engine becomes, with its fields replaced by others of their types.
LEMMA EngineUpdates ==
    ASSUME NEW e \in EngineRow
    PROVE  /\ \A p \in Pcs : [e EXCEPT !.pc = p] \in EngineRow
           /\ \A how \in Results : Ended(e, how) \in EngineRow
           /\ \A n \in Nat : [e EXCEPT !.rid = n] \in EngineRow /\ [e EXCEPT !.steered = n] \in EngineRow
           /\ \A s \in Seq(Lines) : [e EXCEPT !.events = s] \in EngineRow /\ [e EXCEPT !.said = s] \in EngineRow
  BY DEF EngineRow, Ended, Pcs

LEMMA ServerUpdates ==
    ASSUME NEW s \in ServerRow
    PROVE  /\ \A p \in {"none", "running", "dead"} : [s EXCEPT !.proc = p] \in ServerRow
           /\ \A q \in Seq(Requests) : [s EXCEPT !.inbox = q] \in ServerRow
           /\ \A q \in Seq(Lines) : [s EXCEPT !.out = q] \in ServerRow
           /\ \A q \in Seq(Requests), o \in Seq(Lines) : [s EXCEPT !.inbox = q, !.out = o] \in ServerRow
           /\ \A ts \in Seq(ProviderTurns), o \in Seq(Lines) : [s EXCEPT !.turns = ts, !.out = o] \in ServerRow
           /\ \A q \in Seq(Requests), ts \in Seq(ProviderTurns), o \in Seq(Lines) :
                 [s EXCEPT !.inbox = q, !.turns = ts, !.out = o] \in ServerRow
  BY DEF ServerRow

\* What an event or an answer takes off the pipe leaves the types alone.
LEMMA TakeEventType ==
    ASSUME TypeOK, HasEvent, NEW e \in EngineRow, TakeEvent(e)
    PROVE  eng' \in EngineRow /\ srv' \in ServerRow /\ NextEvent \in Lines
  <1>1. CASE eng.events # << >>
    <2>1. Tail(eng.events) \in Seq(Lines) /\ Head(eng.events) \in Lines
      BY <1>1, Fields, Shortened
    <2> QED BY <1>1, <2>1, EngineUpdates DEF TakeEvent, NextEvent, TypeOK
  <1>2. CASE eng.events = << >>
    <2>1. Tail(srv.out) \in Seq(Lines) /\ Head(srv.out) \in Lines
      BY <1>2, Fields, Shortened DEF HasEvent
    <2> QED BY <1>2, <2>1, ServerUpdates DEF TakeEvent, NextEvent, TypeOK
  <1> QED BY <1>1, <1>2

LEMMA AnswerType ==
    ASSUME TypeOK
    PROVE  /\ AnswerFails => srv' \in ServerRow
           /\ AnswerRead /\ srv' = [srv EXCEPT !.out = Tail(@)] => srv' \in ServerRow
  <1>1. srv.out # << >> => Tail(srv.out) \in Seq(Lines)
    BY Fields, Shortened
  <1> QED BY <1>1, ServerUpdates DEF AnswerFails, AnswerRead, TypeOK

LEMMA SentType ==
    ASSUME TypeOK, NEW e \in EngineRow, NEW upto \in Nat,
           NEW kind \in {"thread", "turn", "steer", "interrupt"}, Sent(e, kind, upto)
    PROVE  eng' \in EngineRow /\ srv' \in ServerRow
  <1>1. [id |-> eng.rid + 1, kind |-> kind, turn |-> eng.turn, upto |-> upto] \in Requests
    <2>1. eng.rid \in Nat /\ eng.turn \in Nat
      BY Fields
    <2> QED BY <2>1 DEF Requests
  <1>2. Append(srv.inbox, [id |-> eng.rid + 1, kind |-> kind, turn |-> eng.turn, upto |-> upto])
           \in Seq(Requests)
    BY <1>1, Fields
  <1>3. eng.rid + 1 \in Nat
    BY Fields
  <1>4. eng' \in EngineRow
    BY <1>3, EngineUpdates DEF Sent
  <1>5. srv' \in ServerRow
    BY <1>2, ServerUpdates DEF Sent, TypeOK
  <1> QED BY <1>4, <1>5

\* The request that the server handles, and what it does with it: it starts a turn, gives a
\* plain answer, takes a correction or ends a turn.
HandledTurn(r) ==
    /\ r.kind = "turn"
    /\ srv'.turns = Append(srv.turns, [st |-> "running", heard |-> r.upto, told |-> -1, noted |-> FALSE])
    /\ srv'.out = Append(srv.out, Response(r.id, TRUE))

HandledPlainly(r) ==
    /\ r.kind # "turn" /\ srv'.turns = srv.turns
    /\ \E ok \in BOOLEAN : /\ srv'.out = Append(srv.out, Response(r.id, ok))
                           /\ r.kind = "steer" => ~ok

HandledSteer(r) ==
    /\ r.kind = "steer" /\ r.turn \in DOMAIN srv.turns /\ srv.turns[r.turn].st = "running"
    /\ srv'.turns = [srv.turns EXCEPT ![r.turn] = [@ EXCEPT !.heard = r.upto]]
    /\ srv'.out = Append(srv.out, Response(r.id, TRUE))

HandledStop(r) ==
    /\ r.kind = "interrupt" /\ r.turn \in DOMAIN srv.turns /\ srv.turns[r.turn].st = "running"
    /\ srv'.turns = [srv.turns EXCEPT ![r.turn] = [@ EXCEPT !.st = "interrupted"]]
    /\ srv'.out = Append(Append(srv.out, Event("completed", r.turn, "interrupted")), Response(r.id, TRUE))

Handled(r) == HandledTurn(r) \/ HandledPlainly(r) \/ HandledSteer(r) \/ HandledStop(r)

LEMMA HandlesForm ==
    ASSUME TypeOK, TurnInv, ServerHandles
    PROVE  /\ srv.inbox # << >> /\ Head(srv.inbox) \in Requests
           /\ srv' = [srv EXCEPT !.inbox = Tail(srv.inbox), !.turns = srv'.turns, !.out = srv'.out]
           /\ srv'.turns \in Seq(ProviderTurns) /\ srv'.out \in Seq(Lines)
           /\ srv'.inbox = Tail(srv.inbox) /\ srv'.proc = srv.proc
           /\ Handled(Head(srv.inbox))
  <1>0. PICK r : r = Head(srv.inbox)
    OBVIOUS
  <1> DEFINE i == r.turn
             running == i > 0 /\ srv.turns[i].st = "running"
             Reply(ts, lines) == [srv EXCEPT !.inbox = Tail(@), !.turns = ts, !.out = @ \o lines]
             new == [st |-> "running", heard |-> r.upto, told |-> -1, noted |-> FALSE]
  <1>1. srv.inbox # << >> /\ r \in Requests /\ srv.inbox[1] = r /\ 1 \in DOMAIN srv.inbox
    BY <1>0, Fields, Shortened DEF ServerHandles
  <1>2. r.id \in Nat /\ i \in Nat /\ r.upto \in Nat /\ i <= Len(srv.turns)
        /\ r.kind \in {"initialize", "thread", "turn", "steer", "interrupt"}
    BY <1>1 DEF Requests, TurnInv
  <1>3. /\ Response(r.id, TRUE) \in Lines /\ Response(r.id, FALSE) \in Lines
        /\ Event("completed", i, "interrupted") \in Lines
    BY <1>2, WrittenLines
  <1>4. srv.out \in Seq(Lines) /\ srv.turns \in Seq(ProviderTurns) /\ srv \in ServerRow
    BY Fields DEF TypeOK
  <1>5. running => i \in DOMAIN srv.turns /\ srv.turns[i] \in ProviderTurns
    <2>1. DOMAIN srv.turns = 1 .. Len(srv.turns) /\ Len(srv.turns) \in Nat
      BY <1>4
    <2>2. \A n \in DOMAIN srv.turns : srv.turns[n] \in ProviderTurns
      BY <1>4
    <2> QED BY <1>2, <2>1, <2>2
  <1>6. \/ r.kind = "turn" /\ srv' = Reply(Append(srv.turns, new), <<Response(r.id, TRUE)>>)
        \/ r.kind \in {"steer", "interrupt"} /\ srv' = Reply(srv.turns, <<Response(r.id, FALSE)>>)
        \/ r.kind = "steer" /\ running
           /\ srv' = Reply([srv.turns EXCEPT ![i].heard = r.upto], <<Response(r.id, TRUE)>>)
        \/ r.kind = "interrupt" /\ running
           /\ srv' = Reply([srv.turns EXCEPT ![i].st = "interrupted"],
                           <<Event("completed", i, "interrupted"), Response(r.id, TRUE)>>)
        \/ r.kind \in {"initialize", "thread"} /\ srv' = Reply(srv.turns, <<Response(r.id, TRUE)>>)
    BY <1>0, <1>2 DEF ServerHandles
  <1>7. ASSUME NEW ts, NEW lines, srv' = Reply(ts, lines)
        PROVE  /\ srv'.turns = ts /\ srv'.out = srv.out \o lines
               /\ srv'.inbox = Tail(srv.inbox) /\ srv'.proc = srv.proc
               /\ srv' = [srv EXCEPT !.inbox = Tail(srv.inbox), !.turns = srv'.turns, !.out = srv'.out]
    BY <1>4, <1>7 DEF ServerRow
  <1> HIDE DEF Reply
  <1>8. /\ srv'.inbox = Tail(srv.inbox) /\ srv'.proc = srv.proc
        /\ srv' = [srv EXCEPT !.inbox = Tail(srv.inbox), !.turns = srv'.turns, !.out = srv'.out]
    BY <1>6, <1>7
  <1>9. ASSUME NEW ts \in Seq(ProviderTurns), NEW ok \in BOOLEAN, srv' = Reply(ts, <<Response(r.id, ok)>>)
        PROVE  /\ srv'.turns = ts /\ srv'.out = Append(srv.out, Response(r.id, ok))
               /\ srv'.turns \in Seq(ProviderTurns) /\ srv'.out \in Seq(Lines)
    <2>1. Response(r.id, ok) \in Lines
      BY <1>3, <1>9
    <2>2. srv'.turns = ts /\ srv'.out = srv.out \o <<Response(r.id, ok)>>
      BY <1>7, <1>9
    <2>3. srv.out \o <<Response(r.id, ok)>> = Append(srv.out, Response(r.id, ok))
      BY <1>4, <2>1, Written
    <2>4. Append(srv.out, Response(r.id, ok)) \in Seq(Lines)
      BY <1>4, <2>1
    <2> QED BY <2>2, <2>3, <2>4
  <1>10. Handled(r) /\ srv'.turns \in Seq(ProviderTurns) /\ srv'.out \in Seq(Lines)
    <2>1. CASE r.kind = "turn" /\ srv' = Reply(Append(srv.turns, new), <<Response(r.id, TRUE)>>)
      <3>1. new \in ProviderTurns
        BY <1>2 DEF ProviderTurns
      <3>2. Append(srv.turns, new) \in Seq(ProviderTurns)
        BY <1>4, <3>1
      <3> QED BY <1>9, <2>1, <3>2 DEF Handled, HandledTurn
    <2>2. CASE r.kind \in {"steer", "interrupt"} /\ srv' = Reply(srv.turns, <<Response(r.id, FALSE)>>)
      <3>1. srv'.turns = srv.turns /\ srv'.out = Append(srv.out, Response(r.id, FALSE))
            /\ srv'.turns \in Seq(ProviderTurns) /\ srv'.out \in Seq(Lines)
        BY <1>4, <1>9, <2>2
      <3> QED BY <2>2, <3>1 DEF Handled, HandledPlainly
    <2>3. CASE r.kind = "steer" /\ running
               /\ srv' = Reply([srv.turns EXCEPT ![i].heard = r.upto], <<Response(r.id, TRUE)>>)
      <3>1. [srv.turns EXCEPT ![i].heard = r.upto] = [srv.turns EXCEPT ![i] = [@ EXCEPT !.heard = r.upto]]
        OBVIOUS
      <3>2. [srv.turns[i] EXCEPT !.heard = r.upto] \in ProviderTurns
        BY <1>2, <1>5, <2>3 DEF ProviderTurns
      <3>3. [srv.turns EXCEPT ![i] = [@ EXCEPT !.heard = r.upto]] \in Seq(ProviderTurns)
        BY <1>4, <1>5, <2>3, <3>2
      <3> QED BY <1>5, <1>9, <2>3, <3>1, <3>3 DEF Handled, HandledSteer
    <2>4. CASE r.kind = "interrupt" /\ running
               /\ srv' = Reply([srv.turns EXCEPT ![i].st = "interrupted"],
                               <<Event("completed", i, "interrupted"), Response(r.id, TRUE)>>)
      <3>1. [srv.turns EXCEPT ![i].st = "interrupted"] = [srv.turns EXCEPT ![i] = [@ EXCEPT !.st = "interrupted"]]
        OBVIOUS
      <3>2. [srv.turns[i] EXCEPT !.st = "interrupted"] \in ProviderTurns
        BY <1>5, <2>4 DEF ProviderTurns
      <3>3. [srv.turns EXCEPT ![i] = [@ EXCEPT !.st = "interrupted"]] \in Seq(ProviderTurns)
        BY <1>4, <1>5, <2>4, <3>2
      <3>4. srv'.turns = [srv.turns EXCEPT ![i] = [@ EXCEPT !.st = "interrupted"]]
            /\ srv'.out = srv.out \o <<Event("completed", i, "interrupted"), Response(r.id, TRUE)>>
        BY <1>7, <2>4, <3>1
      <3>5. srv.out \o <<Event("completed", i, "interrupted"), Response(r.id, TRUE)>>
              = Append(Append(srv.out, Event("completed", i, "interrupted")), Response(r.id, TRUE))
        <4> DEFINE a == Event("completed", i, "interrupted")
                   b == Response(r.id, TRUE)
        <4>1. a \in Lines /\ b \in Lines /\ srv.out \in Seq(Lines)
          BY <1>3, <1>4
        <4> HIDE DEF a, b
        <4>2. srv.out \o <<a, b>> = Append(Append(srv.out, a), b)
          BY <4>1, Written
        <4> QED BY <4>2 DEF a, b
      <3>6. Append(Append(srv.out, Event("completed", i, "interrupted")), Response(r.id, TRUE)) \in Seq(Lines)
        <4>1. Append(srv.out, Event("completed", i, "interrupted")) \in Seq(Lines)
          BY <1>3, <1>4
        <4>2. Response(r.id, TRUE) \in Lines
          BY <1>3
        <4> QED BY <4>1, <4>2, Appended, Zenon
      <3> QED BY <1>5, <2>4, <3>3, <3>4, <3>5, <3>6 DEF Handled, HandledStop
    <2>5. CASE r.kind \in {"initialize", "thread"} /\ srv' = Reply(srv.turns, <<Response(r.id, TRUE)>>)
      <3>1. srv'.turns = srv.turns /\ srv'.out = Append(srv.out, Response(r.id, TRUE))
            /\ srv'.turns \in Seq(ProviderTurns) /\ srv'.out \in Seq(Lines)
        BY <1>4, <1>9, <2>5
      <3> QED BY <2>5, <3>1 DEF Handled, HandledPlainly
    <2> HIDE DEF new, running
    <2> QED BY <1>6, <2>1, <2>2, <2>3, <2>4, <2>5
  <1> QED BY <1>0, <1>1, <1>8, <1>10

\* The provider turn that says something, and what.
SaysLine(i, t2, line) ==
    /\ srv' = [srv EXCEPT !.turns[i] = t2, !.out = Append(@, line)]
    /\ Names(line) /\ line.turn = i
    /\ t2.heard = srv.turns[i].heard
    /\ line.t = "message" => /\ srv.turns[i].st = "running" /\ t2.st = "running"
                             /\ t2.told = line.about
    /\ line.t # "message" => t2.told = srv.turns[i].told
    /\ line.t = "completed" => t2.st # "running" /\ t2.told = t2.heard
    /\ srv.turns[i].st # "running" => t2.st = srv.turns[i].st

LEMMA SaysForm ==
    ASSUME TypeOK, ProviderSays
    PROVE  \E i \in DOMAIN srv.turns, t2 \in ProviderTurns, line \in Lines : SaysLine(i, t2, line)
  <1>1. PICK i \in 1..Len(srv.turns) :
          LET t == srv.turns[i]
              Emit(t2, line) == srv' = [srv EXCEPT !.turns[i] = t2, !.out = Append(@, line)]
          IN \/ /\ t.st = "running" /\ t.told # t.heard
                /\ Emit([t EXCEPT !.told = t.heard], Event("message", i, t.heard))
             \/ /\ t.st = "running" /\ t.told = t.heard
                /\ \E st \in {"completed", "failed"} :
                      Emit([t EXCEPT !.st = st], Event("completed", i, st))
             \/ /\ ~t.noted
                /\ Emit([t EXCEPT !.noted = TRUE], Event("usage", i, 0))
    BY Zenon DEF ProviderSays
  <1> DEFINE t == srv.turns[i]
             Emit(t2, line) == srv' = [srv EXCEPT !.turns[i] = t2, !.out = Append(@, line)]
  <1>2. i \in DOMAIN srv.turns /\ t \in ProviderTurns /\ i \in Nat
    BY Fields
  <1>3. /\ [t EXCEPT !.told = t.heard] \in ProviderTurns /\ [t EXCEPT !.noted = TRUE] \in ProviderTurns
        /\ \A st \in {"completed", "failed"} : [t EXCEPT !.st = st] \in ProviderTurns
        /\ t.heard \in Nat
    BY <1>2 DEF ProviderTurns
  <1>4. /\ Event("message", i, t.heard) \in Lines /\ Event("usage", i, 0) \in Lines
        /\ \A st \in {"completed", "failed"} : Event("completed", i, st) \in Lines
    BY <1>2, <1>3, WrittenLines
  <1>5. CASE /\ t.st = "running" /\ t.told # t.heard
             /\ Emit([t EXCEPT !.told = t.heard], Event("message", i, t.heard))
    <2> USE <1>2, <1>3, <1>4
    <2> WITNESS i \in DOMAIN srv.turns, [t EXCEPT !.told = t.heard] \in ProviderTurns,
                Event("message", i, t.heard) \in Lines
    <2> QED BY <1>2, <1>5 DEF SaysLine, Event, Names, ProviderTurns
  <1>6. ASSUME NEW st \in {"completed", "failed"}, t.st = "running" /\ t.told = t.heard,
               Emit([t EXCEPT !.st = st], Event("completed", i, st))
        PROVE  \E j \in DOMAIN srv.turns, t2 \in ProviderTurns, line \in Lines : SaysLine(j, t2, line)
    <2>1. [t EXCEPT !.st = st] \in ProviderTurns /\ Event("completed", i, st) \in Lines
      BY <1>3, <1>4
    <2> USE <1>2, <2>1
    <2> WITNESS i \in DOMAIN srv.turns, [t EXCEPT !.st = st] \in ProviderTurns,
                Event("completed", i, st) \in Lines
    <2> QED BY <1>2, <1>6 DEF SaysLine, Event, Names, ProviderTurns
  <1>7. CASE ~t.noted /\ Emit([t EXCEPT !.noted = TRUE], Event("usage", i, 0))
    <2> USE <1>2, <1>3, <1>4
    <2> WITNESS i \in DOMAIN srv.turns, [t EXCEPT !.noted = TRUE] \in ProviderTurns,
                Event("usage", i, 0) \in Lines
    <2> QED BY <1>2, <1>7 DEF SaysLine, Event, Names, ProviderTurns
  <1> QED BY <1>1, <1>5, <1>6, <1>7

\* The steps of the user and of the server.
LEMMA ServerType ==
    ASSUME TypeOK, TurnInv,
           UserActs \/ ProcessDies \/ ServerHandles \/ ProviderSays \/ ProviderCalls
    PROVE  TypeOK'
  <1>1. CASE UserActs
    <2>1. ctl.seq \in Nat /\ ctl \in [seq : Nat, cancel : BOOLEAN]
      BY Fields DEF TypeOK
    <2>2. ctl.seq + 1 \in Nat
      BY <2>1
    <2>3. /\ [ctl EXCEPT !.seq = ctl.seq + 1] \in [seq : Nat, cancel : BOOLEAN]
          /\ [ctl EXCEPT !.cancel = TRUE] \in [seq : Nat, cancel : BOOLEAN]
      BY <2>1, <2>2
    <2> QED BY <1>1, <2>3 DEF UserActs, TypeOK
  <1>2. CASE ProcessDies
    BY <1>2, ServerUpdates DEF ProcessDies, TypeOK
  <1>3. CASE ServerHandles
    <2>1. Tail(srv.inbox) \in Seq(Requests)
      BY <1>3, HandlesForm, Fields, Shortened
    <2>2. srv' \in ServerRow
      <3>1. srv'.turns \in Seq(ProviderTurns) /\ srv'.out \in Seq(Lines) /\ srv \in ServerRow
        BY <1>3, HandlesForm DEF TypeOK
      <3>2. [srv EXCEPT !.inbox = Tail(srv.inbox), !.turns = srv'.turns, !.out = srv'.out] \in ServerRow
        BY <2>1, <3>1, ServerUpdates
      <3>3. srv' = [srv EXCEPT !.inbox = Tail(srv.inbox), !.turns = srv'.turns, !.out = srv'.out]
        BY <1>3, HandlesForm
      <3> QED BY <3>2, <3>3
    <2> QED BY <1>3, <2>2 DEF ServerHandles, TypeOK
  <1>4. CASE ProviderSays
    <2>1. PICK i \in DOMAIN srv.turns, t2 \in ProviderTurns, line \in Lines :
             SaysLine(i, t2, line)
      BY <1>4, SaysForm
    <2>2. [srv.turns EXCEPT ![i] = t2] \in Seq(ProviderTurns) /\ Append(srv.out, line) \in Seq(Lines)
      BY Fields
    <2>3. srv' = [srv EXCEPT !.turns = [srv.turns EXCEPT ![i] = t2], !.out = Append(srv.out, line)]
      BY <2>1 DEF SaysLine
    <2>4. srv' \in ServerRow
      BY <2>2, <2>3, ServerUpdates DEF TypeOK
    <2> QED BY <1>4, <2>4 DEF ProviderSays, TypeOK
  <1>5. CASE ProviderCalls
    <2>1. PICK id \in {legacy.sent, legacy.sent + 1}, s \in Steps :
             srv' = [srv EXCEPT !.out = Append(@, Event("call", id, s))]
      BY <1>5 DEF ProviderCalls
    <2>2. id \in Nat
      BY Fields
    <2>3. Event("call", id, s) \in Lines
      BY <2>2, WrittenLines
    <2>4. Append(srv.out, Event("call", id, s)) \in Seq(Lines)
      BY <2>3, Fields
    <2>5. srv' \in ServerRow
      BY <2>1, <2>4, ServerUpdates DEF TypeOK
    <2>6. legacy' \in LegacyRow
      <3>1. legacy.sent + 1 \in Nat /\ legacy \in LegacyRow
        BY Fields DEF TypeOK
      <3>2. [legacy EXCEPT !.sent = legacy.sent + 1] \in LegacyRow
        BY <3>1 DEF LegacyRow
      <3> QED BY <1>5, <3>2 DEF ProviderCalls
    <2> QED BY <1>5, <2>5, <2>6 DEF ProviderCalls, TypeOK
  <1> QED BY <1>1, <1>2, <1>3, <1>4, <1>5

\* The steps of the engine that start, steer and restart a decision.
LEMMA ControlType ==
    ASSUME TypeOK, Pass \/ Proceeds \/ StartingFails \/ Buffers \/ CheckControl \/ Steered
                   \/ InterruptForRedirect \/ Interrupted \/ Restart
    PROVE  TypeOK'
  <1>0. eng \in EngineRow /\ srv \in ServerRow
    BY DEF TypeOK
  <1>1. SUFFICES ctl' = ctl /\ legacy' = legacy /\ eng' \in EngineRow /\ srv' \in ServerRow
    BY DEF TypeOK
  <1>2. ctl' = ctl /\ legacy' = legacy
    BY DEF Pass, Proceeds, StartingFails, Buffers, CheckControl, Steered, InterruptForRedirect,
           Interrupted, Restart
  <1>3. CASE Pass
    <2>1. CASE eng' = Ended(eng, "cancelled") /\ UNCHANGED srv
      BY <1>2, <1>0, <2>1, EngineUpdates DEF Results
    <2>2. CASE StartClient
      <3>1. [id |-> 1, kind |-> "initialize", turn |-> 0, upto |-> 0] \in Requests
        BY DEF Requests
      <3>2. <<[id |-> 1, kind |-> "initialize", turn |-> 0, upto |-> 0]>> \in Seq(Requests)
        BY <3>1
      <3>3. [eng EXCEPT !.dirs = {"cwd", "home"}, !.pc = "initialize", !.rid = 1] \in EngineRow
        BY <1>0 DEF EngineRow, Pcs
      <3>4. [srv EXCEPT !.proc = "running",
                        !.inbox = <<[id |-> 1, kind |-> "initialize", turn |-> 0, upto |-> 0]>>] \in ServerRow
        BY <1>0, <3>2 DEF ServerRow
      <3> QED BY <1>2, <1>0, <2>2, <3>3, <3>4, EngineUpdates DEF StartClient, Results
    <2> DEFINE e == [eng EXCEPT !.steered = ctl.seq, !.said = << >>]
    <2>3. e \in EngineRow /\ [e EXCEPT !.pc = "thread"] \in EngineRow /\ Ended(e, "failed") \in EngineRow
      <3>1. ctl.seq \in Nat /\ << >> \in Seq(Lines)
        BY Fields
      <3>2. e \in EngineRow
        BY <1>0, <3>1 DEF EngineRow
      <3> QED BY <3>2, EngineUpdates DEF Pcs, Results
    <2> HIDE DEF e
    <2>4. CASE Sent([e EXCEPT !.pc = "thread"], "thread", 0)
      BY <1>2, <2>3, <2>4, SentType
    <2>5. CASE eng' = Ended(e, "failed") /\ UNCHANGED srv
      BY <1>2, <1>0, <2>3, <2>5
    <2> QED BY <1>3, <2>1, <2>2, <2>4, <2>5 DEF Pass, e
  <1>4. CASE Proceeds
    <2>1. Tail(srv.out) \in Seq(Lines)
      BY <1>4, Fields, Shortened DEF Proceeds, AnswerRead
    <2>2. CASE eng.pc = "initialize"
      <3>1. [eng EXCEPT !.held = TRUE, !.pc = "idle"] \in EngineRow
        BY <1>0 DEF EngineRow, Pcs
      <3> QED BY <1>0, <1>4, <2>1, <2>2, <3>1, ServerUpdates DEF Proceeds
    <2>3. CASE eng.pc = "thread"
      <3>1. eng.rid + 1 \in Nat /\ eng.steered \in Nat
        BY Fields
      <3>2. [id |-> eng.rid + 1, kind |-> "turn", turn |-> 0, upto |-> eng.steered] \in Requests
        BY <3>1 DEF Requests
      <3>3. Append(srv.inbox, [id |-> eng.rid + 1, kind |-> "turn", turn |-> 0, upto |-> eng.steered])
               \in Seq(Requests)
        BY <3>2, Fields
      <3>4. [eng EXCEPT !.pc = "turn", !.rid = @ + 1] \in EngineRow
        BY <1>0, <3>1 DEF EngineRow, Pcs
      <3>5. srv' \in ServerRow
        BY <1>0, <1>4, <2>1, <2>3, <3>3 DEF Proceeds, ServerRow
      <3> QED BY <1>4, <2>3, <3>4, <3>5 DEF Proceeds
    <2>4. CASE eng.pc = "turn"
      <3>1. Len(srv.turns) \in Nat
        BY Fields
      <3>2. [eng EXCEPT !.pc = "poll", !.turn = Len(srv.turns)] \in EngineRow
        BY <1>0, <3>1 DEF EngineRow, Pcs
      <3> QED BY <1>0, <1>4, <2>1, <2>4, <3>2, ServerUpdates DEF Proceeds
    <2> QED BY <1>4, <2>2, <2>3, <2>4 DEF Proceeds
  <1>5. CASE StartingFails
    <2>1. [Ended(eng, "failed") EXCEPT !.pc = "closing"] \in EngineRow /\ Ended(eng, "failed") \in EngineRow
      <3>1. Ended(eng, "failed") \in EngineRow
        BY <1>0, EngineUpdates DEF Results
      <3> QED BY <3>1, EngineUpdates DEF Pcs
    <2> QED BY <1>5, <2>1, AnswerType DEF StartingFails, AfterFailedAnswer
  <1>6. CASE Buffers
    <2>1. Tail(srv.out) \in Seq(Lines) /\ Head(srv.out) \in Lines
      BY <1>6, Fields, Shortened DEF Buffers
    <2>2. Append(eng.events, Head(srv.out)) \in Seq(Lines)
      BY <2>1, Fields
    <2> QED BY <1>0, <1>6, <2>1, <2>2, EngineUpdates, ServerUpdates DEF Buffers
  <1>7. CASE CheckControl
    <2>1. [eng EXCEPT !.pc = "stopping"] \in EngineRow /\ [eng EXCEPT !.pc = "restart"] \in EngineRow
          /\ [eng EXCEPT !.pc = "read"] \in EngineRow /\ Ended(eng, "cancelled") \in EngineRow
      BY <1>0, EngineUpdates DEF Pcs, Results
    <2>2. [eng EXCEPT !.pc = "steer", !.offered = ctl.seq] \in EngineRow /\ ctl.seq \in Nat
      BY <1>0, Fields DEF EngineRow, Pcs
    <2>3. CASE Sent([eng EXCEPT !.pc = "stopping"], "interrupt", 0)
      BY <1>2, <2>1, <2>3, SentType
    <2>4. CASE Sent([eng EXCEPT !.pc = "steer", !.offered = ctl.seq], "steer", ctl.seq)
      BY <1>2, <2>2, <2>4, SentType
    <2> QED BY <1>0, <1>7, <2>1, <2>3, <2>4 DEF CheckControl
  <1>8. CASE Steered
    <2>1. [eng EXCEPT !.pc = "poll", !.steered = eng.offered] \in EngineRow
      BY <1>0 DEF EngineRow, Pcs
    <2>2. [eng EXCEPT !.pc = "redirect"] \in EngineRow
      BY <1>0, EngineUpdates DEF Pcs
    <2> QED BY <1>8, <2>1, <2>2, AnswerType DEF Steered, AfterSteerRefused
  <1>9. CASE InterruptForRedirect
    <2>1. [eng EXCEPT !.pc = "redirecting"] \in EngineRow /\ [eng EXCEPT !.pc = "restart"] \in EngineRow
      BY <1>0, EngineUpdates DEF Pcs
    <2>2. CASE Sent([eng EXCEPT !.pc = "redirecting"], "interrupt", 0)
      BY <1>2, <2>1, <2>2, SentType
    <2> QED BY <1>0, <1>9, <2>1, <2>2 DEF InterruptForRedirect
  <1>10. CASE Interrupted
    <2>1. [eng EXCEPT !.pc = "restart"] \in EngineRow /\ Ended(eng, "cancelled") \in EngineRow
      BY <1>0, EngineUpdates DEF Pcs, Results
    <2> QED BY <1>10, <2>1, AnswerType DEF Interrupted
  <1>11. CASE Restart
    <2>1. [eng EXCEPT !.pc = "idle", !.restarts = @ + 1] \in EngineRow
      <3>1. eng.restarts + 1 \in Nat
        BY Fields
      <3> QED BY <1>0, <3>1 DEF EngineRow, Pcs
    <2>2. Ended(eng, "failed") \in EngineRow
      BY <1>0, EngineUpdates DEF Results
    <2> QED BY <1>0, <1>11, <2>1, <2>2 DEF Restart
  <1> QED BY <1>2, <1>3, <1>4, <1>5, <1>6, <1>7, <1>8, <1>9, <1>10, <1>11

\* The steps of the engine that read events and end the decision or the loop.
LEMMA ReadingType ==
    ASSUME TypeOK, ReadFails \/ DropLate \/ Notified \/ Unexpected \/ Validate \/ Accept
                   \/ ToolCall \/ LegacyResult \/ LoopEnds \/ Aclose \/ Close
    PROVE  TypeOK'
  <1>0. eng \in EngineRow /\ srv \in ServerRow
    BY DEF TypeOK
  <1>1. ctl' = ctl
    BY DEF ReadFails, DropLate, Notified, Unexpected, Validate, Accept, ToolCall, LegacyResult,
           LoopEnds, Aclose, Close
  <1>2. /\ \A how \in Results : Ended(eng, how) \in EngineRow
        /\ \A p \in Pcs : [eng EXCEPT !.pc = p] \in EngineRow
    BY <1>0, EngineUpdates
  <1>3. /\ Ended(eng, "failed") \in EngineRow /\ Ended(eng, "cancelled") \in EngineRow
        /\ Ended(eng, "decided") \in EngineRow /\ Ended(eng, "planned") \in EngineRow
        /\ [eng EXCEPT !.pc = "poll"] \in EngineRow /\ [eng EXCEPT !.pc = "validate"] \in EngineRow
        /\ [eng EXCEPT !.pc = "restart"] \in EngineRow
    BY <1>2 DEF Pcs, Results
  <1>4. CASE ReadFails
    BY <1>0, <1>1, <1>3, <1>4 DEF ReadFails, TypeOK
  <1>5. CASE DropLate
    <2>1. eng' \in EngineRow /\ srv' \in ServerRow
      BY <1>3, <1>5, TakeEventType DEF DropLate
    <2> QED BY <1>1, <1>5, <2>1 DEF DropLate, TypeOK
  <1>6. CASE Notified
    <2>1. NextEvent \in Lines
      <3>1. CASE eng.events # << >>
        BY <3>1, Fields, Shortened DEF NextEvent
      <3>2. CASE eng.events = << >>
        BY <1>6, <3>2, Fields, Shortened DEF NextEvent, Notified, HasEvent
      <3> QED BY <3>1, <3>2
    <2>2. Append(eng.said, NextEvent) \in Seq(Lines)
      BY <2>1, Fields
    <2>3. [eng EXCEPT !.pc = "poll", !.said = Append(@, NextEvent)] \in EngineRow
      BY <1>0, <2>2 DEF EngineRow, Pcs
    <2>4. HasEvent /\ UNCHANGED <<load, ctl, decision, budget, legacy>>
      BY <1>6 DEF Notified
    <2>5. \/ TakeEvent(Ended(eng, "failed")) \/ TakeEvent([eng EXCEPT !.pc = "poll"])
          \/ TakeEvent([eng EXCEPT !.pc = "poll", !.said = Append(@, NextEvent)])
          \/ TakeEvent(Ended(eng, "cancelled")) \/ TakeEvent([eng EXCEPT !.pc = "validate"])
      BY <1>6 DEF Notified
    <2>6. eng' \in EngineRow /\ srv' \in ServerRow
      BY <1>3, <2>3, <2>4, <2>5, TakeEventType
    <2> QED BY <2>4, <2>6 DEF TypeOK
  <1>7. CASE Unexpected
    <2>1. eng' \in EngineRow /\ srv' \in ServerRow
      BY <1>3, <1>7, TakeEventType DEF Unexpected
    <2> QED BY <1>1, <1>7, <2>1 DEF Unexpected, TypeOK
  <1>8. CASE Validate
    <2> DEFINE e == [eng EXCEPT !.completed = @ \union {eng.turn}]
    <2>1. e \in EngineRow
      BY <1>0 DEF EngineRow
    <2>2. [e EXCEPT !.pc = "accept"] \in EngineRow /\ Ended(e, "failed") \in EngineRow
      <3> HIDE DEF e
      <3> QED BY <2>1, EngineUpdates DEF Pcs, Results
    <2>3. eng' \in EngineRow
      BY <1>8, <2>2 DEF Validate
    <2> QED BY <1>1, <1>8, <2>3 DEF Validate, TypeOK
  <1>9. CASE Accept
    <2>1. [eng EXCEPT !.pc = "idle", !.restarts = 0] \in EngineRow
      BY <1>0 DEF EngineRow, Pcs
    <2>2. eng' \in EngineRow
      BY <1>3, <1>9, <2>1 DEF Accept
    <2> QED BY <1>1, <1>9, <2>2 DEF Accept, TypeOK
  <1>10. CASE ToolCall
    <2>1. eng' \in EngineRow /\ srv' \in ServerRow /\ NextEvent \in Lines
      BY <1>3, <1>10, TakeEventType DEF ToolCall
    <2>2. NextEvent.turn \in Nat /\ NextEvent.about \in Steps
      BY <1>10, <2>1, LineKinds DEF ToolCall
    <2>3. legacy' \in LegacyRow
      <3>1. Staged(NextEvent.about) \in Seq(Steps) /\ ToSet(Staged(NextEvent.about)) \subseteq Steps
        BY <2>2, Fields DEF Staged, ToSet
      <3>2. legacy \in LegacyRow
        BY DEF TypeOK
      <3>3. legacy.ids \union {NextEvent.turn} \in SUBSET Nat
        BY <2>2, Fields
      <3>4. \A a \in {legacy.acked, legacy.acked \union {NextEvent.about}} : a \in SUBSET Steps
        BY <2>2, <3>2 DEF LegacyRow
      <3>5. \A a \in SUBSET Steps :
               [legacy EXCEPT !.ids = @ \union {NextEvent.turn}, !.staged = Staged(NextEvent.about),
                              !.acked = a] \in LegacyRow
        BY <3>1, <3>2, <3>3 DEF LegacyRow
      <3> QED BY <1>10, <3>2, <3>4, <3>5 DEF ToolCall
    <2> QED BY <1>1, <2>1, <2>3 DEF TypeOK
  <1>11. CASE LegacyResult
    <2>1. PICK structured \in UNION {[1..n -> Steps] : n \in 0..MaxStaged} :
             IF Reconciled(structured) = << >>
             THEN eng' = Ended(eng, "failed") /\ UNCHANGED legacy
             ELSE /\ eng' = Ended(eng, "planned")
                  /\ legacy' = [legacy EXCEPT !.plan = Reconciled(structured)[1]]
      BY <1>11, Zenon DEF LegacyResult
    <2>2. structured \in Seq(Steps)
      OBVIOUS
    <2>3. legacy \in LegacyRow /\ legacy.staged \in Seq(Steps)
      BY Fields DEF TypeOK
    <2>4. Reconciled(structured) = << >> \/ Reconciled(structured)[1] \in Seq(Steps)
      BY <2>2, <2>3 DEF Reconciled
    <2>5. \A p \in Seq(Steps) : [legacy EXCEPT !.plan = p] \in LegacyRow
      BY <2>3 DEF LegacyRow
    <2>6. legacy' \in LegacyRow /\ eng' \in EngineRow
      BY <1>3, <2>1, <2>3, <2>4, <2>5
    <2> QED BY <1>0, <1>1, <1>11, <2>6 DEF LegacyResult, TypeOK
  <1>12. CASE LoopEnds
    <2>1. [Ended(eng, "failed") EXCEPT !.pc = "closing"] \in EngineRow
      BY <1>3, EngineUpdates DEF Pcs
    <2>2. eng' \in EngineRow
      BY <1>3, <1>12, <2>1 DEF LoopEnds, AfterFailedAnswer
    <2> QED BY <1>1, <1>12, <2>2 DEF LoopEnds, TypeOK
  <1>13. CASE Aclose
    <2>1. \A p \in {"closing", "closed"} : [eng EXCEPT !.pc = p, !.held = FALSE, !.completed = {}] \in EngineRow
      BY <1>0 DEF EngineRow, Pcs
    <2>2. eng' \in EngineRow
      BY <1>13, <2>1 DEF Aclose
    <2> QED BY <1>1, <1>13, <2>2 DEF Aclose, TypeOK
  <1>14. CASE Close
    <2>1. [eng EXCEPT !.pc = "closed", !.dirs = {}] \in EngineRow
      BY <1>0 DEF EngineRow, Pcs
    <2>2. eng' \in EngineRow /\ srv' \in ServerRow
      BY <1>0, <1>14, <2>1, ServerUpdates DEF Close
    <2> QED BY <1>1, <1>14, <2>2 DEF Close, TypeOK
  <1> QED BY <1>4, <1>5, <1>6, <1>7, <1>8, <1>9, <1>10, <1>11, <1>12, <1>13, <1>14

\* Every step keeps the types.
LEMMA StepType == TypeOK /\ TurnInv /\ [SessionNext]_cvars => TypeOK'
  <1>1. CASE UNCHANGED cvars
    BY <1>1 DEF cvars, TypeOK
  <1>2. CASE SessionNext
    BY <1>2, ServerType, ControlType, ReadingType DEF SessionNext
  <1> QED BY <1>1, <1>2

---------------------------------------------------------------------------
(* What a step does with the pipe. *)

PipeInv == IdInv /\ TurnInv /\ OverInv

\* A step of the engine leaves the provider turns alone and names no turn that is not there.
OwnTurns ==
    /\ srv'.turns = srv.turns
    /\ eng'.turn \in {eng.turn, Len(srv.turns)}
    /\ eng'.completed \subseteq eng.completed \union {eng.turn}

\* It leaves the pipe alone,
Rests ==
    /\ OwnTurns /\ eng'.rid = eng.rid /\ eng'.events = eng.events
    /\ srv'.inbox = srv.inbox /\ srv'.out = srv.out

\* sends a request, perhaps after it took the answer to the one before,
Asks(r) ==
    /\ OwnTurns /\ r \in Requests /\ r.id = eng.rid + 1 /\ r.turn \in {0, eng.turn}
    /\ eng'.rid = eng.rid + 1 /\ eng'.events = eng.events
    /\ srv'.inbox = Append(srv.inbox, r)
    /\ srv'.out = srv.out \/ (srv.out # << >> /\ srv'.out = Tail(srv.out))

\* takes a line from the pipe or from the lines kept,
TakesLine ==
    /\ OwnTurns /\ eng'.rid = eng.rid /\ srv.out # << >> /\ srv'.inbox = srv.inbox
    /\ srv'.out = Tail(srv.out) /\ eng'.events = eng.events

TakesKept ==
    /\ OwnTurns /\ eng'.rid = eng.rid /\ eng.events # << >> /\ srv'.inbox = srv.inbox
    /\ eng'.events = Tail(eng.events) /\ srv'.out = srv.out

\* or keeps a line.
KeepsLine ==
    /\ OwnTurns /\ eng'.rid = eng.rid /\ srv.out # << >> /\ srv'.inbox = srv.inbox
    /\ srv'.out = Tail(srv.out) /\ eng'.events = Append(eng.events, Head(srv.out))
    /\ Head(srv.out).t # "response"

\* The facts about the state that the steps below rest on.
LEMMA PipeFacts ==
    ASSUME TypeOK
    PROVE  /\ srv.inbox \in Seq(Requests) /\ srv.out \in Seq(Lines) /\ eng.events \in Seq(Lines)
           /\ eng.said \in Seq(Lines)
           /\ eng.rid \in Nat /\ eng.turn \in Nat /\ eng.completed \subseteq Nat
           /\ srv.turns \in Seq(ProviderTurns) /\ Len(srv.turns) \in Nat /\ DOMAIN srv.turns = 1 .. Len(srv.turns)
           /\ \A i \in DOMAIN srv.turns : /\ srv.turns[i] \in ProviderTurns /\ srv.turns[i].heard \in Nat
                                          /\ srv.turns[i].told \in Nat \union {-1}
           /\ \A k \in DOMAIN srv.inbox : srv.inbox[k] \in Requests
  <1>1. srv.turns \in Seq(ProviderTurns)
    BY Fields
  <1>2. Len(srv.turns) \in Nat /\ DOMAIN srv.turns = 1 .. Len(srv.turns)
        /\ \A i \in DOMAIN srv.turns : srv.turns[i] \in ProviderTurns
    BY <1>1
  <1>3. \A t \in ProviderTurns : t.heard \in Nat /\ t.told \in Nat \union {-1}
    BY DEF ProviderTurns
  <1>4. \A k \in DOMAIN srv.inbox : srv.inbox[k] \in Requests
    BY Fields
  <1> QED BY <1>1, <1>2, <1>3, <1>4, Fields

\* What the engine names stays there.
LEMMA OwnTurnsKept ==
    ASSUME TypeOK, TurnInv, OwnTurns
    PROVE  eng'.turn <= Len(srv'.turns) /\ \A i \in eng'.completed : i <= Len(srv'.turns)
  BY PipeFacts DEF OwnTurns, TurnInv

LEMMA RestsPipe == ASSUME TypeOK, PipeInv, Rests PROVE PipeInv'
  <1>1. eng'.turn <= Len(srv'.turns) /\ \A i \in eng'.completed : i <= Len(srv'.turns)
    BY OwnTurnsKept DEF PipeInv, Rests
  <1> QED BY <1>1 DEF PipeInv, IdInv, TurnInv, OverInv, Rests, OwnTurns

LEMMA TakesLinePipe == ASSUME TypeOK, PipeInv, TakesLine PROVE PipeInv'
  <1>1. eng'.turn <= Len(srv'.turns) /\ \A i \in eng'.completed : i <= Len(srv'.turns)
    BY OwnTurnsKept DEF PipeInv, TakesLine
  <1>2. IdsInOrder(srv.inbox, Tail(srv.out), eng.rid)
    BY PipeFacts, IdsTaken DEF PipeInv, IdInv, TakesLine
  <1>3. NamesUpTo(Tail(srv.out), Len(srv.turns))
    BY PipeFacts, NamesKept DEF PipeInv, TurnInv, TakesLine
  <1>4. \A i \in DOMAIN srv.turns : Over(eng.events, Tail(srv.out), srv.turns[i], i)
    BY PipeFacts, OverTaken DEF PipeInv, OverInv, TakesLine
  <1> QED BY <1>1, <1>2, <1>3, <1>4 DEF PipeInv, IdInv, TurnInv, OverInv, TakesLine, OwnTurns

LEMMA TakesKeptPipe == ASSUME TypeOK, PipeInv, TakesKept PROVE PipeInv'
  <1>1. eng'.turn <= Len(srv'.turns) /\ \A i \in eng'.completed : i <= Len(srv'.turns)
    BY OwnTurnsKept DEF PipeInv, TakesKept
  <1>3. NamesUpTo(Tail(eng.events), Len(srv.turns))
    BY PipeFacts, NamesKept DEF PipeInv, TurnInv, TakesKept
  <1>4. \A i \in DOMAIN srv.turns : Over(Tail(eng.events), srv.out, srv.turns[i], i)
    BY PipeFacts, OverTaken DEF PipeInv, OverInv, TakesKept
  <1> QED BY <1>1, <1>3, <1>4 DEF PipeInv, IdInv, TurnInv, OverInv, TakesKept, OwnTurns

LEMMA KeepsLinePipe == ASSUME TypeOK, PipeInv, KeepsLine PROVE PipeInv'
  <1>1. eng'.turn <= Len(srv'.turns) /\ \A i \in eng'.completed : i <= Len(srv'.turns)
    BY OwnTurnsKept DEF PipeInv, KeepsLine
  <1>2. IdsInOrder(srv.inbox, Tail(srv.out), eng.rid)
    BY PipeFacts, IdsTaken DEF PipeInv, IdInv, KeepsLine
  <1>3. NamesUpTo(Tail(srv.out), Len(srv.turns)) /\ (Names(Head(srv.out)) => Head(srv.out).turn <= Len(srv.turns))
    BY PipeFacts, NamesKept DEF PipeInv, TurnInv, KeepsLine
  <1>4. Head(srv.out) \in Lines
    BY PipeFacts, Shortened DEF KeepsLine
  <1>5. NamesUpTo(Append(eng.events, Head(srv.out)), Len(srv.turns))
    BY <1>3, <1>4, PipeFacts, NamesKept DEF PipeInv, TurnInv
  <1>6. \A i \in DOMAIN srv.turns : Over(Append(eng.events, Head(srv.out)), Tail(srv.out), srv.turns[i], i)
    BY PipeFacts, OverKept DEF PipeInv, OverInv, KeepsLine
  <1> QED BY <1>1, <1>2, <1>3, <1>5, <1>6 DEF PipeInv, IdInv, TurnInv, OverInv, KeepsLine, OwnTurns

LEMMA AsksPipe == ASSUME TypeOK, PipeInv, NEW r, Asks(r) PROVE PipeInv'
  <1>1. eng'.turn <= Len(srv'.turns) /\ \A i \in eng'.completed : i <= Len(srv'.turns)
    BY OwnTurnsKept DEF PipeInv, Asks
  <1> DEFINE o == srv'.out
  <1>2. o \in Seq(Lines) /\ IdsInOrder(srv.inbox, o, eng.rid) /\ NamesUpTo(o, Len(srv.turns))
        /\ \A i \in DOMAIN srv.turns : Over(eng.events, o, srv.turns[i], i)
    <2>1. CASE o = srv.out
      BY <2>1, PipeFacts DEF PipeInv, IdInv, TurnInv, OverInv
    <2>2. CASE srv.out # << >> /\ o = Tail(srv.out)
      <3>1. Tail(srv.out) \in Seq(Lines) /\ IdsInOrder(srv.inbox, Tail(srv.out), eng.rid)
        BY <2>2, PipeFacts, IdsTaken, Shortened DEF PipeInv, IdInv
      <3>2. NamesUpTo(Tail(srv.out), Len(srv.turns))
        BY <2>2, PipeFacts, NamesKept DEF PipeInv, TurnInv
      <3>3. \A i \in DOMAIN srv.turns : Over(eng.events, Tail(srv.out), srv.turns[i], i)
        BY <2>2, PipeFacts, OverTaken DEF PipeInv, OverInv
      <3> QED BY <2>2, <3>1, <3>2, <3>3
    <2> QED BY <2>1, <2>2 DEF Asks
  <1>3. IdsInOrder(Append(srv.inbox, r), o, eng.rid + 1)
    BY <1>2, PipeFacts, IdsSent DEF Asks
  <1>4. \A k \in DOMAIN Append(srv.inbox, r) : Append(srv.inbox, r)[k].turn <= Len(srv.turns)
    <2>1. r.turn <= Len(srv.turns) /\ r \in Requests
      BY PipeFacts DEF Asks, PipeInv, TurnInv
    <2> QED BY <2>1, PipeFacts, Appended DEF PipeInv, TurnInv
  <1> QED BY <1>1, <1>2, <1>3, <1>4 DEF PipeInv, IdInv, TurnInv, OverInv, Asks, OwnTurns

\* A provider turn that no line names yet has said nothing.
LEMMA OverFresh ==
    ASSUME NEW events \in Seq(Lines), NEW out \in Seq(Lines), NEW n \in Nat,
           NamesUpTo(events, n), NamesUpTo(out, n), NEW t
    PROVE  Over(events, out, t, n + 1)
  <1>1. ASSUME NEW s \in Seq(Lines), NamesUpTo(s, n), NEW k \in DOMAIN s
        PROVE  ~MsgOf(s[k], n + 1) /\ ~EndOf(s[k], n + 1)
    <2>1. s[k].turn \in Nat /\ (Names(s[k]) => s[k].turn <= n)
      BY <1>1, LineKinds DEF NamesUpTo
    <2> QED BY <2>1 DEF Names, MsgOf, EndOf
  <1> QED BY <1>1 DEF Over, EndsLast, HasEnd, NoMsg

\* A line that says nothing of the turn changes nothing for it.
LEMMA OverResponse ==
    ASSUME NEW events \in Seq(Lines), NEW out \in Seq(Lines), NEW e \in Lines, NEW i, NEW t, NEW u,
           Over(events, out, t, i), ~MsgOf(e, i), ~EndOf(e, i), t.st = "running" \/ u = t
    PROVE  Over(events, Append(out, e), u, i)
  BY OverWritten

LEMMA HandlesPipe == ASSUME TypeOK, PipeInv, ServerHandles PROVE PipeInv'
  <1>0. eng' = eng
    BY DEF ServerHandles
  <1>1. PICK r : r = Head(srv.inbox)
    OBVIOUS
  <1>2. /\ srv.inbox # << >> /\ r \in Requests /\ Handled(r) /\ srv'.inbox = Tail(srv.inbox)
        /\ srv'.out \in Seq(Lines) /\ srv'.turns \in Seq(ProviderTurns)
    BY <1>1, HandlesForm DEF PipeInv
  <1>3. r.id \in Nat /\ r.turn \in Nat
    BY <1>2 DEF Requests
  <1>4. /\ \A ok \in BOOLEAN : /\ Response(r.id, ok) \in Lines /\ ~Names(Response(r.id, ok))
                               /\ \A i : ~MsgOf(Response(r.id, ok), i) /\ ~EndOf(Response(r.id, ok), i)
        /\ Event("completed", r.turn, "interrupted") \in Lines
        /\ Event("completed", r.turn, "interrupted").t = "completed"
        /\ Event("completed", r.turn, "interrupted").turn = r.turn
        /\ \A i : /\ ~MsgOf(Event("completed", r.turn, "interrupted"), i)
                  /\ ~EndOf(Event("completed", r.turn, "interrupted"), i)
    <2>1. (\A ok \in BOOLEAN : Response(r.id, ok) \in Lines) /\ Event("completed", r.turn, "interrupted") \in Lines
      BY <1>3, WrittenLines
    <2>2. /\ \A ok \in BOOLEAN : /\ ~Names(Response(r.id, ok))
                                 /\ \A i : ~MsgOf(Response(r.id, ok), i) /\ ~EndOf(Response(r.id, ok), i)
          /\ Event("completed", r.turn, "interrupted").t = "completed"
          /\ Event("completed", r.turn, "interrupted").turn = r.turn
          /\ \A i : /\ ~MsgOf(Event("completed", r.turn, "interrupted"), i)
                    /\ ~EndOf(Event("completed", r.turn, "interrupted"), i)
      BY DEF Response, Event, Names, MsgOf, EndOf
    <2> QED BY <2>1, <2>2
  <1>5. /\ \A ok \in BOOLEAN : IdsInOrder(Tail(srv.inbox), Append(srv.out, Response(r.id, ok)), eng.rid)
        /\ Len(srv.turns) \in Nat
    BY <1>1, <1>2, PipeFacts, IdsAnswered DEF PipeInv, IdInv
  <1>6. r.turn <= Len(srv.turns) /\ \A k \in DOMAIN Tail(srv.inbox) : Tail(srv.inbox)[k].turn <= Len(srv.turns)
    <2>1. /\ DOMAIN srv.inbox = 1 .. Len(srv.inbox) /\ Len(srv.inbox) \in Nat /\ Len(srv.inbox) > 0
          /\ r = srv.inbox[1] /\ DOMAIN Tail(srv.inbox) = 1 .. (Len(srv.inbox) - 1)
          /\ \A k \in DOMAIN Tail(srv.inbox) : Tail(srv.inbox)[k] = srv.inbox[k + 1]
      BY <1>1, <1>2, PipeFacts, Shortened
    <2>2. 1 \in DOMAIN srv.inbox /\ \A k \in DOMAIN Tail(srv.inbox) : k + 1 \in DOMAIN srv.inbox
      BY <2>1
    <2> QED BY <2>1, <2>2 DEF PipeInv, TurnInv
  <1>7. \A ok \in BOOLEAN : NamesUpTo(Append(srv.out, Response(r.id, ok)), Len(srv.turns))
    BY <1>4, PipeFacts, NamesKept DEF PipeInv, TurnInv
  <1>8. ASSUME NEW ok \in BOOLEAN, NEW i \in DOMAIN srv.turns, NEW u, srv.turns[i].st = "running" \/ u = srv.turns[i]
        PROVE  Over(eng.events, Append(srv.out, Response(r.id, ok)), u, i)
    BY <1>4, <1>8, PipeFacts, OverResponse DEF PipeInv, OverInv
  <1>9. CASE HandledTurn(r)
    <2> DEFINE new == [st |-> "running", heard |-> r.upto, told |-> -1, noted |-> FALSE]
    <2>1. srv'.turns = Append(srv.turns, new) /\ srv'.out = Append(srv.out, Response(r.id, TRUE))
      BY <1>9 DEF HandledTurn
    <2>2. new \in ProviderTurns
      BY <1>2 DEF ProviderTurns, Requests
    <2> HIDE DEF new
    <2>3. /\ Len(srv'.turns) = Len(srv.turns) + 1
          /\ DOMAIN srv'.turns = DOMAIN srv.turns \union {Len(srv.turns) + 1}
          /\ \A i \in DOMAIN srv.turns : srv'.turns[i] = srv.turns[i]
      BY <2>1, <2>2, PipeFacts, Appended
    <2>4. NamesUpTo(srv'.out, Len(srv.turns)) /\ NamesUpTo(eng.events, Len(srv.turns))
      BY <1>7, <2>1 DEF PipeInv, TurnInv
    <2>5. NamesUpTo(srv'.out, Len(srv'.turns)) /\ NamesUpTo(eng.events, Len(srv'.turns))
      BY <1>2, <1>5, <2>3, <2>4, PipeFacts, NamesKept
    <2>6. /\ eng.turn <= Len(srv'.turns) /\ \A i \in eng.completed : i <= Len(srv'.turns)
      BY <1>5, <2>3, PipeFacts DEF PipeInv, TurnInv
    <2>7. \A k \in DOMAIN Tail(srv.inbox) : Tail(srv.inbox)[k].turn <= Len(srv'.turns)
      <3>1. Tail(srv.inbox) \in Seq(Requests)
        BY <1>2, PipeFacts, Shortened
      <3>2. \A k \in DOMAIN Tail(srv.inbox) : Tail(srv.inbox)[k] \in Requests
        BY <3>1
      <3> QED BY <1>5, <1>6, <2>3, <3>2 DEF Requests
    <2>8. \A i \in DOMAIN srv'.turns : Over(eng.events, srv'.out, srv'.turns[i], i)
      <3>1. ASSUME NEW i \in DOMAIN srv.turns PROVE Over(eng.events, srv'.out, srv'.turns[i], i)
        BY <1>8, <2>1, <2>3
      <3>2. Over(eng.events, srv'.out, srv'.turns[Len(srv.turns) + 1], Len(srv.turns) + 1)
        BY <1>2, <2>4, PipeFacts, OverFresh
      <3> QED BY <2>3, <3>1, <3>2
    <2> QED BY <1>0, <1>2, <1>5, <2>1, <2>5, <2>6, <2>7, <2>8 DEF PipeInv, IdInv, TurnInv, OverInv
  <1>10. CASE HandledPlainly(r)
    <2>1. PICK ok \in BOOLEAN : srv'.turns = srv.turns /\ srv'.out = Append(srv.out, Response(r.id, ok))
      BY <1>10 DEF HandledPlainly
    <2>2. \A i \in DOMAIN srv'.turns : Over(eng.events, srv'.out, srv'.turns[i], i)
      BY <1>8, <2>1
    <2> QED BY <1>0, <1>2, <1>5, <1>6, <1>7, <2>1, <2>2 DEF PipeInv, IdInv, TurnInv, OverInv
  <1>11. CASE HandledSteer(r)
    <2>0. /\ r.turn \in DOMAIN srv.turns /\ srv.turns[r.turn].st = "running"
          /\ srv'.turns = [srv.turns EXCEPT ![r.turn] = [@ EXCEPT !.heard = r.upto]]
          /\ srv'.out = Append(srv.out, Response(r.id, TRUE))
      BY <1>11 DEF HandledSteer
    <2>1. Len(srv'.turns) = Len(srv.turns) /\ DOMAIN srv'.turns = DOMAIN srv.turns
          /\ \A i \in DOMAIN srv.turns : i # r.turn => srv'.turns[i] = srv.turns[i]
      BY <2>0, PipeFacts
    <2>2. \A i \in DOMAIN srv'.turns : Over(eng.events, srv'.out, srv'.turns[i], i)
      <3>1. ASSUME NEW i \in DOMAIN srv.turns PROVE Over(eng.events, srv'.out, srv'.turns[i], i)
        <4>1. srv.turns[i].st = "running" \/ srv'.turns[i] = srv.turns[i]
          BY <2>0, <2>1
        <4>2. Over(eng.events, Append(srv.out, Response(r.id, TRUE)), srv'.turns[i], i)
          BY <1>8, <4>1
        <4> QED BY <2>0, <4>2
      <3> QED BY <2>1, <3>1
    <2> QED BY <1>0, <1>2, <1>5, <1>6, <1>7, <2>0, <2>1, <2>2 DEF PipeInv, IdInv, TurnInv, OverInv
  <1>12. CASE HandledStop(r)
    <2>a. /\ r.turn \in DOMAIN srv.turns /\ srv.turns[r.turn].st = "running"
          /\ srv'.turns = [srv.turns EXCEPT ![r.turn] = [@ EXCEPT !.st = "interrupted"]]
          /\ srv'.out = Append(Append(srv.out, Event("completed", r.turn, "interrupted")),
                               Response(r.id, TRUE))
      BY <1>12 DEF HandledStop
    <2> DEFINE e == Event("completed", r.turn, "interrupted")
               o == Append(srv.out, e)
    <2>0. e \in Lines /\ e.t = "completed" /\ e.turn = r.turn /\ \A i : ~MsgOf(e, i) /\ ~EndOf(e, i)
      BY <1>4
    <2>1. Len(srv'.turns) = Len(srv.turns) /\ DOMAIN srv'.turns = DOMAIN srv.turns
          /\ \A i \in DOMAIN srv.turns : i # r.turn => srv'.turns[i] = srv.turns[i]
      BY <2>a, PipeFacts
    <2> HIDE DEF e
    <2>2. o \in Seq(Lines) /\ NamesUpTo(o, Len(srv.turns)) /\ IdsInOrder(srv.inbox, o, eng.rid)
      <3>1. o \in Seq(Lines)
        BY <2>0, PipeFacts
      <3>2. NamesUpTo(o, Len(srv.turns))
        BY <1>6, <2>0, PipeFacts, NamesKept DEF PipeInv, TurnInv
      <3>3. IdsInOrder(srv.inbox, o, eng.rid)
        BY <2>0, PipeFacts, IdsWritten DEF PipeInv, IdInv
      <3> QED BY <3>1, <3>2, <3>3
    <2>3. ASSUME NEW i \in DOMAIN srv.turns PROVE Over(eng.events, o, srv.turns[i], i)
      BY <2>0, PipeFacts, OverResponse DEF PipeInv, OverInv
    <2>4. srv'.out = Append(o, Response(r.id, TRUE))
      BY <2>a DEF e
    <2> HIDE DEF o
    <2>5. ASSUME NEW i \in DOMAIN srv.turns PROVE Over(eng.events, srv'.out, srv'.turns[i], i)
      <3>1. srv.turns[i].st = "running" \/ srv'.turns[i] = srv.turns[i]
        BY <2>a, <2>1
      <3>2. Over(eng.events, o, srv.turns[i], i) /\ eng.events \in Seq(Lines)
        BY <2>3, PipeFacts
      <3>3. Response(r.id, TRUE) \in Lines /\ ~MsgOf(Response(r.id, TRUE), i) /\ ~EndOf(Response(r.id, TRUE), i)
        BY <1>4
      <3>4. Over(eng.events, Append(o, Response(r.id, TRUE)), srv'.turns[i], i)
        BY <2>2, <3>1, <3>2, <3>3, OverResponse
      <3> QED BY <2>4, <3>4
    <2>6. IdsInOrder(Tail(srv.inbox), srv'.out, eng.rid)
      BY <1>1, <1>2, <2>2, <2>4, PipeFacts, IdsAnswered
    <2>7. NamesUpTo(srv'.out, Len(srv.turns))
      BY <1>4, <2>2, <2>4, PipeFacts, NamesKept
    <2> QED BY <1>0, <1>2, <1>6, <2>1, <2>5, <2>6, <2>7 DEF PipeInv, IdInv, TurnInv, OverInv
  <1> QED BY <1>2, <1>9, <1>10, <1>11, <1>12 DEF Handled

LEMMA SaysPipe == ASSUME TypeOK, PipeInv, ProviderSays PROVE PipeInv'
  <1>0. eng' = eng
    BY DEF ProviderSays
  <1>1. PICK i \in DOMAIN srv.turns, t2 \in ProviderTurns, line \in Lines : SaysLine(i, t2, line)
    BY SaysForm
  <1>2. /\ srv'.inbox = srv.inbox /\ srv'.out = Append(srv.out, line)
        /\ srv'.turns = [srv.turns EXCEPT ![i] = t2]
    BY <1>1 DEF TypeOK, ServerRow, SaysLine
  <1>a. /\ Names(line) /\ line.turn = i
        /\ t2.heard = srv.turns[i].heard
        /\ line.t = "message" => srv.turns[i].st = "running" /\ t2.st = "running" /\ t2.told = line.about
        /\ line.t # "message" => t2.told = srv.turns[i].told
        /\ line.t = "completed" => t2.st # "running" /\ t2.told = t2.heard
        /\ srv.turns[i].st # "running" => t2.st = srv.turns[i].st
    BY <1>1 DEF SaysLine
  <1>3. Len(srv'.turns) = Len(srv.turns) /\ DOMAIN srv'.turns = DOMAIN srv.turns /\ srv'.turns[i] = t2
        /\ \A j \in DOMAIN srv.turns : j # i => srv'.turns[j] = srv.turns[j]
    BY <1>2, PipeFacts
  <1>4. IdsInOrder(srv.inbox, Append(srv.out, line), eng.rid)
    BY <1>a, PipeFacts, IdsWritten DEF PipeInv, IdInv, Names
  <1>5. NamesUpTo(Append(srv.out, line), Len(srv.turns))
    <2>1. i <= Len(srv.turns)
      BY PipeFacts
    <2> QED BY <1>a, <2>1, PipeFacts, NamesKept DEF PipeInv, TurnInv
  <1>6. ASSUME NEW j \in DOMAIN srv.turns PROVE Over(eng.events, Append(srv.out, line), srv'.turns[j], j)
    <2>0. Over(eng.events, srv.out, srv.turns[j], j)
      BY DEF PipeInv, OverInv
    <2>1. CASE j = i
      <3>1. MsgOf(line, j) => srv.turns[j].st = "running"
        BY <1>a, <2>1 DEF MsgOf
      <3>2. EndOf(line, j) => t2.st # "running" /\ t2.told = t2.heard
        BY <1>a, <2>1 DEF EndOf
      <3>3. srv.turns[j].st # "running" => t2.st # "running" /\ t2.told = srv.turns[j].told
                                           /\ t2.heard = srv.turns[j].heard
        BY <1>a, <2>1
      <3> QED BY <1>3, <2>0, <2>1, <3>1, <3>2, <3>3, PipeFacts, OverWritten
    <2>2. CASE j # i
      <3>1. ~MsgOf(line, j) /\ ~EndOf(line, j) /\ srv'.turns[j] = srv.turns[j]
        BY <1>a, <1>3, <2>2 DEF MsgOf, EndOf
      <3> QED BY <2>0, <3>1, PipeFacts, OverResponse
    <2> QED BY <2>1, <2>2
  <1> QED BY <1>0, <1>2, <1>3, <1>4, <1>5, <1>6 DEF PipeInv, IdInv, TurnInv, OverInv

LEMMA CallsPipe == ASSUME TypeOK, PipeInv, ProviderCalls PROVE PipeInv'
  <1>0. eng' = eng
    BY DEF ProviderCalls
  <1>1. PICK id \in {legacy.sent, legacy.sent + 1}, s \in Steps :
             srv' = [srv EXCEPT !.out = Append(@, Event("call", id, s))]
    BY DEF ProviderCalls
  <1>2. PICK line : line = Event("call", id, s)
    OBVIOUS
  <1>3. line \in Lines /\ line.t = "call"
    <2>1. id \in Nat
      BY Fields
    <2> QED BY <1>2, <2>1, WrittenLines DEF Event
  <1>4. ~Names(line) /\ \A i : ~MsgOf(line, i) /\ ~EndOf(line, i)
    BY <1>3 DEF Names, MsgOf, EndOf
  <1>5. srv'.inbox = srv.inbox /\ srv'.turns = srv.turns /\ srv'.out = Append(srv.out, line)
    BY <1>1, <1>2 DEF TypeOK, ServerRow
  <1>6. IdsInOrder(srv.inbox, Append(srv.out, line), eng.rid)
    BY <1>3, PipeFacts, IdsWritten DEF PipeInv, IdInv
  <1>7. NamesUpTo(Append(srv.out, line), Len(srv.turns))
    BY <1>3, <1>4, PipeFacts, NamesKept DEF PipeInv, TurnInv
  <1>8. \A j \in DOMAIN srv.turns : Over(eng.events, Append(srv.out, line), srv.turns[j], j)
    BY <1>3, <1>4, PipeFacts, OverResponse DEF PipeInv, OverInv
  <1> QED BY <1>0, <1>5, <1>6, <1>7, <1>8 DEF PipeInv, IdInv, TurnInv, OverInv

\* An engine that differs from the present one only beside the pipe.
Beside(e) ==
    /\ e \in EngineRow
    /\ e.turn = eng.turn /\ e.completed = eng.completed /\ e.rid = eng.rid /\ e.events = eng.events

\* The engines that the steps below move to.
LEMMA BesideForms ==
    ASSUME TypeOK
    PROVE  /\ Beside(eng)
           /\ \A how \in Results : Beside(Ended(eng, how)) /\ Beside([Ended(eng, how) EXCEPT !.pc = "closing"])
           /\ \A p \in Pcs : Beside([eng EXCEPT !.pc = p])
  <1>1. eng \in EngineRow
    BY DEF TypeOK
  <1>2. \A how \in Results : Ended(eng, how) \in EngineRow
    BY <1>1, EngineUpdates
  <1>3. \A how \in Results : [Ended(eng, how) EXCEPT !.pc = "closing"] \in EngineRow
    BY <1>2, EngineUpdates DEF Pcs
  <1>4. \A p \in Pcs : [eng EXCEPT !.pc = p] \in EngineRow
    BY <1>1, EngineUpdates
  <1> QED BY <1>1, <1>2, <1>3, <1>4 DEF Beside, Ended, EngineRow

\* What a step does, by the way it moves the engine.
LEMMA RestsForm ==
    ASSUME TypeOK, NEW e, Beside(e), eng' = e, srv'.inbox = srv.inbox, srv'.out = srv.out, srv'.turns = srv.turns
    PROVE  Rests
  BY DEF Beside, Rests, OwnTurns

LEMMA TakesForm ==
    ASSUME TypeOK, NEW e, Beside(e), eng' = e, srv.out # << >>, srv' = [srv EXCEPT !.out = Tail(@)]
    PROVE  TakesLine
  BY DEF Beside, TakesLine, OwnTurns, TypeOK, ServerRow

LEMMA EventForm ==
    ASSUME TypeOK, NEW e, Beside(e), HasEvent, TakeEvent(e)
    PROVE  TakesLine \/ TakesKept
  <1>1. CASE eng.events # << >>
    BY <1>1 DEF Beside, TakesKept, OwnTurns, TypeOK, TakeEvent, EngineRow
  <1>2. CASE eng.events = << >>
    BY <1>2, TakesForm DEF TakeEvent, HasEvent
  <1> QED BY <1>1, <1>2

LEMMA FailsForm ==
    ASSUME TypeOK, NEW e, Beside(e), eng' = e, AnswerFails
    PROVE  Rests \/ TakesLine
  <1>1. CASE srv.out = << >>
    BY <1>1, RestsForm DEF AnswerFails
  <1>2. CASE srv.out # << >>
    BY <1>2, TakesForm DEF AnswerFails
  <1> QED BY <1>1, <1>2

LEMMA SentForm ==
    ASSUME TypeOK, NEW e, Beside(e), NEW upto \in Nat,
           NEW kind \in {"thread", "turn", "steer", "interrupt"}, Sent(e, kind, upto)
    PROVE  /\ Asks([id |-> eng.rid + 1, kind |-> kind, turn |-> eng.turn, upto |-> upto])
           /\ srv'.out = srv.out
  <1> DEFINE r == [id |-> eng.rid + 1, kind |-> kind, turn |-> eng.turn, upto |-> upto]
  <1>1. eng.rid + 1 \in Nat /\ eng.turn \in Nat
    BY Fields
  <1>2. r \in Requests /\ r.id = eng.rid + 1 /\ r.turn = eng.turn
    BY <1>1 DEF Requests
  <1> HIDE DEF r
  <1>3. srv'.inbox = Append(srv.inbox, r) /\ srv'.out = srv.out /\ srv'.turns = srv.turns
    BY DEF Sent, TypeOK, ServerRow, r
  <1>4. eng'.rid = eng.rid + 1 /\ eng'.turn = eng.turn /\ eng'.completed = eng.completed /\ eng'.events = eng.events
    BY <1>1 DEF Sent, Beside, EngineRow
  <1>5. Asks(r)
    BY <1>2, <1>3, <1>4 DEF Asks, OwnTurns
  <1> QED BY <1>3, <1>5 DEF r

\* The steps that send something or wait for an answer,
LEMMA ControlMoves ==
    ASSUME TypeOK, OpenInv, Pass \/ Proceeds \/ StartingFails \/ Buffers \/ CheckControl \/ Steered
                            \/ InterruptForRedirect \/ Interrupted \/ Restart
    PROVE  Rests \/ TakesLine \/ KeepsLine \/ \E r : Asks(r)
  <1>0. eng \in EngineRow /\ srv \in ServerRow
    BY DEF TypeOK
  <1>1. /\ Beside(eng) /\ Beside(Ended(eng, "failed")) /\ Beside(Ended(eng, "cancelled"))
        /\ Beside([Ended(eng, "failed") EXCEPT !.pc = "closing"])
        /\ \A p \in Pcs : Beside([eng EXCEPT !.pc = p])
    BY BesideForms DEF Results
  <1>2. CASE Pass
    <2>1. CASE eng' = Ended(eng, "cancelled") /\ UNCHANGED srv
      BY <1>1, <2>1, RestsForm
    <2>2. CASE StartClient /\ ~eng.held
      <3>1. CASE eng' = Ended(eng, "failed") /\ UNCHANGED srv
        BY <1>1, <3>1, RestsForm
      <3>2. CASE /\ eng' = [eng EXCEPT !.dirs = {"cwd", "home"}, !.pc = "initialize", !.rid = 1]
                 /\ srv' = [srv EXCEPT !.proc = "running",
                               !.inbox = <<[id |-> 1, kind |-> "initialize", turn |-> 0, upto |-> 0]>>]
        <4> DEFINE r == [id |-> 1, kind |-> "initialize", turn |-> 0, upto |-> 0]
        <4>1. eng.rid = 0 /\ srv.inbox = << >>
          BY <1>2, <2>2 DEF Pass, OpenInv
        <4>2. r \in Requests /\ r.id = 1 /\ r.turn = 0
          BY DEF Requests
        <4>3. srv' = [srv EXCEPT !.proc = "running", !.inbox = <<r>>]
          BY <3>2
        <4> HIDE DEF r
        <4>4. srv'.inbox = <<r>> /\ srv'.out = srv.out /\ srv'.turns = srv.turns
          BY <1>0, <4>3 DEF ServerRow
        <4>5. <<r>> = Append(srv.inbox, r)
          BY <4>1
        <4>6. eng'.rid = 1 /\ eng'.turn = eng.turn /\ eng'.completed = eng.completed /\ eng'.events = eng.events
          BY <1>0, <3>2 DEF EngineRow
        <4>7. Asks(r)
          BY <4>1, <4>2, <4>4, <4>5, <4>6 DEF Asks, OwnTurns
        <4> QED BY <4>7
      <3> QED BY <2>2, <3>1, <3>2 DEF StartClient
    <2> DEFINE e == [eng EXCEPT !.steered = ctl.seq, !.said = << >>]
    <2>3. Beside([e EXCEPT !.pc = "thread"]) /\ Beside(Ended(e, "failed"))
      <3>1. ctl.seq \in Nat /\ << >> \in Seq(Lines)
        BY Fields
      <3>2. e \in EngineRow /\ e.turn = eng.turn /\ e.completed = eng.completed /\ e.rid = eng.rid
            /\ e.events = eng.events
        BY <1>0, <3>1 DEF EngineRow
      <3> HIDE DEF e
      <3>3. [e EXCEPT !.pc = "thread"] \in EngineRow /\ Ended(e, "failed") \in EngineRow
        BY <3>2, EngineUpdates DEF Pcs, Results
      <3> QED BY <3>2, <3>3 DEF Beside, EngineRow, Ended
    <2> HIDE DEF e
    <2>4. CASE Sent([e EXCEPT !.pc = "thread"], "thread", 0)
      BY <2>3, <2>4, SentForm
    <2>5. CASE eng' = Ended(e, "failed") /\ UNCHANGED srv
      BY <2>3, <2>5, RestsForm
    <2> QED BY <1>2, <2>1, <2>2, <2>4, <2>5 DEF Pass, e
  <1>3. CASE Proceeds
    <2>0. srv.out # << >>
      BY <1>3 DEF Proceeds, AnswerRead
    <2>1. CASE eng.pc = "initialize"
      <3>1. Beside([eng EXCEPT !.held = TRUE, !.pc = "idle"])
        BY <1>0 DEF Beside, EngineRow, Pcs
      <3> QED BY <1>3, <2>0, <2>1, <3>1, TakesForm DEF Proceeds
    <2>2. CASE eng.pc = "thread"
      <3> DEFINE r == [id |-> eng.rid + 1, kind |-> "turn", turn |-> 0, upto |-> eng.steered]
      <3>1. eng.rid + 1 \in Nat /\ eng.steered \in Nat
        BY Fields
      <3>2. r \in Requests /\ r.id = eng.rid + 1 /\ r.turn = 0
        BY <3>1 DEF Requests
      <3>3. /\ srv' = [srv EXCEPT !.out = Tail(@), !.inbox = Append(@, r)]
            /\ eng' = [eng EXCEPT !.pc = "turn", !.rid = @ + 1]
        BY <1>3, <2>2 DEF Proceeds
      <3> HIDE DEF r
      <3>4. srv'.inbox = Append(srv.inbox, r) /\ srv'.out = Tail(srv.out) /\ srv'.turns = srv.turns
        BY <1>0, <3>3 DEF ServerRow
      <3>5. eng'.rid = eng.rid + 1 /\ eng'.turn = eng.turn /\ eng'.completed = eng.completed
            /\ eng'.events = eng.events
        BY <1>0, <3>3 DEF EngineRow
      <3>6. Asks(r)
        BY <2>0, <3>2, <3>4, <3>5 DEF Asks, OwnTurns
      <3> QED BY <3>6
    <2>3. CASE eng.pc = "turn"
      <3>1. /\ eng' = [eng EXCEPT !.pc = "poll", !.turn = Len(srv.turns)]
            /\ srv' = [srv EXCEPT !.out = Tail(@)]
        BY <1>3, <2>3 DEF Proceeds
      <3>2. eng'.turn = Len(srv.turns) /\ eng'.completed = eng.completed /\ eng'.rid = eng.rid
            /\ eng'.events = eng.events
        BY <1>0, <3>1 DEF EngineRow
      <3>3. srv'.out = Tail(srv.out) /\ srv'.inbox = srv.inbox /\ srv'.turns = srv.turns
        BY <1>0, <3>1 DEF ServerRow
      <3> QED BY <2>0, <3>2, <3>3 DEF TakesLine, OwnTurns
    <2> QED BY <1>3, <2>1, <2>2, <2>3 DEF Proceeds
  <1>4. CASE StartingFails
    BY <1>1, <1>4, FailsForm DEF StartingFails, AfterFailedAnswer
  <1>5. CASE Buffers
    <2>1. srv.out # << >> /\ eng' = [eng EXCEPT !.events = Append(@, Head(srv.out))]
          /\ srv' = [srv EXCEPT !.out = Tail(@)] /\ Head(srv.out).t # "response"
      BY <1>5 DEF Buffers
    <2>2. eng'.turn = eng.turn /\ eng'.completed = eng.completed /\ eng'.rid = eng.rid
          /\ eng'.events = Append(eng.events, Head(srv.out))
      BY <1>0, <2>1 DEF EngineRow
    <2>3. srv'.out = Tail(srv.out) /\ srv'.inbox = srv.inbox /\ srv'.turns = srv.turns
      BY <1>0, <2>1 DEF ServerRow
    <2> QED BY <2>1, <2>2, <2>3 DEF KeepsLine, OwnTurns
  <1>6. CASE CheckControl
    <2>0. \A p \in {"stopping", "restart", "read"} : Beside([eng EXCEPT !.pc = p])
      BY <1>1 DEF Pcs
    <2>1. CASE Sent([eng EXCEPT !.pc = "stopping"], "interrupt", 0)
      BY <2>0, <2>1, SentForm
    <2>2. CASE Sent([eng EXCEPT !.pc = "steer", !.offered = ctl.seq], "steer", ctl.seq)
      <3>1. ctl.seq \in Nat
        BY Fields
      <3>2. Beside([eng EXCEPT !.pc = "steer", !.offered = ctl.seq])
        BY <1>0, <3>1 DEF Beside, EngineRow, Pcs
      <3> QED BY <2>2, <3>1, <3>2, SentForm
    <2>3. CASE srv' = srv /\ eng' \in {Ended(eng, "cancelled"), [eng EXCEPT !.pc = "restart"], [eng EXCEPT !.pc = "read"]}
      BY <1>1, <2>0, <2>3, RestsForm
    <2> QED BY <1>6, <2>1, <2>2, <2>3 DEF CheckControl
  <1>7. CASE Steered
    <2>0. Beside([eng EXCEPT !.pc = "redirect"]) /\ Beside([eng EXCEPT !.pc = "poll", !.steered = eng.offered])
      <3>1. Beside([eng EXCEPT !.pc = "redirect"])
        BY <1>1 DEF Pcs
      <3>2. Beside([eng EXCEPT !.pc = "poll", !.steered = eng.offered])
        BY <1>0 DEF Beside, EngineRow, Pcs
      <3> QED BY <3>1, <3>2
    <2>1. CASE AnswerRead
      BY <1>7, <2>0, <2>1, TakesForm, FailsForm DEF Steered, AnswerRead, AfterSteerRefused
    <2>2. CASE AnswerFails /\ eng' = AfterSteerRefused
      BY <2>0, <2>2, FailsForm DEF AfterSteerRefused
    <2> QED BY <1>7, <2>1, <2>2 DEF Steered
  <1>8. CASE InterruptForRedirect
    <2>0. \A p \in {"redirecting", "restart"} : Beside([eng EXCEPT !.pc = p])
      BY <1>1 DEF Pcs
    <2>1. CASE Sent([eng EXCEPT !.pc = "redirecting"], "interrupt", 0)
      BY <2>0, <2>1, SentForm
    <2> QED BY <1>8, <2>0, <2>1, RestsForm DEF InterruptForRedirect
  <1>9. CASE Interrupted
    <2>0. Beside([eng EXCEPT !.pc = "restart"])
      BY <1>1 DEF Pcs
    <2>2. CASE AnswerRead /\ srv' = [srv EXCEPT !.out = Tail(@)]
      BY <1>1, <1>9, <2>0, <2>2, TakesForm DEF Interrupted, AnswerRead
    <2>3. CASE AnswerFails
      BY <1>1, <1>9, <2>0, <2>3, FailsForm DEF Interrupted
    <2> QED BY <1>9, <2>2, <2>3 DEF Interrupted
  <1>10. CASE Restart
    <2>1. eng.restarts + 1 \in Nat
      BY Fields
    <2>2. Beside([eng EXCEPT !.pc = "idle", !.restarts = @ + 1])
      BY <1>0, <2>1 DEF Beside, EngineRow, Pcs
    <2> QED BY <1>1, <1>10, <2>2, RestsForm DEF Restart
  <1> QED BY <1>2, <1>3, <1>4, <1>5, <1>6, <1>7, <1>8, <1>9, <1>10

\* and those that read events and end the decision or the loop.
LEMMA ReadingMoves ==
    ASSUME TypeOK, ReadFails \/ DropLate \/ Notified \/ Unexpected \/ Validate \/ Accept
                   \/ ToolCall \/ LegacyResult \/ LoopEnds \/ Aclose \/ Close
    PROVE  Rests \/ TakesLine \/ TakesKept
  <1>0. eng \in EngineRow /\ srv \in ServerRow
    BY DEF TypeOK
  <1>1. /\ Beside(eng) /\ Beside(Ended(eng, "failed")) /\ Beside(Ended(eng, "cancelled"))
        /\ Beside(Ended(eng, "decided")) /\ Beside(Ended(eng, "planned"))
        /\ Beside([Ended(eng, "failed") EXCEPT !.pc = "closing"])
        /\ \A p \in Pcs : Beside([eng EXCEPT !.pc = p])
    BY BesideForms DEF Results
  <1>2. \A p \in {"poll", "validate", "restart"} : Beside([eng EXCEPT !.pc = p])
    BY <1>1 DEF Pcs
  <1>3. CASE ReadFails
    BY <1>1, <1>2, <1>3, RestsForm DEF ReadFails
  <1>4. CASE DropLate
    BY <1>1, <1>2, <1>4, EventForm DEF DropLate
  <1>5. CASE Notified
    <2>1. HasEvent /\ NextEvent \in Lines
      <3>1. CASE eng.events # << >>
        BY <1>5, <3>1, Fields, Shortened DEF NextEvent, Notified
      <3>2. CASE eng.events = << >>
        BY <1>5, <3>2, Fields, Shortened DEF NextEvent, Notified, HasEvent
      <3> QED BY <3>1, <3>2
    <2>2. Append(eng.said, NextEvent) \in Seq(Lines)
      BY <2>1, Fields
    <2>3. Beside([eng EXCEPT !.pc = "poll", !.said = Append(@, NextEvent)])
      BY <1>0, <2>2 DEF Beside, EngineRow, Pcs
    <2>4. \/ TakeEvent(Ended(eng, "failed")) \/ TakeEvent([eng EXCEPT !.pc = "poll"])
          \/ TakeEvent([eng EXCEPT !.pc = "poll", !.said = Append(@, NextEvent)])
          \/ TakeEvent(Ended(eng, "cancelled")) \/ TakeEvent([eng EXCEPT !.pc = "validate"])
      BY <1>5 DEF Notified
    <2> QED BY <1>1, <1>2, <2>1, <2>3, <2>4, EventForm
  <1>6. CASE Unexpected
    BY <1>1, <1>6, EventForm DEF Unexpected
  <1>7. CASE Validate
    <2>1. srv' = srv /\ eng'.turn = eng.turn /\ eng'.completed = eng.completed \union {eng.turn}
          /\ eng'.rid = eng.rid /\ eng'.events = eng.events
      BY <1>0, <1>7 DEF Validate, Ended, EngineRow
    <2> QED BY <2>1 DEF Rests, OwnTurns
  <1>8. CASE Accept
    <2>1. Beside([eng EXCEPT !.pc = "idle", !.restarts = 0])
      BY <1>0 DEF Beside, EngineRow, Pcs
    <2> QED BY <1>1, <1>2, <1>8, <2>1, RestsForm DEF Accept
  <1>9. CASE ToolCall
    BY <1>1, <1>2, <1>9, EventForm DEF ToolCall
  <1>10. CASE LegacyResult
    <2>1. srv' = srv /\ eng' \in {Ended(eng, "failed"), Ended(eng, "planned")}
      BY <1>10 DEF LegacyResult
    <2> QED BY <1>1, <2>1, RestsForm
  <1>11. CASE LoopEnds
    BY <1>1, <1>11, RestsForm DEF LoopEnds, AfterFailedAnswer
  <1>12. CASE Aclose
    <2>1. srv' = srv /\ eng'.turn = eng.turn /\ eng'.completed = {}
          /\ eng'.rid = eng.rid /\ eng'.events = eng.events
      BY <1>0, <1>12 DEF Aclose, EngineRow
    <2> QED BY <2>1 DEF Rests, OwnTurns
  <1>13. CASE Close
    <2>1. Beside([eng EXCEPT !.pc = "closed", !.dirs = {}])
      BY <1>0 DEF Beside, EngineRow, Pcs
    <2>2. srv'.inbox = srv.inbox /\ srv'.out = srv.out /\ srv'.turns = srv.turns
      BY <1>0, <1>13 DEF Close, ServerRow
    <2> QED BY <1>1, <1>13, <2>1, <2>2, RestsForm DEF Close
  <1> QED BY <1>3, <1>4, <1>5, <1>6, <1>7, <1>8, <1>9, <1>10, <1>11, <1>12, <1>13

\* Every step keeps the pipe in order.
LEMMA StepPipe == ASSUME TypeOK, OpenInv, PipeInv, [SessionNext]_cvars PROVE PipeInv'
  <1>1. CASE UNCHANGED cvars \/ UserActs
    <2>1. eng' = eng /\ srv' = srv
      BY <1>1 DEF cvars, UserActs
    <2> QED BY <2>1, BesideForms, RestsForm, RestsPipe
  <1>2. CASE ProcessDies
    <2>1. eng' = eng /\ srv'.inbox = srv.inbox /\ srv'.out = srv.out /\ srv'.turns = srv.turns
      BY <1>2 DEF ProcessDies, TypeOK, ServerRow
    <2> QED BY <2>1, BesideForms, RestsForm, RestsPipe
  <1>3. CASE ServerHandles \/ ProviderSays \/ ProviderCalls
    BY <1>3, HandlesPipe, SaysPipe, CallsPipe
  <1>4. CASE Pass \/ Proceeds \/ StartingFails \/ Buffers \/ CheckControl \/ Steered
             \/ InterruptForRedirect \/ Interrupted \/ Restart
    BY <1>4, ControlMoves, RestsPipe, TakesLinePipe, KeepsLinePipe, AsksPipe
  <1>5. CASE ReadFails \/ DropLate \/ Notified \/ Unexpected \/ Validate \/ Accept
             \/ ToolCall \/ LegacyResult \/ LoopEnds \/ Aclose \/ Close
    BY <1>5, ReadingMoves, RestsPipe, TakesLinePipe, TakesKeptPipe
  <1> QED BY <1>1, <1>2, <1>3, <1>4, <1>5 DEF SessionNext

---------------------------------------------------------------------------
(* The client is closed and the plan is the staged one. *)

\* What becomes of the engine when it takes an event.
LEMMA EventShape ==
    ASSUME TypeOK, NEW e, Beside(e), TakeEvent(e)
    PROVE  /\ eng'.pc = e.pc /\ eng'.held = e.held /\ eng'.dirs = e.dirs /\ eng'.result = e.result
           /\ eng'.turn = eng.turn /\ eng'.completed = eng.completed /\ eng'.said = e.said
           /\ eng'.steered = e.steered /\ eng'.offered = e.offered /\ srv'.proc = srv.proc
  BY DEF Beside, TakeEvent, EngineRow, TypeOK, ServerRow

\* The ends of a decision, and the steps that go on with it.
LEMMA EndedShape ==
    ASSUME TypeOK, NEW how
    PROVE  /\ Ended(eng, how).pc = "finally" /\ Ended(eng, how).result = how
           /\ Ended(eng, how).held = eng.held /\ Ended(eng, how).dirs = eng.dirs
           /\ [Ended(eng, how) EXCEPT !.pc = "closing"].pc = "closing"
           /\ [Ended(eng, how) EXCEPT !.pc = "closing"].result = how
  BY DEF Ended, TypeOK, EngineRow

LEMMA PcShape ==
    ASSUME TypeOK, NEW p
    PROVE  /\ [eng EXCEPT !.pc = p].pc = p /\ [eng EXCEPT !.pc = p].held = eng.held
           /\ [eng EXCEPT !.pc = p].result = eng.result /\ [eng EXCEPT !.pc = p].said = eng.said
           /\ [eng EXCEPT !.pc = p].steered = eng.steered /\ [eng EXCEPT !.pc = p].offered = eng.offered
  BY DEF TypeOK, EngineRow

\* A decision under way: how it ends, or goes on.
GoesOn ==
    /\ eng.pc \in Working
    /\ eng'.held = eng.held /\ eng'.pc # "closed"
    /\ eng'.result \in {eng.result, "failed", "cancelled"}

LEMMA ControlGoesOn ==
    ASSUME TypeOK, \/ CheckControl \/ Steered \/ InterruptForRedirect \/ Interrupted \/ Restart
                   \/ ((StartingFails \/ Proceeds \/ Buffers) /\ eng.pc # "initialize")
    PROVE  GoesOn
  <1>0. eng \in EngineRow
    BY DEF TypeOK
  <1>1. CASE Buffers /\ eng.pc # "initialize"
    BY <1>0, <1>1 DEF Buffers, GoesOn, Working, Pcs, EngineRow
  <1>2. CASE CheckControl
    BY <1>0, <1>2 DEF CheckControl, Sent, Ended, GoesOn, Working, Pcs, EngineRow
  <1>3. CASE Steered
    BY <1>0, <1>3 DEF Steered, AfterSteerRefused, GoesOn, Working, Pcs, EngineRow
  <1>4. CASE InterruptForRedirect
    BY <1>0, <1>4 DEF InterruptForRedirect, Sent, GoesOn, Working, Pcs, EngineRow
  <1>5. CASE Interrupted
    BY <1>0, <1>5 DEF Interrupted, Ended, GoesOn, Working, Pcs, EngineRow
  <1>6. CASE Restart
    BY <1>0, <1>6 DEF Restart, Ended, GoesOn, Working, Pcs, EngineRow
  <1>7. CASE StartingFails /\ eng.pc # "initialize"
    BY <1>0, <1>7 DEF StartingFails, AfterFailedAnswer, Ended, GoesOn, Working, Pcs, EngineRow
  <1>8. CASE Proceeds /\ eng.pc # "initialize"
    BY <1>0, <1>8 DEF Proceeds, GoesOn, Working, Pcs, EngineRow
  <1> QED BY <1>1, <1>2, <1>3, <1>4, <1>5, <1>6, <1>7, <1>8

LEMMA ReadingGoesOn ==
    ASSUME TypeOK, ReadFails \/ DropLate \/ Notified \/ Unexpected \/ Validate \/ Accept \/ ToolCall
    PROVE  GoesOn
  <1>0. eng \in EngineRow
    BY DEF TypeOK
  <1>1. CASE ReadFails
    BY <1>0, <1>1 DEF ReadFails, Ended, GoesOn, Working, Pcs, EngineRow
  <1>2. ASSUME NEW e, Beside(e), HasEvent, TakeEvent(e), e.held = eng.held, e.pc # "closed",
               e.result \in {eng.result, "failed", "cancelled"}
        PROVE  GoesOn
    BY <1>2, EventShape DEF GoesOn, HasEvent, Working, Pcs
  <1>3. /\ Beside(Ended(eng, "failed")) /\ Beside(Ended(eng, "cancelled"))
        /\ \A p \in {"poll", "validate"} : Beside([eng EXCEPT !.pc = p])
    BY BesideForms DEF Results, Pcs
  <1>4. /\ TakeEvent(Ended(eng, "failed")) /\ HasEvent => GoesOn
        /\ TakeEvent(Ended(eng, "cancelled")) /\ HasEvent => GoesOn
        /\ \A p \in {"poll", "validate"} : TakeEvent([eng EXCEPT !.pc = p]) /\ HasEvent => GoesOn
    BY <1>2, <1>3, EndedShape, PcShape
  <1>5. CASE DropLate \/ Unexpected \/ ToolCall
    BY <1>4, <1>5 DEF DropLate, Unexpected, ToolCall
  <1>6. CASE Notified
    <2>1. HasEvent /\ NextEvent \in Lines
      <3>1. CASE eng.events # << >>
        BY <1>6, <3>1, Fields, Shortened DEF NextEvent, Notified
      <3>2. CASE eng.events = << >>
        BY <1>6, <3>2, Fields, Shortened DEF NextEvent, Notified, HasEvent
      <3> QED BY <3>1, <3>2
    <2>2. Append(eng.said, NextEvent) \in Seq(Lines)
      BY <2>1, Fields
    <2> DEFINE e == [eng EXCEPT !.pc = "poll", !.said = Append(@, NextEvent)]
    <2>3. Beside(e) /\ e.held = eng.held /\ e.pc = "poll" /\ e.result = eng.result
      BY <1>0, <2>2 DEF Beside, EngineRow, Pcs
    <2>4. \/ TakeEvent(Ended(eng, "failed")) \/ TakeEvent([eng EXCEPT !.pc = "poll"])
          \/ TakeEvent(e)
          \/ TakeEvent(Ended(eng, "cancelled")) \/ TakeEvent([eng EXCEPT !.pc = "validate"])
      BY <1>6 DEF Notified
    <2> HIDE DEF e
    <2>5. TakeEvent(e) => GoesOn
      BY <1>2, <2>1, <2>3
    <2> QED BY <1>4, <2>1, <2>4, <2>5
  <1>7. CASE Validate
    BY <1>0, <1>7 DEF Validate, Ended, GoesOn, Working, Pcs, EngineRow
  <1>8. CASE Accept
    BY <1>0, <1>8 DEF Accept, Ended, GoesOn, Working, Pcs, EngineRow
  <1> QED BY <1>1, <1>5, <1>6, <1>7, <1>8

\* Every step leaves a process or a directory only to somebody who closes it.
LEMMA StepOpen == ASSUME TypeOK, TurnInv, OpenInv, [SessionNext]_cvars PROVE OpenInv'
  <1>0. eng \in EngineRow /\ srv \in ServerRow
    BY DEF TypeOK
  <1>1. ASSUME eng'.held, eng'.pc # "closed" PROVE OpenInv'
    BY <1>1 DEF OpenInv, NothingLeftOpen
  <1>2. CASE UNCHANGED cvars \/ UserActs
    BY <1>2 DEF cvars, UserActs, OpenInv, NothingLeftOpen
  <1>3. CASE ProcessDies
    <2>1. eng' = eng /\ srv.proc = "running" /\ srv'.proc = "dead"
      BY <1>0, <1>3 DEF ProcessDies, ServerRow
    <2> QED BY <2>1 DEF OpenInv, NothingLeftOpen
  <1>4. CASE ServerHandles \/ ProviderSays \/ ProviderCalls
    <2>1. eng' = eng /\ srv.proc = "running"
      BY <1>4 DEF ServerHandles, ProviderSays, ProviderCalls
    <2>2. srv'.proc = srv.proc
      <3>1. CASE ServerHandles
        BY <3>1, HandlesForm
      <3>2. CASE ProviderSays
        <4>1. PICK i \in DOMAIN srv.turns, t2 \in ProviderTurns, line \in Lines : SaysLine(i, t2, line)
          BY <3>2, SaysForm
        <4> QED BY <1>0, <4>1 DEF ServerRow, SaysLine
      <3>3. CASE ProviderCalls
        BY <1>0, <3>3 DEF ProviderCalls, ServerRow
      <3> QED BY <1>4, <3>1, <3>2, <3>3
    <2> QED BY <2>1, <2>2 DEF OpenInv, NothingLeftOpen
  <1>5. CASE GoesOn
    BY <1>1, <1>5 DEF GoesOn, OpenInv
  <1>6. CASE Pass
    <2>1. CASE eng' = Ended(eng, "cancelled") /\ UNCHANGED srv
      BY <1>0, <1>6, <2>1 DEF Pass, Ended, EngineRow, OpenInv, NothingLeftOpen, Working, Pcs
    <2>2. CASE StartClient /\ ~eng.held
      <3>1. CASE eng' = Ended(eng, "failed") /\ UNCHANGED srv
        BY <1>0, <1>6, <2>2, <3>1 DEF Pass, Ended, EngineRow, OpenInv, NothingLeftOpen, Working, Pcs
      <3>2. CASE eng' = [eng EXCEPT !.dirs = {"cwd", "home"}, !.pc = "initialize", !.rid = 1]
        BY <1>0, <3>2 DEF EngineRow, OpenInv, NothingLeftOpen, Working, Pcs
      <3> QED BY <2>2, <3>1, <3>2 DEF StartClient
    <2>3. CASE eng.held /\ ~ctl.cancel
      <3>1. eng'.held = eng.held /\ eng'.pc \in {"thread", "finally"}
        BY <1>0, <1>6, <2>3 DEF Pass, Sent, Ended, EngineRow
      <3> QED BY <1>1, <2>3, <3>1
    <2> QED BY <1>6, <2>1, <2>2, <2>3 DEF Pass
  <1>7. CASE (Proceeds \/ StartingFails \/ Buffers) /\ eng.pc = "initialize"
    <2>1. CASE Proceeds
      BY <1>0, <1>1, <1>7, <2>1 DEF Proceeds, EngineRow
    <2>2. eng'.pc \in {"closing", "initialize"} => OpenInv'
      BY DEF OpenInv, NothingLeftOpen, Working, Pcs
    <2> QED BY <1>0, <1>7, <2>1, <2>2 DEF StartingFails, AfterFailedAnswer, Buffers, Ended, EngineRow
  <1>8. CASE LegacyResult
    <2>1. eng'.held = eng.held /\ eng'.pc = "finally" /\ eng.pc = "validate"
      BY <1>0, <1>8 DEF LegacyResult, Ended, EngineRow
    <2> QED BY <1>1, <2>1 DEF OpenInv, Working, Pcs
  <1>9. CASE LoopEnds
    <2>1. CASE eng.pc = "idle"
      <3>1. srv' = srv /\ eng'.pc = "finally" /\ eng'.held = eng.held /\ eng'.dirs = eng.dirs
        BY <1>0, <1>9, <2>1 DEF LoopEnds, Ended, EngineRow
      <3> QED BY <2>1, <3>1 DEF OpenInv, NothingLeftOpen, Working, Pcs
    <2>2. CASE eng.pc = "initialize"
      <3>1. eng'.pc = "closing"
        BY <1>0, <1>9, <2>2 DEF LoopEnds, AfterFailedAnswer, Ended, EngineRow
      <3> QED BY <3>1 DEF OpenInv, NothingLeftOpen, Working, Pcs
    <2>3. CASE eng.pc \notin {"idle", "initialize"}
      <3>1. eng.pc \in Working /\ eng'.held = eng.held /\ eng'.pc = "finally"
        BY <1>0, <1>9, <2>3 DEF LoopEnds, AfterFailedAnswer, Ended, EngineRow, Working, Pcs
      <3> QED BY <1>1, <3>1 DEF OpenInv
    <2> QED BY <2>1, <2>2, <2>3
  <1>10. CASE Aclose
    <2>1. /\ srv' = srv /\ eng'.dirs = eng.dirs /\ eng.pc = "finally"
          /\ eng'.pc = IF eng.held THEN "closing" ELSE "closed"
      BY <1>0, <1>10 DEF Aclose, EngineRow
    <2> QED BY <2>1 DEF OpenInv, NothingLeftOpen, Working, Pcs
  <1>11. CASE Close
    <2>1. \/ eng'.pc = "closing"
          \/ eng'.pc = "closed" /\ eng'.dirs = {} /\ srv' = srv /\ srv.proc # "running"
      BY <1>0, <1>11 DEF Close, EngineRow
    <2> QED BY <2>1 DEF OpenInv, NothingLeftOpen, Working, Pcs
  <1>12. CASE (Proceeds \/ StartingFails \/ Buffers) /\ eng.pc # "initialize"
    BY <1>5, <1>12, ControlGoesOn
  <1>13. CASE CheckControl \/ Steered \/ InterruptForRedirect \/ Interrupted \/ Restart
    BY <1>5, <1>13, ControlGoesOn
  <1>14. CASE ReadFails \/ DropLate \/ Notified \/ Unexpected \/ Validate \/ Accept \/ ToolCall
    BY <1>5, <1>14, ReadingGoesOn
  <1> QED BY <1>2, <1>3, <1>4, <1>6, <1>7, <1>8, <1>9, <1>10, <1>11, <1>12, <1>13, <1>14 DEF SessionNext

\* What staging a step does to the steps of the plan.
LEMMA StagedSteps ==
    ASSUME NEW S, NEW q \in Seq(S), NEW s \in S
    PROVE  ToSet(Append(q, s)) = ToSet(q) \union {s}
  <1>1. /\ DOMAIN Append(q, s) = DOMAIN q \union {Len(q) + 1} /\ Append(q, s)[Len(q) + 1] = s
        /\ \A k \in DOMAIN q : Append(q, s)[k] = q[k]
    BY Appended
  <1> QED BY <1>1 DEF ToSet

\* Every step keeps the staged steps acknowledged and a plan made of them.
LEMMA StepStage == ASSUME TypeOK, StageInv, [SessionNext]_cvars PROVE StageInv'
  <1>0. eng \in EngineRow /\ srv \in ServerRow /\ legacy \in LegacyRow
    BY DEF TypeOK
  <1>1. ASSUME legacy'.staged = legacy.staged, legacy'.acked = legacy.acked, legacy'.plan = legacy.plan,
               \/ eng' = eng
               \/ eng'.result # "planned"
               \/ eng'.result = eng.result /\ eng.pc \notin {"finally", "closing", "closed"}
               \/ eng'.result = eng.result /\ eng'.pc \in {"finally", "closing", "closed"}
        PROVE  StageInv'
    BY <1>1 DEF StageInv
  <1>2. CASE UNCHANGED cvars \/ UserActs \/ ProcessDies \/ ServerHandles \/ ProviderSays
    BY <1>1, <1>2 DEF cvars, UserActs, ProcessDies, ServerHandles, ProviderSays
  <1>3. CASE ProviderCalls
    <2>1. legacy' = [legacy EXCEPT !.sent = @ + 1] /\ eng' = eng
      BY <1>3 DEF ProviderCalls
    <2>2. legacy'.staged = legacy.staged /\ legacy'.acked = legacy.acked /\ legacy'.plan = legacy.plan
      BY <1>0, <2>1 DEF LegacyRow
    <2> QED BY <1>1, <2>1, <2>2
  <1>4. ASSUME GoesOn, legacy' = legacy PROVE StageInv'
    BY <1>1, <1>4 DEF GoesOn, Working, Pcs
  <1>5. CASE CheckControl \/ Steered \/ InterruptForRedirect \/ Interrupted \/ Restart
    <2>1. legacy' = legacy
      BY <1>5 DEF CheckControl, Steered, InterruptForRedirect, Interrupted, Restart
    <2> QED BY <1>4, <1>5, <2>1, ControlGoesOn
  <1>6. CASE ReadFails \/ DropLate \/ Notified \/ Unexpected \/ Validate \/ Accept
    <2>1. legacy' = legacy
      BY <1>6 DEF ReadFails, DropLate, Notified, Unexpected, Validate, Accept
    <2> QED BY <1>4, <1>6, <2>1, ReadingGoesOn
  <1>7. CASE Pass
    <2>1. legacy' = legacy /\ eng.pc = "idle"
      BY <1>7 DEF Pass
    <2>2. eng'.result \in {eng.result, "failed", "cancelled"}
      BY <1>0, <1>7 DEF Pass, StartClient, Sent, Ended, EngineRow
    <2> QED BY <1>1, <2>1, <2>2
  <1>8. CASE Proceeds \/ StartingFails \/ Buffers \/ LoopEnds
    <2>1. legacy' = legacy /\ eng.pc \notin {"finally", "closing", "closed"}
      BY <1>8 DEF Proceeds, StartingFails, Buffers, LoopEnds
    <2>2. eng'.result \in {eng.result, "failed", "decided"}
      BY <1>0, <1>8 DEF Proceeds, StartingFails, Buffers, LoopEnds, AfterFailedAnswer, Ended, EngineRow
    <2> QED BY <1>1, <2>1, <2>2
  <1>9. CASE Aclose \/ Close
    <2>1. legacy' = legacy /\ eng'.result = eng.result /\ eng'.pc \in {"closing", "closed"}
      BY <1>0, <1>9 DEF Aclose, Close, EngineRow
    <2> QED BY <1>1, <2>1
  <1>10. CASE ToolCall
    <2>1. GoesOn
      BY <1>10, ReadingGoesOn
    <2>2. CASE legacy' = legacy
      BY <1>4, <2>1, <2>2
    <2>3. CASE legacy' # legacy
      <3>1. PICK s : s = NextEvent.about
        OBVIOUS
      <3>2. PICK a : a = IF s \in ToSet(Staged(s)) THEN legacy.acked \union {s} ELSE legacy.acked
        OBVIOUS
      <3>3. legacy' = [legacy EXCEPT !.ids = @ \union {NextEvent.turn}, !.staged = Staged(s), !.acked = a]
        BY <1>10, <2>3, <3>1, <3>2 DEF ToolCall
      <3>4. legacy'.staged = Staged(s) /\ legacy'.acked = a
        BY <1>0, <3>3 DEF LegacyRow
      <3>5. s \in Steps /\ legacy.staged \in Seq(Steps) /\ legacy.acked = ToSet(legacy.staged)
        <4>1. NextEvent \in Lines /\ NextEvent.t = "call"
          <5>1. CASE eng.events # << >>
            BY <1>10, <5>1, Fields, Shortened DEF NextEvent, ToolCall
          <5>2. CASE eng.events = << >>
            BY <1>10, <5>2, Fields, Shortened DEF NextEvent, ToolCall, HasEvent
          <5> QED BY <5>1, <5>2
        <4> QED BY <3>1, <4>1, LineKinds, Fields DEF StageInv
      <3>6. a = ToSet(Staged(s))
        <4>1. CASE s \in ToSet(legacy.staged)
          BY <3>2, <3>5, <4>1 DEF Staged
        <4>2. CASE s \notin ToSet(legacy.staged) /\ Len(legacy.staged) >= MaxStaged
          BY <3>2, <3>5, <4>2 DEF Staged
        <4>3. CASE s \notin ToSet(legacy.staged) /\ ~(Len(legacy.staged) >= MaxStaged)
          <5>1. Staged(s) = Append(legacy.staged, s)
            BY <4>3 DEF Staged
          <5>2. ToSet(Staged(s)) = ToSet(legacy.staged) \union {s}
            BY <3>5, <5>1, StagedSteps
          <5> QED BY <3>2, <3>5, <5>2
        <4> QED BY <4>1, <4>2, <4>3
      <3>7. eng'.result # "planned"
        BY <2>1 DEF GoesOn, StageInv, Working, Pcs
      <3> QED BY <3>4, <3>6, <3>7 DEF StageInv
    <2> QED BY <2>2, <2>3
  <1>11. CASE LegacyResult
    <2>1. PICK structured \in UNION {[1..n -> Steps] : n \in 0..MaxStaged} :
             IF Reconciled(structured) = << >>
             THEN eng' = Ended(eng, "failed") /\ UNCHANGED legacy
             ELSE /\ eng' = Ended(eng, "planned")
                  /\ legacy' = [legacy EXCEPT !.plan = Reconciled(structured)[1]]
      BY <1>11, Zenon DEF LegacyResult
    <2>2. CASE Reconciled(structured) = << >>
      <3>1. legacy' = legacy /\ eng'.result = "failed"
        BY <1>0, <2>1, <2>2 DEF Ended, EngineRow
      <3> QED BY <1>1, <3>1
    <2>3. CASE Reconciled(structured) # << >>
      <3>1. eng' = Ended(eng, "planned") /\ legacy' = [legacy EXCEPT !.plan = Reconciled(structured)[1]]
        BY <2>1, <2>3
      <3>2. eng'.pc = "finally"
        BY <1>0, <3>1 DEF Ended, EngineRow
      <3>3. legacy'.staged = legacy.staged /\ legacy'.acked = legacy.acked
            /\ legacy'.plan = Reconciled(structured)[1]
        BY <1>0, <3>1 DEF LegacyRow
      <3>4. legacy.staged # << >> => Reconciled(structured) = <<legacy.staged>>
        BY <2>3 DEF Reconciled
      <3> QED BY <3>2, <3>3, <3>4 DEF StageInv
    <2> QED BY <2>2, <2>3
  <1> QED BY <1>2, <1>3, <1>5, <1>6, <1>7, <1>8, <1>9, <1>10, <1>11 DEF SessionNext

---------------------------------------------------------------------------
(* The newest provider turn says what the engine has steered. *)

\* A line that is no message of the turn is taken from the pipe, whatever lines are kept.
LEMMA SpeaksAnswered ==
    ASSUME NEW said \in Seq(Lines), NEW events \in Seq(Lines), NEW out \in Seq(Lines), out # << >>,
           NEW i, NEW v, Speaks(said, events, out, i, v), ~MsgOf(Head(out), i)
    PROVE  Speaks(said, events, Tail(out), i, v)
  BY SaysShortened DEF Speaks

LEMMA LivelyWritten ==
    ASSUME NEW turns, NEW completed, NEW said \in Seq(Lines), NEW events \in Seq(Lines), NEW out \in Seq(Lines),
           NEW heard, Lively(turns, completed, said, events, out, heard), NEW e \in Lines,
           ~MsgOf(e, Len(turns))
    PROVE  Lively(turns, completed, said, events, Append(out, e), heard)
  BY SpeaksWritten DEF Lively

LEMMA LivelyKept ==
    ASSUME NEW turns, NEW completed, NEW said \in Seq(Lines), NEW events \in Seq(Lines), NEW out \in Seq(Lines),
           NEW heard, Lively(turns, completed, said, events, out, heard), out # << >>
    PROVE  Lively(turns, completed, said, Append(events, Head(out)), Tail(out), heard)
  BY SpeaksKept DEF Lively

LEMMA LivelyAnswered ==
    ASSUME NEW turns, NEW completed, NEW said \in Seq(Lines), NEW events \in Seq(Lines), NEW out \in Seq(Lines),
           NEW heard, Lively(turns, completed, said, events, out, heard), out # << >>, ~MsgOf(Head(out), Len(turns))
    PROVE  Lively(turns, completed, said, events, Tail(out), heard)
  BY SpeaksAnswered DEF Lively

LEMMA LivelyTaken ==
    ASSUME NEW turns, NEW completed, NEW said \in Seq(Lines), NEW events \in Seq(Lines), NEW out \in Seq(Lines),
           NEW heard, Lively(turns, completed, said, events, out, heard)
    PROVE  /\ events # << >> =>
                 /\ ~MsgOf(Head(events), Len(turns)) => Lively(turns, completed, said, Tail(events), out, heard)
                 /\ MsgOf(Head(events), Len(turns)) =>
                       Lively(turns, completed, Append(said, Head(events)), Tail(events), out, heard)
           /\ events = << >> /\ out # << >> =>
                 /\ ~MsgOf(Head(out), Len(turns)) => Lively(turns, completed, said, events, Tail(out), heard)
                 /\ MsgOf(Head(out), Len(turns)) =>
                       Lively(turns, completed, Append(said, Head(out)), events, Tail(out), heard)
  BY SpeaksTaken DEF Lively

\* What taking or writing a line does to the answers in the pipe.
LEMMA AnswersTaken ==
    ASSUME NEW out \in Seq(Lines), out # << >>, NEW rid
    PROVE  /\ Grants(Tail(out), rid) => Grants(out, rid)
           /\ Silent(out) => Silent(Tail(out))
  <1>1. /\ DOMAIN out = 1 .. Len(out) /\ Len(out) \in Nat /\ Len(out) > 0
        /\ DOMAIN Tail(out) = 1 .. (Len(out) - 1) /\ \A k \in DOMAIN Tail(out) : Tail(out)[k] = out[k + 1]
    BY Shortened
  <1>2. \A k \in DOMAIN Tail(out) : k + 1 \in DOMAIN out /\ Tail(out)[k] = out[k + 1]
    BY <1>1
  <1> QED BY <1>2 DEF Grants, Silent

LEMMA AnswersWritten ==
    ASSUME NEW out \in Seq(Lines), NEW e \in Lines, NEW rid
    PROVE  /\ e # Response(rid, TRUE) /\ Grants(Append(out, e), rid) => Grants(out, rid)
           /\ e.t # "response" /\ Silent(out) => Silent(Append(out, e))
           /\ Silent(out) => ~Grants(out, rid)
           /\ e.t # "response" => e # Response(rid, TRUE)
  <1>1. /\ DOMAIN Append(out, e) = DOMAIN out \union {Len(out) + 1} /\ Append(out, e)[Len(out) + 1] = e
        /\ \A k \in DOMAIN out : Append(out, e)[k] = out[k]
    BY Appended
  <1>2. Response(rid, TRUE).t = "response"
    BY DEF Response
  <1> QED BY <1>1, <1>2 DEF Grants, Silent

\* The awaited answer is the head of the pipe.
LEMMA AnsweredGrants ==
    ASSUME TypeOK, IdInv, AnswerRead
    PROVE  /\ srv.out # << >> /\ Head(srv.out).t = "response" /\ Grants(srv.out, eng.rid)
           /\ srv.inbox = << >> /\ Silent(Tail(srv.out))
  <1>1. srv.out # << >> /\ Head(srv.out).t = "response" /\ Head(srv.out).turn = eng.rid /\ Head(srv.out).about
    BY DEF AnswerRead
  <1>2. Head(srv.out) \in Lines /\ Head(srv.out) = srv.out[1] /\ 1 \in DOMAIN srv.out
    <2>1. srv.out \in Seq(Lines)
      BY Fields
    <2> QED BY <1>1, <2>1, Shortened
  <1>3. Head(srv.out) \in [t : {"response"}, turn : Nat, about : BOOLEAN]
    BY <1>1, <1>2 DEF Lines
  <1>4. Head(srv.out) = Response(eng.rid, TRUE)
    BY <1>1, <1>3 DEF Response
  <1>5. srv.inbox = << >> /\ Silent(Tail(srv.out))
    BY <1>1, PipeFacts, IdsTaken DEF IdInv, Silent
  <1> QED BY <1>1, <1>2, <1>4, <1>5 DEF Grants

\* Outside of a decision nothing is claimed.
Deciding == {"thread", "turn", "poll", "read", "steer", "validate", "accept"}

LEMMA LiveElsewhere == ASSUME eng'.pc \notin Deciding PROVE LiveInv'
  BY DEF LiveInv, Deciding

LEMMA LiveSame ==
    ASSUME LiveInv, eng' = eng, srv'.inbox = srv.inbox, srv'.out = srv.out, srv'.turns = srv.turns
    PROVE  LiveInv'
  BY DEF LiveInv, LiveTurn

\* A line of the newest turn, or of another one, is written.
LEMMA LivelySays ==
    ASSUME TypeOK, NEW heard, LiveTurn(heard), NEW i \in DOMAIN srv.turns, NEW t2 \in ProviderTurns,
           NEW line \in Lines, SaysLine(i, t2, line)
    PROVE  Lively(srv'.turns, eng.completed, eng.said, eng.events, srv'.out, heard)
  <1>0. eng.said \in Seq(Lines) /\ eng.events \in Seq(Lines) /\ srv.out \in Seq(Lines)
        /\ srv.turns \in Seq(ProviderTurns)
    BY Fields
  <1>1. srv'.out = Append(srv.out, line) /\ srv'.turns = [srv.turns EXCEPT ![i] = t2]
    BY DEF SaysLine, TypeOK, ServerRow
  <1> DEFINE n == Len(srv.turns)
  <1>2. /\ Len(srv'.turns) = n /\ n \in DOMAIN srv.turns /\ srv'.turns # << >>
        /\ srv'.turns[i] = t2 /\ (i # n => srv'.turns[n] = srv.turns[n])
    <2>1. srv.turns # << >>
      BY DEF LiveTurn, Lively
    <2> QED BY <1>0, <1>1, <2>1
  <1>3. /\ line.turn = i /\ t2.heard = srv.turns[i].heard
        /\ line.t = "message" => t2.told = line.about
        /\ line.t # "message" => t2.told = srv.turns[i].told
    BY DEF SaysLine
  <1>4. /\ n \notin eng.completed /\ srv.turns[n].heard = heard
        /\ srv.turns[n].told # -1 => Speaks(eng.said, eng.events, srv.out, n, srv.turns[n].told)
    BY DEF LiveTurn, Lively
  <1> HIDE DEF n
  <1>5. CASE MsgOf(line, n)
    <2>1. i = n /\ srv'.turns[n].heard = heard /\ srv'.turns[n].told = line.about
      BY <1>2, <1>3, <1>4, <1>5 DEF MsgOf
    <2>2. Speaks(eng.said, eng.events, srv'.out, n, line.about)
      BY <1>0, <1>1, <1>5, SpeaksWritten
    <2> QED BY <1>2, <1>4, <2>1, <2>2 DEF Lively
  <1>6. CASE ~MsgOf(line, n)
    <2>1. srv'.turns[n].heard = heard /\ srv'.turns[n].told = srv.turns[n].told
      BY <1>2, <1>3, <1>4, <1>6 DEF MsgOf
    <2>2. srv.turns[n].told # -1 => Speaks(eng.said, eng.events, srv'.out, n, srv.turns[n].told)
      BY <1>0, <1>1, <1>4, <1>6, SpeaksWritten
    <2> QED BY <1>2, <1>4, <2>1, <2>2 DEF Lively
  <1> QED BY <1>5, <1>6

LEMMA SaysLive == ASSUME TypeOK, TurnInv, LiveInv, ProviderSays PROVE LiveInv'
  <1>0. eng' = eng
    BY DEF ProviderSays
  <1>1. PICK i \in DOMAIN srv.turns, t2 \in ProviderTurns, line \in Lines : SaysLine(i, t2, line)
    BY SaysForm
  <1>2. /\ srv'.inbox = srv.inbox /\ srv'.out = Append(srv.out, line) /\ Len(srv'.turns) = Len(srv.turns)
        /\ line.t # "response"
    <2>1. srv'.inbox = srv.inbox /\ srv'.out = Append(srv.out, line)
          /\ srv'.turns = [srv.turns EXCEPT ![i] = t2] /\ Names(line)
      BY <1>1 DEF SaysLine, TypeOK, ServerRow
    <2> QED BY <2>1, PipeFacts DEF Names
  <1>3. \A heard : LiveTurn(heard) => Lively(srv'.turns, eng.completed, eng.said, eng.events, srv'.out, heard)
    BY <1>1, LivelySays
  <1>4. /\ Grants(srv'.out, eng.rid) => Grants(srv.out, eng.rid)
        /\ Silent(srv.out) => Silent(srv'.out)
    <2>1. srv.out \in Seq(Lines)
      BY Fields
    <2>2. line # Response(eng.rid, TRUE)
      BY <1>2, <2>1, AnswersWritten
    <2>3. /\ Grants(Append(srv.out, line), eng.rid) => Grants(srv.out, eng.rid)
          /\ Silent(srv.out) => Silent(Append(srv.out, line))
      BY <1>2, <2>1, <2>2, AnswersWritten
    <2> QED BY <1>2, <2>3
  <1> QED BY <1>0, <1>2, <1>3, <1>4 DEF LiveInv, LiveTurn

LEMMA CallsLive == ASSUME TypeOK, LiveInv, ProviderCalls PROVE LiveInv'
  <1>0. eng' = eng
    BY DEF ProviderCalls
  <1>1. PICK id \in {legacy.sent, legacy.sent + 1}, s \in Steps :
             srv' = [srv EXCEPT !.out = Append(@, Event("call", id, s))]
    BY DEF ProviderCalls
  <1>2. PICK line : line = Event("call", id, s)
    OBVIOUS
  <1>3. line \in Lines /\ line.t = "call"
    <2>1. id \in Nat
      BY Fields
    <2> QED BY <1>2, <2>1, WrittenLines DEF Event
  <1>4. srv'.inbox = srv.inbox /\ srv'.turns = srv.turns /\ srv'.out = Append(srv.out, line)
    BY <1>1, <1>2 DEF TypeOK, ServerRow
  <1>5. \A heard : LiveTurn(heard) => Lively(srv'.turns, eng.completed, eng.said, eng.events, srv'.out, heard)
    BY <1>3, <1>4, Fields, LivelyWritten DEF LiveTurn, MsgOf
  <1>6. /\ Grants(srv'.out, eng.rid) => Grants(srv.out, eng.rid)
        /\ Silent(srv.out) => Silent(srv'.out)
    <2>1. srv.out \in Seq(Lines)
      BY Fields
    <2>2. line # Response(eng.rid, TRUE)
      BY <1>3, <2>1, AnswersWritten
    <2>3. /\ Grants(Append(srv.out, line), eng.rid) => Grants(srv.out, eng.rid)
          /\ Silent(srv.out) => Silent(Append(srv.out, line))
      BY <1>3, <2>1, <2>2, AnswersWritten
    <2> QED BY <1>4, <2>3
  <1> QED BY <1>0, <1>4, <1>5, <1>6 DEF LiveInv, LiveTurn

LEMMA HandlesLive == ASSUME TypeOK, TurnInv, LiveInv, ServerHandles PROVE LiveInv'
  <1>0. eng' = eng
    BY DEF ServerHandles
  <1>1. PICK r : r = Head(srv.inbox)
    OBVIOUS
  <1>2. srv.inbox # << >> /\ r \in Requests /\ Handled(r) /\ srv'.inbox = Tail(srv.inbox)
    BY <1>1, HandlesForm
  <1>3. /\ r = srv.inbox[1] /\ 1 \in DOMAIN srv.inbox
        /\ \A k \in DOMAIN Tail(srv.inbox) : k + 1 \in DOMAIN srv.inbox /\ Tail(srv.inbox)[k] = srv.inbox[k + 1]
    <2>1. /\ DOMAIN srv.inbox = 1 .. Len(srv.inbox) /\ Len(srv.inbox) \in Nat /\ Len(srv.inbox) > 0
          /\ r = srv.inbox[1] /\ DOMAIN Tail(srv.inbox) = 1 .. (Len(srv.inbox) - 1)
          /\ \A k \in DOMAIN Tail(srv.inbox) : Tail(srv.inbox)[k] = srv.inbox[k + 1]
      BY <1>1, <1>2, PipeFacts, Shortened
    <2> QED BY <2>1
  <1>4. /\ \A ok \in BOOLEAN : Response(r.id, ok) \in Lines
        /\ \A ok \in BOOLEAN : \A n : ~MsgOf(Response(r.id, ok), n)
        /\ \A rid : Response(r.id, FALSE) # Response(rid, TRUE)
    <2>1. r.id \in Nat
      BY <1>2 DEF Requests
    <2> QED BY <2>1, WrittenLines DEF Response, MsgOf
  <1>5. CASE eng.pc = "thread"
    BY <1>0, <1>5 DEF LiveInv
  <1>6. CASE eng.pc = "turn"
    <2>1. Starts(srv.inbox, eng.steered) /\ eng.said = << >>
      BY <1>6 DEF LiveInv
    <2>2. r.kind = "turn" /\ r.upto = eng.steered /\ Starts(srv'.inbox, eng.steered)
      BY <1>2, <1>3, <2>1 DEF Starts
    <2> DEFINE new == [st |-> "running", heard |-> r.upto, told |-> -1, noted |-> FALSE]
    <2>3. srv'.turns = Append(srv.turns, new) /\ srv'.out = Append(srv.out, Response(r.id, TRUE))
      BY <1>2, <2>2 DEF Handled, HandledTurn, HandledPlainly, HandledSteer, HandledStop
    <2>4. new \in ProviderTurns /\ new.heard = eng.steered /\ new.told = -1
      BY <1>2, <2>2 DEF ProviderTurns, Requests
    <2> HIDE DEF new
    <2>5. /\ Len(srv'.turns) = Len(srv.turns) + 1 /\ srv'.turns[Len(srv.turns) + 1] = new /\ srv'.turns # << >>
      BY <2>3, <2>4, PipeFacts, Appended
    <2>6. Len(srv.turns) + 1 \notin eng.completed
      BY PipeFacts DEF TurnInv
    <2>7. Lively(srv'.turns, eng.completed, eng.said, eng.events, srv'.out, eng.steered)
      BY <2>4, <2>5, <2>6 DEF Lively
    <2> QED BY <1>0, <1>6, <2>1, <2>2, <2>7 DEF LiveInv, LiveTurn
  <1>7. CASE eng.pc \in {"poll", "read"}
    BY <1>2, <1>7 DEF LiveInv
  <1>8. CASE eng.pc = "steer"
    <2>1. /\ Steers(srv.inbox, eng.turn, eng.offered) /\ eng.turn = Len(srv.turns)
          /\ LiveTurn(eng.offered) \/ (~Grants(srv.out, eng.rid) /\ LiveTurn(eng.steered))
          /\ \A k \in DOMAIN eng.said : MsgOf(eng.said[k], eng.turn)
      BY <1>8 DEF LiveInv
    <2>2. /\ r.kind = "steer" /\ r.turn = eng.turn /\ r.upto = eng.offered
          /\ Steers(srv'.inbox, eng.turn, eng.offered)
      BY <1>2, <1>3, <2>1 DEF Steers
    <2>3. CASE HandledPlainly(r)
      <3>1. srv'.turns = srv.turns /\ srv'.out = Append(srv.out, Response(r.id, FALSE))
        BY <2>2, <2>3 DEF HandledPlainly
      <3>2. \A heard : LiveTurn(heard) =>
               Lively(srv'.turns, eng.completed, eng.said, eng.events, srv'.out, heard)
        <4>1. /\ srv.out \in Seq(Lines) /\ eng.said \in Seq(Lines) /\ eng.events \in Seq(Lines)
              /\ Response(r.id, FALSE) \in Lines /\ ~MsgOf(Response(r.id, FALSE), Len(srv.turns))
          BY <1>4, Fields
        <4> QED BY <3>1, <4>1, LivelyWritten DEF LiveTurn
      <3>3. Grants(srv'.out, eng.rid) => Grants(srv.out, eng.rid)
        <4>1. PICK e : e = Response(r.id, FALSE)
          OBVIOUS
        <4>2. e \in Lines /\ e # Response(eng.rid, TRUE) /\ srv'.out = Append(srv.out, e)
          BY <1>4, <3>1, <4>1, Zenon
        <4>3. srv.out \in Seq(Lines)
          BY Fields
        <4>4. Grants(Append(srv.out, e), eng.rid) => Grants(srv.out, eng.rid)
          BY <4>2, <4>3, AnswersWritten
        <4> QED BY <4>2, <4>4
      <3> QED BY <1>0, <1>8, <2>1, <2>2, <3>1, <3>2, <3>3 DEF LiveInv, LiveTurn
    <2>4. CASE HandledSteer(r)
      <3>1. /\ srv'.turns = [srv.turns EXCEPT ![r.turn] = [@ EXCEPT !.heard = r.upto]]
            /\ srv'.out = Append(srv.out, Response(r.id, TRUE)) /\ r.turn \in DOMAIN srv.turns
        BY <2>4 DEF HandledSteer
      <3> DEFINE n == Len(srv.turns)
      <3>2. PICK heard : LiveTurn(heard)
        BY <2>1
      <3>3. /\ srv.turns # << >> /\ n \notin eng.completed /\ n \in DOMAIN srv.turns
            /\ srv.turns[n] \in ProviderTurns
            /\ srv.turns[n].told # -1 => Speaks(eng.said, eng.events, srv.out, n, srv.turns[n].told)
        BY <2>1, <2>2, <3>1, <3>2, PipeFacts DEF LiveTurn, Lively
      <3>4. /\ Len(srv'.turns) = n /\ srv'.turns # << >>
            /\ srv'.turns[n] = [srv.turns[n] EXCEPT !.heard = eng.offered]
        BY <2>1, <2>2, <3>1, <3>3, PipeFacts
      <3>5. srv'.turns[n].heard = eng.offered /\ srv'.turns[n].told = srv.turns[n].told
        BY <3>3, <3>4 DEF ProviderTurns
      <3> HIDE DEF n
      <3>6. srv.turns[n].told # -1 => Speaks(eng.said, eng.events, srv'.out, n, srv.turns[n].told)
        <4>1. /\ srv.out \in Seq(Lines) /\ eng.said \in Seq(Lines) /\ eng.events \in Seq(Lines)
          BY Fields
        <4>2. PICK e : e = Response(r.id, TRUE)
          OBVIOUS
        <4>3. e \in Lines /\ ~MsgOf(e, n) /\ srv'.out = Append(srv.out, e)
          BY <1>4, <3>1, <4>2, Zenon
        <4> QED BY <3>3, <4>1, <4>3, SpeaksWritten
      <3>7. Lively(srv'.turns, eng.completed, eng.said, eng.events, srv'.out, eng.offered)
        BY <3>3, <3>4, <3>5, <3>6 DEF Lively
      <3>8. Len(srv'.turns) = Len(srv.turns)
        BY <3>4 DEF n
      <3> QED BY <1>0, <1>8, <2>1, <2>2, <3>7, <3>8 DEF LiveInv, LiveTurn
    <2> QED BY <1>2, <2>2, <2>3, <2>4 DEF Handled, HandledTurn, HandledStop
  <1>9. CASE eng.pc \in {"validate", "accept"}
    BY <1>0, <1>9 DEF LiveInv
  <1> QED BY <1>0, <1>5, <1>6, <1>7, <1>8, <1>9, LiveElsewhere DEF Deciding

\* A request is written and its answer awaited.
LEMMA PassLive == ASSUME TypeOK, LiveInv, Pass PROVE LiveInv'
  <1>0. eng \in EngineRow
    BY DEF TypeOK
  <1>1. eng'.pc \in {"finally", "initialize"} \/ (eng'.pc = "thread" /\ eng'.said = << >>)
    BY <1>0 DEF Pass, StartClient, Sent, Ended, EngineRow
  <1> QED BY <1>1 DEF LiveInv

LEMMA ProceedsLive == ASSUME TypeOK, IdInv, LiveInv, Proceeds PROVE LiveInv'
  <1>0. eng \in EngineRow /\ srv \in ServerRow
    BY DEF TypeOK
  <1>1. /\ srv.out # << >> /\ Head(srv.out).t = "response" /\ Grants(srv.out, eng.rid)
        /\ srv.inbox = << >> /\ Silent(Tail(srv.out))
    BY AnsweredGrants DEF Proceeds
  <1>2. Tail(srv.out) \in Seq(Lines) /\ srv.out \in Seq(Lines)
    BY <1>1, Fields, Shortened
  <1>3. CASE eng.pc = "initialize"
    <2>1. eng'.pc = "idle"
      BY <1>0, <1>3 DEF Proceeds, EngineRow
    <2> QED BY <2>1, LiveElsewhere DEF Deciding
  <1>4. CASE eng.pc = "thread"
    <2> DEFINE r == [id |-> eng.rid + 1, kind |-> "turn", turn |-> 0, upto |-> eng.steered]
    <2>1. /\ srv' = [srv EXCEPT !.out = Tail(@), !.inbox = Append(@, r)]
          /\ eng' = [eng EXCEPT !.pc = "turn", !.rid = @ + 1]
      BY <1>4 DEF Proceeds
    <2>2. r.kind = "turn" /\ r.upto = eng.steered
      OBVIOUS
    <2> HIDE DEF r
    <2>3. srv'.inbox = <<r>> /\ srv'.out = Tail(srv.out)
      BY <1>0, <1>1, <2>1 DEF ServerRow
    <2>4. eng'.pc = "turn" /\ eng'.rid = eng.rid + 1 /\ eng'.steered = eng.steered /\ eng'.said = << >>
      BY <1>0, <1>4, <2>1 DEF EngineRow, LiveInv
    <2>5. Starts(srv'.inbox, eng'.steered)
      BY <2>2, <2>3, <2>4 DEF Starts
    <2>6. ~Grants(srv'.out, eng'.rid)
      BY <1>1, <2>3 DEF Grants, Silent, Response
    <2> QED BY <2>4, <2>5, <2>6 DEF LiveInv
  <1>5. CASE eng.pc = "turn"
    <2>1. /\ eng' = [eng EXCEPT !.pc = "poll", !.turn = Len(srv.turns)]
          /\ srv' = [srv EXCEPT !.out = Tail(@)]
      BY <1>5 DEF Proceeds
    <2>2. /\ eng'.pc = "poll" /\ eng'.turn = Len(srv.turns) /\ eng'.steered = eng.steered
          /\ eng'.said = eng.said /\ eng'.events = eng.events /\ eng'.completed = eng.completed
      BY <1>0, <2>1 DEF EngineRow
    <2>3. srv'.inbox = << >> /\ srv'.out = Tail(srv.out) /\ srv'.turns = srv.turns
      BY <1>0, <1>1, <2>1 DEF ServerRow
    <2>4. LiveTurn(eng.steered) /\ eng.said = << >>
      BY <1>1, <1>5 DEF LiveInv
    <2>5. Lively(srv.turns, eng.completed, eng.said, eng.events, Tail(srv.out), eng.steered)
      <3>1. ~MsgOf(Head(srv.out), Len(srv.turns))
        BY <1>1 DEF MsgOf
      <3> QED BY <1>1, <1>2, <2>4, <3>1, Fields, LivelyAnswered DEF LiveTurn
    <2> QED BY <1>1, <2>2, <2>3, <2>4, <2>5 DEF LiveInv, LiveTurn
  <1> QED BY <1>3, <1>4, <1>5 DEF Proceeds

LEMMA BuffersLive == ASSUME TypeOK, LiveInv, Buffers PROVE LiveInv'
  <1>0. eng \in EngineRow /\ srv \in ServerRow
    BY DEF TypeOK
  <1>1. srv.out # << >> /\ eng' = [eng EXCEPT !.events = Append(@, Head(srv.out))]
        /\ srv' = [srv EXCEPT !.out = Tail(@)]
        /\ eng.pc \in {"initialize", "thread", "turn", "steer", "stopping", "redirecting"}
    BY DEF Buffers
  <1>2. /\ eng'.pc = eng.pc /\ eng'.turn = eng.turn /\ eng'.completed = eng.completed /\ eng'.rid = eng.rid
        /\ eng'.events = Append(eng.events, Head(srv.out)) /\ eng'.said = eng.said
        /\ eng'.steered = eng.steered /\ eng'.offered = eng.offered
    BY <1>0, <1>1 DEF EngineRow
  <1>3. srv'.out = Tail(srv.out) /\ srv'.inbox = srv.inbox /\ srv'.turns = srv.turns
    BY <1>0, <1>1 DEF ServerRow
  <1>4. \A heard : LiveTurn(heard) =>
           Lively(srv.turns, eng.completed, eng.said, Append(eng.events, Head(srv.out)), Tail(srv.out), heard)
    BY <1>1, Fields, LivelyKept DEF LiveTurn
  <1>5. Grants(Tail(srv.out), eng.rid) => Grants(srv.out, eng.rid)
    BY <1>1, Fields, AnswersTaken
  <1>6. CASE eng.pc = "turn"
    BY <1>2, <1>3, <1>4, <1>5, <1>6 DEF LiveInv, LiveTurn
  <1>7. CASE eng.pc = "steer"
    BY <1>2, <1>3, <1>4, <1>5, <1>7 DEF LiveInv, LiveTurn
  <1>8. CASE eng.pc = "thread"
    BY <1>2, <1>8 DEF LiveInv
  <1> QED BY <1>1, <1>2, <1>6, <1>7, <1>8, LiveElsewhere DEF Deciding

LEMMA CheckControlLive == ASSUME TypeOK, LiveInv, CheckControl PROVE LiveInv'
  <1>0. eng \in EngineRow /\ srv \in ServerRow /\ eng.pc = "poll"
    BY DEF TypeOK, CheckControl
  <1>1. /\ srv.inbox = << >> /\ Silent(srv.out) /\ LiveTurn(eng.steered) /\ eng.turn = Len(srv.turns)
        /\ \A k \in DOMAIN eng.said : MsgOf(eng.said[k], eng.turn)
    BY <1>0 DEF LiveInv
  <1>2. CASE srv' = srv /\ eng' = [eng EXCEPT !.pc = "read"]
    <2>1. /\ eng'.pc = "read" /\ eng'.turn = eng.turn /\ eng'.completed = eng.completed
          /\ eng'.events = eng.events /\ eng'.said = eng.said /\ eng'.steered = eng.steered
      BY <1>0, <1>2 DEF EngineRow
    <2> QED BY <1>1, <1>2, <2>1 DEF LiveInv, LiveTurn
  <1>3. CASE Sent([eng EXCEPT !.pc = "steer", !.offered = ctl.seq], "steer", ctl.seq)
    <2> DEFINE r == [id |-> eng.rid + 1, kind |-> "steer", turn |-> eng.turn, upto |-> ctl.seq]
    <2>1. /\ eng' = [[eng EXCEPT !.pc = "steer", !.offered = ctl.seq] EXCEPT !.rid = eng.rid + 1]
          /\ srv' = [srv EXCEPT !.inbox = Append(@, r)]
      BY <1>3 DEF Sent
    <2>2. r.kind = "steer" /\ r.turn = eng.turn /\ r.upto = ctl.seq
      OBVIOUS
    <2> HIDE DEF r
    <2>3. /\ eng'.pc = "steer" /\ eng'.turn = eng.turn /\ eng'.completed = eng.completed
          /\ eng'.events = eng.events /\ eng'.said = eng.said /\ eng'.steered = eng.steered
          /\ eng'.offered = ctl.seq
      BY <1>0, <2>1 DEF EngineRow
    <2>4. srv'.inbox = <<r>> /\ srv'.out = srv.out /\ srv'.turns = srv.turns
      BY <1>0, <1>1, <2>1 DEF ServerRow
    <2>5. Steers(srv'.inbox, eng'.turn, eng'.offered)
      BY <2>2, <2>3, <2>4 DEF Steers
    <2>6. ~Grants(srv'.out, eng'.rid)
      BY <1>1, <2>4 DEF Grants, Silent, Response
    <2> QED BY <1>1, <2>3, <2>4, <2>5, <2>6 DEF LiveInv, LiveTurn
  <1>4. CASE eng'.pc \in {"stopping", "finally", "restart"}
    BY <1>4, LiveElsewhere DEF Deciding
  <1>5. Sent([eng EXCEPT !.pc = "stopping"], "interrupt", 0) => eng'.pc = "stopping"
    BY <1>0 DEF Sent, EngineRow
  <1>6. eng' = Ended(eng, "cancelled") \/ eng' = [eng EXCEPT !.pc = "restart"] => eng'.pc \in {"finally", "restart"}
    BY <1>0 DEF Ended, EngineRow
  <1> QED BY <1>2, <1>3, <1>4, <1>5, <1>6 DEF CheckControl

LEMMA SteeredLive == ASSUME TypeOK, IdInv, LiveInv, Steered PROVE LiveInv'
  <1>0. eng \in EngineRow /\ srv \in ServerRow /\ eng.pc = "steer"
    BY DEF TypeOK, Steered
  <1>1. CASE /\ AnswerRead /\ eng' = [eng EXCEPT !.pc = "poll", !.steered = eng.offered]
             /\ srv' = [srv EXCEPT !.out = Tail(@)]
    <2>1. /\ srv.out # << >> /\ Head(srv.out).t = "response" /\ Grants(srv.out, eng.rid)
          /\ srv.inbox = << >> /\ Silent(Tail(srv.out))
      BY <1>1, AnsweredGrants
    <2>2. LiveTurn(eng.offered) /\ eng.turn = Len(srv.turns)
          /\ \A k \in DOMAIN eng.said : MsgOf(eng.said[k], eng.turn)
      BY <1>0, <2>1 DEF LiveInv
    <2>3. Lively(srv.turns, eng.completed, eng.said, eng.events, Tail(srv.out), eng.offered)
      <3>1. ~MsgOf(Head(srv.out), Len(srv.turns))
        BY <2>1 DEF MsgOf
      <3> QED BY <2>1, <2>2, <3>1, Fields, LivelyAnswered DEF LiveTurn
    <2>4. /\ eng'.pc = "poll" /\ eng'.turn = eng.turn /\ eng'.completed = eng.completed
          /\ eng'.events = eng.events /\ eng'.said = eng.said /\ eng'.steered = eng.offered
      BY <1>0, <1>1 DEF EngineRow
    <2>5. srv'.inbox = << >> /\ srv'.out = Tail(srv.out) /\ srv'.turns = srv.turns
      BY <1>0, <1>1, <2>1 DEF ServerRow
    <2> QED BY <2>1, <2>2, <2>3, <2>4, <2>5 DEF LiveInv, LiveTurn
  <1>2. CASE eng' = AfterSteerRefused
    <2>1. eng'.pc = "redirect"
      BY <1>0, <1>2 DEF AfterSteerRefused, EngineRow
    <2> QED BY <2>1, LiveElsewhere DEF Deciding
  <1> QED BY <1>1, <1>2 DEF Steered

\* What a reading engine knows.
LEMMA ReadingFacts ==
    ASSUME TypeOK, LiveInv, HasEvent
    PROVE  /\ srv.inbox = << >> /\ Silent(srv.out) /\ LiveTurn(eng.steered) /\ eng.turn = Len(srv.turns)
           /\ \A k \in DOMAIN eng.said : MsgOf(eng.said[k], eng.turn)
           /\ NextEvent \in Lines
           /\ eng.events = << >> => srv.out # << >>
  <1>1. eng.events = << >> => srv.out # << >>
    BY DEF HasEvent
  <1>2. NextEvent \in Lines
    BY <1>1, Fields, Shortened DEF NextEvent
  <1> QED BY <1>1, <1>2 DEF LiveInv, HasEvent

\* It takes an event and goes on: the messages of the turn are the ones it keeps.
LEMMA ReadOn ==
    ASSUME TypeOK, LiveInv, HasEvent, NEW e, Beside(e), TakeEvent(e), e.pc = "poll", e.steered = eng.steered,
           \/ ~MsgOf(NextEvent, Len(srv.turns)) /\ e.said = eng.said
           \/ MsgOf(NextEvent, Len(srv.turns)) /\ e.said = Append(eng.said, NextEvent)
    PROVE  LiveInv'
  <1>0. eng \in EngineRow /\ srv \in ServerRow /\ eng.said \in Seq(Lines)
    BY Fields DEF TypeOK
  <1>1. /\ srv.inbox = << >> /\ Silent(srv.out) /\ LiveTurn(eng.steered) /\ eng.turn = Len(srv.turns)
        /\ \A k \in DOMAIN eng.said : MsgOf(eng.said[k], eng.turn)
        /\ NextEvent \in Lines
        /\ eng.events = << >> => srv.out # << >>
    BY ReadingFacts
  <1>2. /\ eng'.pc = "poll" /\ eng'.turn = eng.turn /\ eng'.completed = eng.completed
        /\ eng'.said = e.said /\ eng'.steered = eng.steered
    BY EventShape
  <1>3. \A k \in DOMAIN e.said : MsgOf(e.said[k], eng.turn)
    BY <1>0, <1>1, Appended
  <1>4. CASE eng.events # << >>
    <2>1. NextEvent = Head(eng.events) /\ eng'.events = Tail(eng.events) /\ srv' = srv
      BY <1>4 DEF NextEvent, TakeEvent, Beside, EngineRow
    <2>a. /\ eng.events \in Seq(Lines) /\ srv.out \in Seq(Lines)
          /\ Lively(srv.turns, eng.completed, eng.said, eng.events, srv.out, eng.steered)
      BY <1>1, Fields DEF LiveTurn
    <2>2. Lively(srv.turns, eng.completed, e.said, Tail(eng.events), srv.out, eng.steered)
      <3>1. CASE ~MsgOf(NextEvent, Len(srv.turns)) /\ e.said = eng.said
        BY <1>0, <1>4, <2>1, <2>a, <3>1, LivelyTaken
      <3>2. CASE MsgOf(NextEvent, Len(srv.turns)) /\ e.said = Append(eng.said, NextEvent)
        BY <1>0, <1>4, <2>1, <2>a, <3>2, LivelyTaken
      <3> QED BY <3>1, <3>2
    <2> QED BY <1>1, <1>2, <1>3, <2>1, <2>2 DEF LiveInv, LiveTurn
  <1>5. CASE eng.events = << >>
    <2>1. NextEvent = Head(srv.out) /\ eng'.events = eng.events /\ srv'.out = Tail(srv.out)
          /\ srv'.inbox = srv.inbox /\ srv'.turns = srv.turns
      BY <1>0, <1>5 DEF NextEvent, TakeEvent, Beside, ServerRow
    <2>a. /\ eng.events \in Seq(Lines) /\ srv.out \in Seq(Lines) /\ srv.out # << >>
          /\ Lively(srv.turns, eng.completed, eng.said, eng.events, srv.out, eng.steered)
      BY <1>1, <1>5, Fields DEF LiveTurn
    <2>2. Lively(srv.turns, eng.completed, e.said, eng.events, Tail(srv.out), eng.steered)
      <3>1. CASE ~MsgOf(NextEvent, Len(srv.turns)) /\ e.said = eng.said
        BY <1>0, <1>5, <2>1, <2>a, <3>1, LivelyTaken
      <3>2. CASE MsgOf(NextEvent, Len(srv.turns)) /\ e.said = Append(eng.said, NextEvent)
        BY <1>0, <1>5, <2>1, <2>a, <3>2, LivelyTaken
      <3> QED BY <3>1, <3>2
    <2>3. Silent(Tail(srv.out))
      BY <1>1, <1>5, Fields, AnswersTaken
    <2> QED BY <1>1, <1>2, <1>3, <2>1, <2>2, <2>3 DEF LiveInv, LiveTurn
  <1> QED BY <1>4, <1>5

\* The completion of the turn is read: its last message is about all that was steered.
LEMMA ReadEnd ==
    ASSUME TypeOK, OverInv, LiveInv, HasEvent, EndOf(NextEvent, eng.turn),
           TakeEvent([eng EXCEPT !.pc = "validate"])
    PROVE  LiveInv'
  <1>1. /\ LiveTurn(eng.steered) /\ eng.turn = Len(srv.turns)
        /\ \A k \in DOMAIN eng.said : MsgOf(eng.said[k], eng.turn)
        /\ eng.events = << >> => srv.out # << >>
    BY ReadingFacts
  <1>2. /\ eng'.pc = "validate" /\ eng'.turn = eng.turn /\ eng'.said = eng.said /\ eng'.steered = eng.steered
    <2>1. PICK e : e = [eng EXCEPT !.pc = "validate"]
      OBVIOUS
    <2>2. Beside(e) /\ TakeEvent(e)
      BY <2>1, BesideForms DEF Pcs
    <2>3. e.pc = "validate" /\ e.said = eng.said /\ e.steered = eng.steered
      BY <2>1, PcShape
    <2> QED BY <2>2, <2>3, EventShape
  <1> DEFINE t == srv.turns[eng.turn]
  <1>3. /\ eng.turn \in DOMAIN srv.turns /\ t.heard = eng.steered /\ t.heard \in Nat
        /\ t.told # -1 => Speaks(eng.said, eng.events, srv.out, eng.turn, t.told)
    <2>1. /\ srv.turns # << >> /\ t.heard = eng.steered
          /\ t.told # -1 => Speaks(eng.said, eng.events, srv.out, eng.turn, t.told)
      BY <1>1 DEF LiveTurn, Lively
    <2>2. eng.turn \in DOMAIN srv.turns
      BY <1>1, <2>1, PipeFacts
    <2> QED BY <2>1, <2>2, PipeFacts
  <1>4. Over(eng.events, srv.out, t, eng.turn)
    BY <1>3 DEF OverInv
  <1>5. \/ eng.events # << >> /\ EndOf(Head(eng.events), eng.turn)
        \/ eng.events = << >> /\ srv.out # << >> /\ EndOf(Head(srv.out), eng.turn)
    BY <1>1 DEF NextEvent
  <1> HIDE DEF t
  <1>6. LastSays(eng.said, eng.turn, t.heard)
    <2>1. t.heard # -1
      BY <1>3
    <2>2. eng.said \in Seq(Lines) /\ eng.events \in Seq(Lines) /\ srv.out \in Seq(Lines)
      BY Fields
    <2> QED BY <1>3, <1>4, <1>5, <2>1, <2>2, AllRead
  <1>7. PICK k \in DOMAIN eng.said : /\ MsgOf(eng.said[k], eng.turn) /\ eng.said[k].about = t.heard
                                     /\ \A m \in DOMAIN eng.said : m > k => ~MsgOf(eng.said[m], eng.turn)
    BY <1>6 DEF LastSays
  <1>8. eng.said # << >> /\ k = Len(eng.said)
    <2>1. eng.said \in Seq(Lines)
      BY Fields
    <2>2. DOMAIN eng.said = 1 .. Len(eng.said) /\ Len(eng.said) \in Nat
      BY <2>1
    <2>3. \A m \in DOMAIN eng.said : ~(m > k)
      BY <1>1, <1>7
    <2>4. Len(eng.said) \in DOMAIN eng.said
      BY <2>2
    <2> QED BY <2>2, <2>3, <2>4
  <1>9. Last(eng.said) = eng.said[k]
    BY <1>8 DEF Last
  <1>10. eng.said # << >> /\ MsgOf(Last(eng.said), eng.turn) /\ Last(eng.said).about >= eng.steered
    BY <1>3, <1>7, <1>8, <1>9
  <1> QED BY <1>2, <1>10 DEF LiveInv

LEMMA ReadingLive ==
    ASSUME TypeOK, OverInv, LiveInv, ReadFails \/ DropLate \/ Notified \/ ToolCall
    PROVE  LiveInv'
  <1>0. eng \in EngineRow
    BY DEF TypeOK
  <1>1. ASSUME NEW how, HasEvent, TakeEvent(Ended(eng, how)), how \in Results PROVE LiveInv'
    <2>1. PICK e : e = Ended(eng, how)
      OBVIOUS
    <2>2. Beside(e) /\ TakeEvent(e) /\ e.pc = "finally"
      BY <1>1, <2>1, BesideForms, EndedShape
    <2>3. eng'.pc = "finally"
      BY <2>2, EventShape
    <2> QED BY <2>3, LiveElsewhere DEF Deciding
  <1>2. /\ HasEvent /\ TakeEvent(Ended(eng, "failed")) => LiveInv'
        /\ HasEvent /\ TakeEvent(Ended(eng, "cancelled")) => LiveInv'
    BY <1>1 DEF Results
  <1>3. ASSUME HasEvent, TakeEvent([eng EXCEPT !.pc = "poll"]), ~MsgOf(NextEvent, Len(srv.turns)) PROVE LiveInv'
    <2>1. Beside([eng EXCEPT !.pc = "poll"])
      BY BesideForms DEF Pcs
    <2> QED BY <1>3, <2>1, ReadOn, PcShape
  <1>4. CASE ReadFails
    <2>1. CASE eng' = Ended(eng, "failed")
      BY <2>1, EndedShape, LiveElsewhere DEF Deciding
    <2>2. CASE eng' = [eng EXCEPT !.pc = "poll"]
      <3>1. /\ eng'.pc = "poll" /\ eng'.turn = eng.turn /\ eng'.completed = eng.completed
            /\ eng'.events = eng.events /\ eng'.said = eng.said /\ eng'.steered = eng.steered
        BY <1>0, <2>2 DEF EngineRow
      <3>2. srv' = srv /\ eng.pc = "read"
        BY <1>4 DEF ReadFails
      <3> QED BY <3>1, <3>2 DEF LiveInv, LiveTurn
    <2> QED BY <1>4, <2>1, <2>2 DEF ReadFails
  <1>5. CASE DropLate
    <2>1. HasEvent /\ NextEvent.turn \in eng.completed
      BY <1>5 DEF DropLate
    <2>2. ~MsgOf(NextEvent, Len(srv.turns))
      BY <2>1, ReadingFacts DEF LiveTurn, Lively, MsgOf
    <2> QED BY <1>2, <1>3, <1>5, <2>1, <2>2 DEF DropLate
  <1>6. CASE ToolCall
    <2>1. HasEvent /\ ~MsgOf(NextEvent, Len(srv.turns))
      BY <1>6 DEF ToolCall, MsgOf
    <2> QED BY <1>2, <1>3, <1>6, <2>1 DEF ToolCall
  <1>7. CASE Notified
    <2>1. HasEvent /\ eng.turn = Len(srv.turns) /\ NextEvent \in Lines /\ NextEvent.t \in {"message", "completed", "usage"}
      BY <1>7, ReadingFacts DEF Notified
    <2>2. CASE Foreign
      BY <1>2, <1>7, <2>1, <2>2 DEF Notified
    <2>3. CASE ~Foreign /\ NextEvent.t = "usage"
      <3>1. TakeEvent([eng EXCEPT !.pc = "poll"])
        BY <1>7, <2>3 DEF Notified
      <3> QED BY <1>3, <2>1, <2>3, <3>1 DEF MsgOf
    <2>4. CASE ~Foreign /\ NextEvent.t = "message"
      <3> DEFINE e == [eng EXCEPT !.pc = "poll", !.said = Append(@, NextEvent)]
      <3>1. TakeEvent(e)
        BY <1>7, <2>4 DEF Notified
      <3>2. Append(eng.said, NextEvent) \in Seq(Lines)
        BY <2>1, Fields
      <3>3. Beside(e) /\ e.pc = "poll" /\ e.steered = eng.steered /\ e.said = Append(eng.said, NextEvent)
        BY <1>0, <3>2 DEF Beside, EngineRow, Pcs
      <3>4. MsgOf(NextEvent, Len(srv.turns))
        BY <2>1, <2>4 DEF Foreign, MsgOf
      <3> HIDE DEF e
      <3> QED BY <2>1, <3>1, <3>3, <3>4, ReadOn
    <2>5. CASE ~Foreign /\ NextEvent.t = "completed"
      <3>1. \/ TakeEvent(Ended(eng, "cancelled")) \/ TakeEvent(Ended(eng, "failed"))
            \/ /\ TakeEvent([eng EXCEPT !.pc = "validate"])
               /\ NextEvent.about # "interrupted" /\ NextEvent.about # "failed"
        BY <1>7, <2>5 DEF Notified
      <3>2. CASE /\ TakeEvent([eng EXCEPT !.pc = "validate"])
                 /\ NextEvent.about # "interrupted" /\ NextEvent.about # "failed"
        <4>1. EndOf(NextEvent, eng.turn)
          BY <2>1, <2>5, <3>2, LineKinds DEF Foreign, EndOf
        <4> QED BY <2>1, <3>2, <4>1, ReadEnd
      <3> QED BY <1>2, <2>1, <3>1, <3>2
    <2> QED BY <2>1, <2>2, <2>3, <2>4, <2>5
  <1> QED BY <1>4, <1>5, <1>6, <1>7

\* Every step keeps what the engine knows of the newest turn.
LEMMA StepLive == ASSUME TypeOK, PipeInv, LiveInv, [SessionNext]_cvars PROVE LiveInv'
  <1>0. eng \in EngineRow /\ srv \in ServerRow
    BY DEF TypeOK
  <1>a. IdInv /\ TurnInv /\ OverInv
    BY DEF PipeInv
  <1>1. CASE UNCHANGED cvars \/ UserActs \/ ProcessDies
    <2>1. eng' = eng /\ srv'.inbox = srv.inbox /\ srv'.out = srv.out /\ srv'.turns = srv.turns
      BY <1>0, <1>1 DEF cvars, UserActs, ProcessDies, ServerRow
    <2> QED BY <2>1, LiveSame
  <1>2. CASE ServerHandles \/ ProviderSays \/ ProviderCalls
    BY <1>2, <1>a, HandlesLive, SaysLive, CallsLive
  <1>3. CASE Pass \/ Proceeds \/ Buffers \/ CheckControl \/ Steered
    BY <1>3, <1>a, PassLive, ProceedsLive, BuffersLive, CheckControlLive, SteeredLive
  <1>4. CASE ReadFails \/ DropLate \/ Notified \/ ToolCall
    BY <1>4, <1>a, ReadingLive
  <1>5. CASE Validate
    <2>1. eng'.pc = "finally" \/ (/\ eng'.pc = "accept" /\ eng.pc = "validate" /\ eng'.said = eng.said
                                  /\ eng'.turn = eng.turn /\ eng'.steered = eng.steered)
      BY <1>0, <1>5 DEF Validate, Ended, EngineRow
    <2> QED BY <2>1 DEF LiveInv
  <1>6. CASE StartingFails \/ InterruptForRedirect \/ Interrupted \/ Restart
    <2>1. eng'.pc \in {"closing", "finally", "redirecting", "restart", "idle"}
      BY <1>0, <1>6 DEF StartingFails, AfterFailedAnswer, InterruptForRedirect, Sent, Interrupted, Restart,
                        Ended, EngineRow
    <2> QED BY <2>1, LiveElsewhere DEF Deciding
  <1>7. CASE Accept \/ LegacyResult \/ LoopEnds \/ Aclose \/ Close
    <2>1. eng'.pc \in {"closing", "finally", "restart", "idle", "closed"}
      BY <1>0, <1>7 DEF Accept, LegacyResult, LoopEnds, AfterFailedAnswer, Aclose, Close, Ended, EngineRow
    <2> QED BY <2>1, LiveElsewhere DEF Deciding
  <1>8. CASE Unexpected
    <2>1. Beside(Ended(eng, "failed"))
      BY BesideForms DEF Results
    <2>2. eng'.pc = "finally"
      BY <1>8, <2>1, EventShape, EndedShape DEF Unexpected
    <2> QED BY <2>2, LiveElsewhere DEF Deciding
  <1> QED BY <1>1, <1>2, <1>3, <1>4, <1>5, <1>6, <1>7, <1>8 DEF SessionNext

\* The lines kept while an answer is awaited are no answers.
LEMMA StepKept == ASSUME TypeOK, OpenInv, TurnInv, Silent(eng.events), [SessionNext]_cvars PROVE Silent(eng'.events)
  <1>0. eng.events \in Seq(Lines) /\ srv.out \in Seq(Lines)
    BY Fields
  <1>1. CASE eng'.events = eng.events
    BY <1>1
  <1>2. CASE TakesKept
    <2>1. eng.events # << >> /\ eng'.events = Tail(eng.events)
      BY <1>2 DEF TakesKept
    <2> QED BY <1>0, <2>1, AnswersTaken
  <1>3. CASE KeepsLine
    <2>1. srv.out # << >> /\ eng'.events = Append(eng.events, Head(srv.out)) /\ Head(srv.out).t # "response"
      BY <1>3 DEF KeepsLine
    <2>2. Head(srv.out) \in Lines
      BY <1>0, <2>1, Shortened
    <2> QED BY <1>0, <2>1, <2>2, Appended DEF Silent
  <1>4. CASE UNCHANGED cvars \/ UserActs \/ ProcessDies \/ ServerHandles \/ ProviderSays \/ ProviderCalls
    BY <1>1, <1>4 DEF cvars, UserActs, ProcessDies, ServerHandles, ProviderSays, ProviderCalls
  <1>5. CASE Pass \/ Proceeds \/ StartingFails \/ Buffers \/ CheckControl \/ Steered
             \/ InterruptForRedirect \/ Interrupted \/ Restart
    <2>1. Rests \/ TakesLine \/ KeepsLine \/ \E r : Asks(r)
      BY <1>5, ControlMoves
    <2> QED BY <1>1, <1>3, <2>1 DEF Rests, TakesLine, Asks
  <1>6. CASE ReadFails \/ DropLate \/ Notified \/ Unexpected \/ Validate \/ Accept
             \/ ToolCall \/ LegacyResult \/ LoopEnds \/ Aclose \/ Close
    <2>1. Rests \/ TakesLine \/ TakesKept
      BY <1>6, ReadingMoves
    <2> QED BY <1>1, <1>2, <2>1 DEF Rests, TakesLine
  <1> QED BY <1>4, <1>5, <1>6 DEF SessionNext

---------------------------------------------------------------------------
(* The theorems. *)

LEMMA StepDecision ==
    ASSUME TypeOK, LiveInv, DecisionIsCurrent, [SessionNext]_cvars
    PROVE  DecisionIsCurrent'
  <1>1. CASE decision' = decision
    BY <1>1 DEF DecisionIsCurrent
  <1>2. CASE decision' # decision
    <2>1. Accept
      BY <1>2 DEF SessionNext, cvars, UserActs, ProcessDies, ServerHandles, ProviderSays, ProviderCalls, Pass, Proceeds,
                  StartingFails, Buffers, CheckControl, Steered, InterruptForRedirect, Interrupted, Restart,
                  ReadFails, DropLate, Notified, Unexpected, Validate, ToolCall, LegacyResult, LoopEnds,
                  Aclose, Close
    <2>2. /\ ~Outdated /\ eng.pc = "accept"
          /\ decision' = [turn |-> eng.turn, from |-> Last(eng.said).turn,
                          heard |-> Last(eng.said).about, asked |-> ctl.seq]
      BY <1>2, <2>1 DEF Accept
    <2>3. eng.said # << >> /\ MsgOf(Last(eng.said), eng.turn) /\ Last(eng.said).about >= eng.steered
      BY <2>2 DEF LiveInv
    <2>4. Last(eng.said) \in Lines
      <3>1. eng.said \in Seq(Lines)
        BY Fields
      <3> QED BY <2>3, <3>1 DEF Last
    <2>5. Last(eng.said).about \in Nat /\ ctl.seq \in Nat /\ eng.steered \in Nat /\ Last(eng.said).turn = eng.turn
      BY <2>3, <2>4, LineKinds, Fields DEF MsgOf
    <2> QED BY <2>2, <2>3, <2>5 DEF DecisionIsCurrent, Outdated
  <1> QED BY <1>1, <1>2

LEMMA InitSessionInv == SessionInit => SessionInv
  <1> SUFFICES ASSUME SessionInit PROVE SessionInv
    OBVIOUS
  <1>1. TypeOK
    BY DEF SessionInit, TypeOK, EngineRow, ServerRow, LegacyRow, Pcs, Results
  <1>2. OpenInv /\ StageInv
    BY DEF SessionInit, OpenInv, StageInv, NothingLeftOpen, Working, Pcs, ToSet
  <1>3. IdInv /\ TurnInv /\ OverInv
    BY DEF SessionInit, IdInv, IdsInOrder, TurnInv, NamesUpTo, OverInv
  <1>4. LiveInv /\ DecisionIsCurrent
    BY DEF SessionInit, LiveInv, DecisionIsCurrent
  <1> QED BY <1>1, <1>2, <1>3, <1>4 DEF SessionInv

LEMMA StepSessionInv == SessionInv /\ [SessionNext]_cvars => SessionInv'
  <1> SUFFICES ASSUME SessionInv, [SessionNext]_cvars PROVE SessionInv'
    OBVIOUS
  <1>1. TypeOK /\ OpenInv /\ StageInv /\ PipeInv /\ LiveInv /\ DecisionIsCurrent /\ TurnInv
    BY DEF SessionInv, PipeInv
  <1>2. TypeOK'
    BY <1>1, StepType
  <1>3. OpenInv' /\ StageInv'
    BY <1>1, StepOpen, StepStage
  <1>4. PipeInv'
    BY <1>1, StepPipe
  <1>5. LiveInv' /\ DecisionIsCurrent'
    BY <1>1, StepLive, StepDecision
  <1> QED BY <1>2, <1>3, <1>4, <1>5 DEF SessionInv, PipeInv

LEMMA SessionInvariant == SessionSpec => []SessionInv
  BY InitSessionInv, StepSessionInv, PTL DEF SessionSpec

\* DecisionIsCurrent: whatever the App Server says and however answers are lost, the decision
\* that next_decision returns to the host loop is the last message of the provider turn started
\* for it, written after every correction that Odoo held when it was accepted.
THEOREM DecisionsAreCurrent == SessionSpec => []DecisionIsCurrent
  <1>1. SessionInv => DecisionIsCurrent
    BY DEF SessionInv
  <1> QED BY SessionInvariant, <1>1, PTL

\* NothingLeftOpen: when the loop is over, the child process of _CodexClient has exited and its
\* temporary directories, one with a copy of the login, are removed.
THEOREM NothingStaysOpen == SessionSpec => []NothingLeftOpen
  <1>1. SessionInv => NothingLeftOpen
    BY DEF SessionInv, OpenInv
  <1> QED BY SessionInvariant, <1>1, PTL

\* StagedPlanIsFinal: on the rollback path the plan that _reconcile_staged_plan lets through is
\* made of exactly the steps that _stage_plan_step acknowledged.
THEOREM PlanIsTheStagedOne == SessionSpec => []StagedPlanIsFinal
  <1>1. ASSUME SessionInv PROVE StagedPlanIsFinal
    <2>1. legacy.acked # {} => legacy.staged # << >>
      BY <1>1 DEF SessionInv, StageInv, ToSet
    <2> QED BY <1>1, <2>1 DEF SessionInv, StageInv, StagedPlanIsFinal
  <1> QED BY SessionInvariant, <1>1, PTL

\* No answer is ever read as an event.
AnswersAreAwaited == eng.pc = "read" => Silent(srv.out) /\ Silent(eng.events)

\* A late answer never reaches the reader of events: the answer to a steer or an interrupt that
\* timed out meets the next request on the pipe, whose _request refuses it.  The server request
\* error of the reader (Unexpected) is never caused by the session's own requests.
THEOREM LateAnswersAreRefused == SessionSpec => []AnswersAreAwaited
  <1> DEFINE Inv == SessionInv /\ Silent(eng.events)
  <1>1. SessionInit => Inv
    BY InitSessionInv DEF SessionInit, Silent
  <1>2. Inv /\ [SessionNext]_cvars => Inv'
    <2>1. ASSUME SessionInv, Silent(eng.events), [SessionNext]_cvars PROVE Silent(eng'.events)
      BY <2>1, StepKept DEF SessionInv
    <2>2. Silent(eng.events)' = Silent(eng'.events)
      BY DEF Silent
    <2> QED BY <2>1, <2>2, StepSessionInv, Zenon
  <1>3. Inv => AnswersAreAwaited
    BY DEF SessionInv, LiveInv, AnswersAreAwaited
  <1> QED BY <1>1, <1>2, <1>3, PTL DEF SessionSpec
=============================================================================
