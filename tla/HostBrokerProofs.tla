-------------------------- MODULE HostBrokerProofs --------------------------
(***************************************************************************)
(* Proofs about HostBroker, for any steps, targets, calls and values.      *)
(*                                                                         *)
(* The inductive invariant says what each row of the ledger guarantees:    *)
(* nothing has happened for an absent row, a terminal row has a receipt    *)
(* that the history supports, and the row that is being served is a        *)
(* running one whose effect has got as far as the broker has.  A row left  *)
(* running by a dead broker is in no such relation with the history, and   *)
(* that is why nothing may ever resume it.                                 *)
(***************************************************************************)
EXTENDS HostBroker, TLAPS

States == [value : Values \union {"none", "unit"}, generation : Nat]

Outcomes == [status : {"none", "ok", "stale", "denied", "uncertain"},
             effect : {"none", "applied", "unknown"}, token : BOOLEAN, post : States]

Databases == {"none"} \union {DbOf[k] : k \in Calls}

RowType == [state : {"absent", "running", "terminal"}, db : Databases, receipt : Outcomes]

Locations == {"down", "idle", "begun", "checked", "unchanged", "backed", "effected", "waiting",
              "finish"}

CallStates == {"none", "sent", "ok", "unchanged", "stale", "denied", "uncertain", "unavailable"}

TypeOK ==
    /\ host \in [Targets -> [value : Values, generation : Nat]]
    /\ plan \in [Steps -> States]
    /\ ledger \in [Steps -> RowType]
    /\ backup \in [Steps -> States]
    /\ command \in [Steps -> {"none", "running", "succeeded", "failed"}]
    /\ broker \in [pc : Locations, call : Calls \union {"none"}, out : Outcomes]
    /\ Serving => broker.call \in Calls
    /\ inbox \subseteq Calls
    /\ call \in [Calls -> CallStates]
    /\ effects \in [Steps -> {0, 1}]

\* What the history must show for the broker to give this outcome of a step.
Supported(s, out) ==
    /\ out.status = "ok" => out.effect \in {"none", "applied"}
    /\ out.status = "denied" => out.effect = "none"
    /\ out.status # "none"
    /\ (out.status = "ok" /\ out.effect = "applied") => effects[s] = 1
    /\ out.status = "stale" => (effects[s] = 0 /\ command[s] # "running")
    /\ out.token => backup[s] = plan[s]

Untouched(s) == effects[s] = 0 /\ command[s] = "none" /\ backup[s] = NoState

RowInv(s) ==
    /\ ledger[s].state = "absent" => Untouched(s)
    /\ ledger[s].state # "absent" => plan[s] # NoState
    /\ ledger[s].state = "terminal" => Supported(s, ledger[s].receipt)
    /\ ledger[s].state # "terminal" => ledger[s].receipt = NoOutcome
    /\ command[s] = "running" => effects[s] = 0

\* How far the effect of the step that is served has got.
Progress(s) ==
    /\ ledger[s].state = "running"
    /\ broker.pc \in {"begun", "checked", "unchanged"} => Untouched(s)
    /\ broker.pc = "unchanged" => KindOf[s] = "config"
    /\ broker.pc = "backed" =>
        (effects[s] = 0 /\ command[s] = "none" /\ backup[s] = plan[s] /\ KindOf[s] = "config")
    /\ broker.pc = "waiting" =>
        (KindOf[s] # "config" /\ (command[s] = "succeeded" => effects[s] = 1))
    /\ broker.pc = "effected" =>
        (effects[s] = 1 /\ (KindOf[s] = "config" => backup[s] = plan[s]))
    /\ broker.pc = "finish" => Supported(s, broker.out)

RowsInv == \A s \in Steps : RowInv(s)

ServedInv == Serving => Progress(Step)

\* What a call was told, and that it was previewed before it was sent.
AnswerInv ==
    \A k \in Calls :
        /\ k \in inbox => call[k] # "none"
        /\ call[k] # "none" => plan[StepOf[k]] # NoState
        /\ call[k] = "stale" => (ledger[StepOf[k]].state = "terminal"
                                 /\ ledger[StepOf[k]].receipt.status = "stale")

BrokerInv == TypeOK /\ RowsInv /\ ServedInv /\ AnswerInv

-----------------------------------------------------------------------------
(* The model's operators *)

\* Every fingerprint is a state that can be compared with a precondition.
LEMMA FingerprintType ==
    ASSUME TypeOK, NEW s \in Steps
    PROVE  Fingerprint(s) \in States
  <1>1. host[TargetOf[s]] \in [value : Values, generation : Nat]
    BY StepAssumption DEF TypeOK
  <1>2. KindOf[s] \in {"config", "service", "module"}
    BY StepAssumption
  <1> QED BY <1>1, <1>2 DEF Fingerprint, ConfigFingerprint, ServiceFingerprint, ModuleFingerprint,
                            States

\* The outcomes the broker gives are well formed.
LEMMA OutcomeTypes ==
    /\ NoState \in States /\ NotAsked \in States
    /\ NoOutcome \in Outcomes /\ Uncertain \in Outcomes /\ Denied \in Outcomes
    /\ Outcome("stale", "none") \in Outcomes /\ UnreadableAfter \in Outcomes
    /\ \A h \in States, token \in BOOLEAN, e \in {"none", "applied"} :
            Success(e, token, h) \in Outcomes
  <1>1. NoState \in States /\ NotAsked \in States
    BY DEF NoState, NotAsked, States
  <1> QED BY <1>1 DEF Outcomes, NoOutcome, Uncertain, Denied, UnreadableAfter, Outcome, Success

\* An effect leaves its target a target.
LEMMA HappenType ==
    ASSUME TypeOK, NEW s \in Steps, Happen(s)
    PROVE  host' \in [Targets -> [value : Values, generation : Nat]]
  <1>1. host[TargetOf[s]] \in [value : Values, generation : Nat] /\ TargetOf[s] \in Targets
    BY StepAssumption DEF TypeOK
  <1>2. ValueOf[s] \in Values
    BY StepAssumption
  <1>3. AfterEffect(s, host[TargetOf[s]]) \in [value : Values, generation : Nat]
    BY <1>1, <1>2 DEF AfterEffect
  <1> QED BY <1>1, <1>3 DEF Happen, TypeOK

\* What ledger.begin finds is decided by the state of the row.
LEMMA BeginStates ==
    ASSUME TypeOK, NEW k \in Calls
    PROVE  /\ BeginState(k) = "new" => ledger[StepOf[k]].state = "absent"
           /\ BeginState(k) = "terminal" => ledger[StepOf[k]].state = "terminal"
  <1>1. ledger[StepOf[k]].state \in {"absent", "running", "terminal"}
    BY CallAssumption DEF TypeOK, RowType
  <1> QED BY <1>1 DEF BeginState

\* What the client makes of an outcome that the history supports.
LEMMA AnswerFacts ==
    ASSUME NEW s \in Steps, NEW out \in Outcomes, Supported(s, out)
    PROVE  /\ AnswerOf(out) \in CallStates \ {"none", "sent"}
           /\ AnswerOf(out) = "ok" => effects[s] = 1
           /\ AnswerOf(out) = "stale" => (out.status = "stale" /\ effects[s] = 0)
  <1>1. out.status \in {"none", "ok", "stale", "denied", "uncertain"}
        /\ out.effect \in {"none", "applied", "unknown"}
    BY DEF Outcomes
  <1>2. CASE out.status = "ok" /\ out.effect = "applied"
    BY <1>2 DEF AnswerOf, CallStates, Supported
  <1>3. CASE out.status = "ok" /\ out.effect = "none"
    BY <1>3 DEF AnswerOf, CallStates, Supported
  <1>4. CASE out.status = "stale"
    <2>1. AnswerOf(out) \in {"stale", "uncertain"}
      BY <1>4 DEF AnswerOf
    <2> QED BY <1>4, <2>1 DEF CallStates, Supported
  <1>5. CASE out.status = "uncertain"
    BY <1>5 DEF AnswerOf, CallStates
  <1>6. CASE out.status = "denied"
    BY <1>6 DEF AnswerOf, CallStates, Supported
  <1> QED BY <1>1, <1>2, <1>3, <1>4, <1>5, <1>6 DEF Supported

\* The refusals and the uncertain answer hold of any step.
LEMMA AlwaysSupported ==
    ASSUME NEW s \in Steps
    PROVE  Supported(s, Denied) /\ Supported(s, Uncertain) /\ Supported(s, UnreadableAfter)
  BY DEF Supported, Denied, Uncertain, UnreadableAfter, Outcome

\* A served call names one step of the plan.
LEMMA ServedStep ==
    ASSUME TypeOK, Serving
    PROVE  Step \in Steps /\ broker.call \in Calls
  BY CallAssumption DEF TypeOK, Step

-----------------------------------------------------------------------------
(* The inductive invariant *)

\* A fresh ledger.
LEMMA InitBroker == Init => BrokerInv
  <1> SUFFICES ASSUME Init PROVE BrokerInv
    OBVIOUS
  <1>1. TypeOK
    <2>1. host \in [Targets -> [value : Values, generation : Nat]]
      BY DEF Init
    <2>2. plan \in [Steps -> States]
      BY OutcomeTypes DEF Init
    <2>3. ledger \in [Steps -> RowType] /\ backup \in [Steps -> States]
      BY OutcomeTypes DEF Init, RowType, AbsentRow, Databases
    <2>4. broker \in [pc : Locations, call : Calls \union {"none"}, out : Outcomes] /\ ~Serving
      BY OutcomeTypes DEF Init, Down, Idle, Locations, Serving
    <2> QED BY <2>1, <2>2, <2>3, <2>4 DEF Init, TypeOK, CallStates
  <1>2. RowsInv
    BY DEF Init, RowsInv, RowInv, Untouched, AbsentRow
  <1>3. ServedInv
    BY DEF Init, ServedInv, Serving, Down, Idle
  <1>4. AnswerInv
    BY DEF Init, AnswerInv
  <1> QED BY <1>1, <1>2, <1>3, <1>4 DEF BrokerInv

\* Everything that RowInv and Progress read of a step but the broker.
RowSame(s) ==
    /\ plan'[s] = plan[s] /\ ledger'[s] = ledger[s] /\ backup'[s] = backup[s]
    /\ command'[s] = command[s] /\ effects'[s] = effects[s]

\* A row that a step leaves alone keeps its guarantee.
LEMMA RowFrame ==
    ASSUME NEW s \in Steps, RowSame(s)
    PROVE  /\ RowInv(s) => RowInv(s)'
           /\ (broker' = broker /\ Progress(s)) => Progress(s)'
  <1>1. ASSUME RowInv(s) PROVE RowInv(s)'
    BY <1>1 DEF RowSame, RowInv, Untouched, Supported
  <1>2. ASSUME broker' = broker, Progress(s) PROVE Progress(s)'
    <2>1. Untouched(s) => Untouched(s)'
      BY DEF RowSame, Untouched
    <2>2. Supported(s, broker.out) => Supported(s, broker.out)'
      BY <1>2 DEF RowSame, Supported
    <2> QED BY <1>2, <2>1, <2>2 DEF RowSame, Progress
  <1> QED BY <1>1, <1>2

\* The broker keeps its place.
LEMMA ServedFrame ==
    ASSUME TypeOK, ServedInv, broker' = broker, Serving => RowSame(Step)
    PROVE  ServedInv'
  <1>1. Serving' = Serving /\ Step' = Step
    BY DEF Serving, Step
  <1>2. CASE Serving
    <2>1. Progress(Step)'
      BY <1>1, <1>2, RowFrame, ServedStep DEF ServedInv
    <2> QED BY <2>1, <1>1 DEF ServedInv
  <1>3. CASE ~Serving
    BY <1>1, <1>3 DEF ServedInv
  <1> QED BY <1>2, <1>3

\* Calls that nobody answers.
LEMMA AnswerFrame ==
    ASSUME TypeOK, AnswerInv, call' = call, inbox' \subseteq inbox,
           \A s \in Steps : plan[s] # NoState => plan'[s] = plan[s],
           \A s \in Steps : ledger[s].state = "terminal" => ledger'[s] = ledger[s]
    PROVE  AnswerInv'
  BY CallAssumption DEF AnswerInv

\* One call gets an answer that is not "stale".
LEMMA AnswerOne ==
    ASSUME TypeOK, AnswerInv, NEW k \in Calls, NEW a \in CallStates \ {"none", "stale"},
           call' = [call EXCEPT ![k] = a], inbox' \subseteq inbox \union {k},
           plan[StepOf[k]] # NoState, UNCHANGED <<plan, ledger>>
    PROVE  AnswerInv' /\ call' \in [Calls -> CallStates]
  <1>1. call' \in [Calls -> CallStates]
    BY DEF TypeOK
  <1>2. ASSUME NEW c \in Calls
        PROVE  /\ c \in inbox' => call'[c] # "none"
               /\ call'[c] # "none" => plan'[StepOf[c]] # NoState
               /\ call'[c] = "stale" => (ledger'[StepOf[c]].state = "terminal"
                                 /\ ledger'[StepOf[c]].receipt.status = "stale")
    <2>1. CASE c = k
      BY <2>1 DEF TypeOK
    <2>2. CASE c # k
      BY <2>2 DEF TypeOK, AnswerInv
    <2> QED BY <2>1, <2>2
  <1> QED BY <1>1, <1>2 DEF AnswerInv

\* A reply: either nobody waits, or the client now knows what the outcome says.
LEMMA DeliverInv ==
    ASSUME TypeOK, AnswerInv, NEW k \in Calls, NEW out \in Outcomes, Deliver(k, out),
           Supported(StepOf[k], out), inbox' \subseteq inbox, plan' = plan,
           \A s \in Steps : ledger[s].state = "terminal" => ledger'[s] = ledger[s],
           out.status = "stale" => (ledger'[StepOf[k]].state = "terminal"
                                    /\ ledger'[StepOf[k]].receipt.status = "stale")
    PROVE  AnswerInv' /\ call' \in [Calls -> CallStates]
  <1>0. StepOf[k] \in Steps
    BY CallAssumption
  <1> DEFINE a == AnswerOf(out)
  <1>1. a \in CallStates \ {"none", "sent"} /\ (a = "stale" => out.status = "stale")
    BY <1>0, AnswerFacts
  <1> HIDE DEF a
  <1>2. CASE call[k] = "sent"
    <2>1. call' = [call EXCEPT ![k] = a]
      BY <1>2 DEF Deliver, a
    <2>2. call' \in [Calls -> CallStates]
      BY <1>1, <2>1 DEF TypeOK
    <2>3. plan[StepOf[k]] # NoState
      BY <1>2 DEF AnswerInv
    <2>4. ASSUME NEW c \in Calls
          PROVE  /\ c \in inbox' => call'[c] # "none"
                 /\ call'[c] # "none" => plan'[StepOf[c]] # NoState
                 /\ call'[c] = "stale" => (ledger'[StepOf[c]].state = "terminal"
                                   /\ ledger'[StepOf[c]].receipt.status = "stale")
      <3>1. CASE c = k
        BY <3>1, <2>1, <2>3, <1>1 DEF TypeOK
      <3>2. CASE c # k
        <4>1. call'[c] = call[c] /\ StepOf[c] \in Steps
          BY <3>2, <2>1, CallAssumption DEF TypeOK
        <4> QED BY <4>1 DEF AnswerInv
      <3> QED BY <3>1, <3>2
    <2> QED BY <2>2, <2>4 DEF AnswerInv
  <1>3. CASE call[k] # "sent"
    <2>1. call' = call
      BY <1>3 DEF Deliver
    <2>2. AnswerInv'
      BY <2>1, AnswerFrame
    <2> QED BY <2>1, <2>2 DEF TypeOK
  <1> QED BY <1>2, <1>3

-----------------------------------------------------------------------------
(* One lemma per group of actions *)

\* The rows, the effects and the broker of a step that only the clients take.
OnlyClients == UNCHANGED <<host, plan, ledger, backup, command, broker, effects>>

\* Sending, giving up, waiting and verifying change no row.
LEMMA ClientKeeps ==
    ASSUME BrokerInv, NEW k \in Calls, ClientStep(k)
    PROVE  BrokerInv'
  <1> USE DEF BrokerInv
  <1>1. OnlyClients
    BY DEF OnlyClients, ClientStep, ConnectFails, Send, ClientTimeout, Expire, VerifyCall,
           brokerVars, hostVars, clientVars
  <1>2. \A s \in Steps : RowSame(s)
    BY <1>1 DEF OnlyClients, RowSame
  <1>3. RowsInv'
    BY <1>2, RowFrame DEF RowsInv
  <1>4. ServedInv'
    BY <1>1, <1>2, ServedFrame, ServedStep DEF OnlyClients
  <1>5. call' \in [Calls -> CallStates] /\ inbox' \subseteq Calls /\ AnswerInv'
    <2>1. CASE ConnectFails(k)
      <3>1. call' = [call EXCEPT ![k] = "unavailable"] /\ plan[StepOf[k]] # NoState /\ inbox' = inbox
        BY <2>1 DEF ConnectFails, Asked, TransportCode
      <3> QED BY <3>1, <1>1, AnswerOne DEF OnlyClients, CallStates, TypeOK
    <2>2. CASE Send(k)
      <3>1. call' = [call EXCEPT ![k] = "sent"] /\ plan[StepOf[k]] # NoState
            /\ inbox' = inbox \union {k}
        BY <2>2 DEF Send, Asked
      <3> QED BY <3>1, <1>1, AnswerOne DEF OnlyClients, CallStates, TypeOK
    <2>3. CASE ClientTimeout(k)
      <3>1. call' = [call EXCEPT ![k] = "uncertain"] /\ plan[StepOf[k]] # NoState /\ inbox' = inbox
        BY <2>3 DEF ClientTimeout, TransportCode, AnswerInv
      <3> QED BY <3>1, <1>1, AnswerOne DEF OnlyClients, CallStates, TypeOK
    <2>4. CASE Expire(k) \/ VerifyCall(k)
      <3>1. call' = call /\ inbox' = inbox
        BY <2>4 DEF Expire, VerifyCall
      <3> QED BY <3>1, <1>1, AnswerFrame DEF OnlyClients, TypeOK
    <2> QED BY <2>1, <2>2, <2>3, <2>4 DEF ClientStep
  <1>6. TypeOK'
    BY <1>1, <1>5 DEF OnlyClients, TypeOK, Serving
  <1> QED BY <1>3, <1>4, <1>5, <1>6

\* A preview fixes the precondition of a step that has none yet.
LEMMA PreviewKeeps ==
    ASSUME BrokerInv, NEW s \in Steps, Preview(s)
    PROVE  BrokerInv'
  <1> USE DEF BrokerInv
  <1>1. /\ plan[s] = NoState /\ plan' = [plan EXCEPT ![s] = Fingerprint(s)] /\ broker.pc = "idle"
        /\ UNCHANGED <<host, ledger, backup, command, broker, effects, inbox, call>>
    BY DEF Preview, brokerVars, hostVars
  <1>2. Fingerprint(s) \in States
    BY FingerprintType
  <1>3. plan' \in [Steps -> States]
    BY <1>1, <1>2 DEF TypeOK
  <1>4. TypeOK'
    BY <1>1, <1>3 DEF TypeOK, Serving
  <1>5. ServedInv'
    BY <1>1 DEF ServedInv, Serving
  <1>6. \A r \in Steps : plan[r] # NoState => plan'[r] = plan[r]
    BY <1>1 DEF TypeOK
  <1>7. AnswerInv'
    BY <1>1, <1>6, AnswerFrame
  <1>8. ASSUME NEW r \in Steps PROVE RowInv(r)'
    <2>1. CASE r = s
      <3>1. ledger[s].state = "absent" /\ RowInv(s)
        BY <1>1 DEF RowsInv, RowInv
      <3> QED BY <3>1, <2>1, <1>1 DEF RowInv, Untouched
    <2>2. CASE r # s
      <3>1. RowSame(r)
        BY <2>2, <1>1 DEF RowSame, TypeOK
      <3> QED BY <3>1, RowFrame DEF RowsInv
    <2> QED BY <2>1, <2>2
  <1> QED BY <1>4, <1>5, <1>7, <1>8 DEF RowsInv

\* A command ends, whoever still waits for it.
LEMMA CommandKeeps ==
    ASSUME BrokerInv, NEW s \in Steps, CommandEnds(s)
    PROVE  BrokerInv'
  <1> USE DEF BrokerInv
  <1>1. PICK c \in {"succeeded", "failed"} :
          /\ command' = [command EXCEPT ![s] = c]
          /\ \/ Happen(s)
             \/ c = "failed" /\ UNCHANGED <<host, effects>>
    BY DEF CommandEnds, hostVars
  <1>2. command[s] = "running" /\ effects[s] = 0
        /\ UNCHANGED <<ledger, backup, broker, plan, inbox, call>>
    BY DEF CommandEnds, clientVars, RowsInv, RowInv
  <1>3. /\ effects' \in [Steps -> {0, 1}] /\ (c = "succeeded" => effects'[s] = 1)
        /\ \A r \in Steps : r # s => effects'[r] = effects[r]
    BY <1>1, <1>2 DEF Happen, TypeOK
  <1>4. host' \in [Targets -> [value : Values, generation : Nat]]
    BY <1>1, HappenType DEF TypeOK
  <1>5. command' \in [Steps -> {"none", "running", "succeeded", "failed"}] /\ command'[s] = c
        /\ \A r \in Steps : r # s => command'[r] = command[r]
    BY <1>1 DEF TypeOK
  <1>6. TypeOK'
    BY <1>2, <1>3, <1>4, <1>5 DEF TypeOK, Serving
  <1>7. \A r \in Steps : r # s => RowSame(r)
    BY <1>2, <1>3, <1>5 DEF RowSame
  <1>8. ledger[s].state # "absent" /\ RowInv(s)
    BY <1>2 DEF RowsInv, RowInv, Untouched
  <1>9. RowInv(s)'
    <2>1. ledger[s].state = "terminal" => Supported(s, ledger[s].receipt)'
      BY <1>8, <1>2 DEF RowInv, Supported
    <2> QED BY <2>1, <1>8, <1>2, <1>5 DEF RowInv
  <1>10. RowsInv'
    BY <1>7, <1>9, RowFrame DEF RowsInv
  <1>11. ServedInv'
    <2>1. CASE Serving /\ Step = s
      <3>1. Progress(s)
        BY <2>1 DEF ServedInv
      <3>2. broker.pc \notin {"begun", "checked", "unchanged", "backed", "effected"}
        BY <3>1, <1>2 DEF Progress, Untouched
      <3>3. Progress(s)'
        <4>1. broker.pc = "finish" => Supported(s, broker.out)'
          BY <3>1, <1>2 DEF Progress, Supported
        <4> QED BY <4>1, <3>1, <3>2, <1>2, <1>3, <1>5 DEF Progress
      <3> QED BY <3>3, <2>1, <1>2 DEF ServedInv, Step
    <2>2. CASE ~(Serving /\ Step = s)
      BY <2>2, <1>2, <1>7, ServedFrame, ServedStep
    <2> QED BY <2>1, <2>2
  <1>12. AnswerInv'
    BY <1>2, AnswerFrame
  <1> QED BY <1>6, <1>10, <1>11, <1>12

\* Somebody else changes a target: no row speaks of it.
LEMMA OutsideKeeps ==
    ASSUME BrokerInv, NEW t \in Targets, OutsideChange(t)
    PROVE  BrokerInv'
  <1> USE DEF BrokerInv
  <1>1. UNCHANGED <<plan, ledger, backup, command, broker, effects, inbox, call>>
    BY DEF OutsideChange, brokerVars, clientVars
  <1>2. host' \in [Targets -> [value : Values, generation : Nat]]
    BY DEF OutsideChange, TypeOK
  <1>3. \A s \in Steps : RowSame(s)
    BY <1>1 DEF RowSame
  <1>4. TypeOK'
    BY <1>1, <1>2 DEF TypeOK, Serving
  <1>5. RowsInv'
    BY <1>3, RowFrame DEF RowsInv
  <1>6. ServedInv'
    BY <1>1, <1>3, ServedFrame, ServedStep
  <1>7. AnswerInv'
    BY <1>1, AnswerFrame
  <1> QED BY <1>4, <1>5, <1>6, <1>7

\* The broker dies: what it was doing stays a running row.
LEMMA CrashKeeps ==
    ASSUME BrokerInv, Crash
    PROVE  BrokerInv'
  <1> USE DEF BrokerInv
  <1>1. /\ UNCHANGED <<host, plan, ledger, backup, command, effects>> /\ broker' = Down /\ inbox' = {}
        /\ call' = [k \in Calls |-> IF call[k] = "sent" THEN "uncertain" ELSE call[k]]
    BY DEF Crash, hostVars, clientVars, TransportCode
  <1>2. \A s \in Steps : RowSame(s)
    BY <1>1 DEF RowSame
  <1>3. Down \in [pc : Locations, call : Calls \union {"none"}, out : Outcomes] /\ ~Serving'
    BY <1>1, OutcomeTypes DEF Down, Idle, Locations, Serving
  <1>4. call' \in [Calls -> CallStates]
    BY <1>1 DEF TypeOK, CallStates
  <1>5. TypeOK'
    BY <1>1, <1>3, <1>4 DEF TypeOK
  <1>6. RowsInv'
    BY <1>2, RowFrame DEF RowsInv
  <1>7. AnswerInv'
    BY <1>1 DEF AnswerInv, TypeOK
  <1> QED BY <1>3, <1>5, <1>6, <1>7 DEF ServedInv

\* A broker that serves nobody.
LEMMA NotServing ==
    ASSUME broker' = Idle
    PROVE  /\ broker' \in [pc : Locations, call : Calls \union {"none"}, out : Outcomes]
           /\ ~Serving' /\ ServedInv'
  BY OutcomeTypes DEF Idle, Locations, Serving, ServedInv

\* A fresh process remembers nothing but the ledger.
LEMMA StartKeeps ==
    ASSUME BrokerInv, Start
    PROVE  BrokerInv'
  <1> USE DEF BrokerInv
  <1>1. broker' = Idle
        /\ UNCHANGED <<host, plan, ledger, backup, command, effects, inbox, call>>
    BY DEF Start, hostVars, clientVars
  <1>2. \A s \in Steps : RowSame(s)
    BY <1>1 DEF RowSame
  <1>3. TypeOK'
    BY <1>1, NotServing DEF TypeOK
  <1>4. RowsInv'
    BY <1>2, RowFrame DEF RowsInv
  <1>5. AnswerInv'
    BY <1>1, AnswerFrame
  <1> QED BY <1>1, <1>3, <1>4, <1>5, NotServing

\* A request that is known or refused is answered, and nothing else happens.
LEMMA AnswerKnownKeeps ==
    ASSUME BrokerInv, NEW k \in Calls, AnswerKnown(k)
    PROVE  BrokerInv'
  <1> USE DEF BrokerInv
  <1>1. /\ UNCHANGED <<host, plan, ledger, backup, command, broker, effects>>
        /\ inbox' = inbox \ {k}
    BY DEF AnswerKnown, brokerVars, hostVars, clientVars
  <1>2. StepOf[k] \in Steps /\ RowInv(StepOf[k])
    BY CallAssumption DEF RowsInv
  <1>3. \A s \in Steps : RowSame(s)
    BY <1>1 DEF RowSame
  <1>4. PICK out \in Outcomes :
          /\ Deliver(k, out) /\ Supported(StepOf[k], out)
          /\ out.status = "stale" => (ledger[StepOf[k]].state = "terminal"
                                      /\ ledger[StepOf[k]].receipt.status = "stale")
    <2>1. CASE Deliver(k, Denied)
      <3>1. Denied \in Outcomes /\ Denied.status # "stale" /\ Supported(StepOf[k], Denied)
        BY <1>2, OutcomeTypes, AlwaysSupported DEF Denied, Outcome
      <3> QED BY <2>1, <3>1
    <2>2. CASE Deliver(k, Uncertain)
      <3>1. Uncertain \in Outcomes /\ Uncertain.status # "stale" /\ Supported(StepOf[k], Uncertain)
        BY <1>2, OutcomeTypes, AlwaysSupported DEF Uncertain, Outcome
      <3> QED BY <2>2, <3>1
    <2>3. CASE BeginState(k) = "terminal" /\ Deliver(k, ledger[StepOf[k]].receipt)
      <3>1. ledger[StepOf[k]].state = "terminal" /\ ledger[StepOf[k]].receipt \in Outcomes
        BY <2>3, <1>2, BeginStates DEF TypeOK, RowType
      <3>2. Supported(StepOf[k], ledger[StepOf[k]].receipt)
        BY <3>1, <1>2 DEF RowInv
      <3> QED BY <2>3, <3>1, <3>2
    <2> QED BY <2>1, <2>2, <2>3 DEF AnswerKnown
  <1>5. AnswerInv' /\ call' \in [Calls -> CallStates]
    BY <1>1, <1>4, DeliverInv
  <1>6. TypeOK'
    BY <1>1, <1>5 DEF TypeOK, Serving
  <1>7. RowsInv'
    BY <1>3, RowFrame DEF RowsInv
  <1>8. ServedInv'
    BY <1>1, <1>3, ServedFrame, ServedStep
  <1> QED BY <1>5, <1>6, <1>7, <1>8

\* A new request: its row is absent, so nothing has happened for it.
LEMMA BeginKeeps ==
    ASSUME BrokerInv, NEW k \in Calls, Begin(k)
    PROVE  BrokerInv'
  <1> USE DEF BrokerInv
  <1> DEFINE s == StepOf[k]
  <1>1. /\ UNCHANGED <<host, plan, backup, command, effects, call>> /\ inbox' = inbox \ {k}
        /\ k \in inbox
        /\ ledger' = [ledger EXCEPT ![s] = RunningRow(k)]
        /\ broker' = [pc |-> "begun", call |-> k, out |-> NoOutcome]
    BY DEF Begin, hostVars, clientVars, Idle
  <1>2. s \in Steps /\ ledger[s].state = "absent"
    BY CallAssumption, BeginStates DEF Begin
  <1>3. Untouched(s) /\ plan[s] # NoState /\ command[s] # "running"
    BY <1>1, <1>2 DEF RowsInv, RowInv, AnswerInv, Untouched
  <1> HIDE DEF s
  <1>4. RunningRow(k) \in RowType
    BY OutcomeTypes DEF RunningRow, RowType, Databases
  <1>5. ledger' \in [Steps -> RowType] /\ ledger'[s] = RunningRow(k)
        /\ \A r \in Steps : r # s => ledger'[r] = ledger[r]
    BY <1>1, <1>2, <1>4 DEF TypeOK
  <1>6. broker' \in [pc : Locations, call : Calls \union {"none"}, out : Outcomes]
        /\ broker'.call = k /\ broker'.pc = "begun"
    BY <1>1, OutcomeTypes DEF Locations
  <1>7. TypeOK'
    BY <1>1, <1>5, <1>6 DEF TypeOK, Serving
  <1>8. ASSUME NEW r \in Steps PROVE RowInv(r)'
    <2>1. CASE r = s
      <3>1. ledger'[s].state = "running" /\ ledger'[s].receipt = NoOutcome
        BY <1>5 DEF RunningRow
      <3> QED BY <2>1, <3>1, <1>1, <1>3 DEF RowInv
    <2>2. CASE r # s
      <3>1. RowSame(r)
        BY <2>2, <1>1, <1>5 DEF RowSame
      <3> QED BY <3>1, RowFrame DEF RowsInv
    <2> QED BY <2>1, <2>2
  <1>9. ServedInv'
    <2>1. Step' = s
      BY <1>6 DEF Step, s
    <2>2. ledger'[s].state = "running" /\ Untouched(s)'
      BY <1>1, <1>3, <1>5 DEF RunningRow, Untouched
    <2>3. Progress(s)'
      BY <2>2, <1>6 DEF Progress
    <2> QED BY <2>1, <2>3 DEF ServedInv, s
  <1>10. AnswerInv'
    <2>1. \A r \in Steps : ledger[r].state = "terminal" => ledger'[r] = ledger[r]
      BY <1>2, <1>5
    <2> QED BY <2>1, <1>1, AnswerFrame
  <1> QED BY <1>7, <1>8, <1>9, <1>10 DEF RowsInv

\* The broker goes on with the step it serves, and nothing but the broker changes.
LEMMA MoveKeeps ==
    ASSUME BrokerInv, Serving,
           UNCHANGED <<host, plan, ledger, backup, command, effects, inbox, call>>,
           NEW pc \in Locations \ {"idle", "down"}, NEW out \in Outcomes,
           broker' = [broker EXCEPT !.pc = pc, !.out = out],
           Progress(Step)'
    PROVE  BrokerInv'
  <1> USE DEF BrokerInv
  <1>1. broker' \in [pc : Locations, call : Calls \union {"none"}, out : Outcomes]
        /\ broker'.call = broker.call /\ broker.call \in Calls
    BY DEF TypeOK
  <1>2. TypeOK'
    BY <1>1 DEF TypeOK
  <1>3. RowsInv'
    BY RowFrame DEF RowsInv, RowSame
  <1>4. AnswerInv'
    BY AnswerFrame
  <1> QED BY <1>2, <1>3, <1>4 DEF ServedInv

\* A conclusion that the history supports.
LEMMA ConcludeKeeps ==
    ASSUME BrokerInv, Serving,
           UNCHANGED <<host, plan, ledger, backup, command, effects, inbox, call>>,
           NEW out \in Outcomes, Conclude(out), Supported(Step, out)
    PROVE  BrokerInv'
  <1>1. broker \in [pc : Locations, call : Calls \union {"none"}, out : Outcomes]
        /\ broker' = [broker EXCEPT !.pc = "finish", !.out = out]
    BY DEF BrokerInv, TypeOK, Conclude
  <1>2. Step' = Step /\ broker'.pc = "finish" /\ broker'.out = out
    BY <1>1 DEF Step
  <1>3. ledger[Step].state = "running"
    BY DEF BrokerInv, ServedInv, Progress
  <1>4. Supported(Step, broker.out)'
    BY <1>2 DEF Supported
  <1>5. Progress(Step)'
    BY <1>2, <1>3, <1>4 DEF Progress
  <1> QED BY <1>1, <1>5, MoveKeeps DEF Locations

\* The next location of a step that goes on.
LEMMA GotoKeeps ==
    ASSUME BrokerInv, Serving,
           UNCHANGED <<host, plan, ledger, backup, command, effects, inbox, call>>,
           NEW pc \in Locations \ {"idle", "down", "finish"}, Goto(pc),
           pc \in {"checked", "unchanged"} => Untouched(Step),
           pc = "unchanged" => KindOf[Step] = "config",
           pc = "effected" => (effects[Step] = 1 /\ (KindOf[Step] = "config" => backup[Step] = plan[Step])),
           pc \in {"checked", "unchanged", "effected"}
    PROVE  BrokerInv'
  <1>1. broker \in [pc : Locations, call : Calls \union {"none"}, out : Outcomes]
        /\ broker' = [broker EXCEPT !.pc = pc]
    BY DEF BrokerInv, TypeOK, Goto
  <1>2. Step' = Step /\ broker'.pc = pc /\ broker.out \in Outcomes
        /\ broker' = [broker EXCEPT !.pc = pc, !.out = broker.out]
    BY <1>1 DEF Step
  <1>3. ledger[Step].state = "running"
    BY DEF BrokerInv, ServedInv, Progress
  <1>4. Progress(Step)'
    BY <1>2, <1>3 DEF Progress, Untouched
  <1> QED BY <1>2, <1>4, MoveKeeps

\* The checks before the barrier find a step for which nothing has happened.
LEMMA CheckKeeps ==
    ASSUME BrokerInv, RefuseTarget \/ CheckPrecondition \/ PatchUnchanged
    PROVE  BrokerInv'
  <1>1. broker.pc \in {"begun", "checked"}
        /\ UNCHANGED <<host, plan, ledger, backup, command, effects, inbox, call>>
    BY DEF RefuseTarget, CheckPrecondition, PatchUnchanged, hostVars, clientVars
  <1>2. Serving
    BY <1>1 DEF Serving
  <1>3. Step \in Steps /\ Untouched(Step)
    BY <1>1, <1>2, ServedStep DEF BrokerInv, ServedInv, Progress
  <1>4. CASE Conclude(Denied)
    BY <1>1, <1>2, <1>3, <1>4, ConcludeKeeps, OutcomeTypes, AlwaysSupported
  <1>5. CASE Conclude(Outcome("stale", "none"))
    <2>1. Supported(Step, Outcome("stale", "none"))
      BY <1>3 DEF Supported, Outcome, Untouched
    <2> QED BY <1>1, <1>2, <1>5, <2>1, ConcludeKeeps, OutcomeTypes
  <1>6. CASE Goto("checked")
    BY <1>1, <1>2, <1>3, <1>6, GotoKeeps DEF Locations
  <1>7. CASE Goto("unchanged") /\ KindOf[Step] = "config"
    BY <1>1, <1>2, <1>3, <1>7, GotoKeeps DEF Locations
  <1> QED BY <1>4, <1>5, <1>6, <1>7 DEF RefuseTarget, CheckPrecondition, PatchUnchanged

\* The broker returns from waiting, or reads the target after the effect.
LEMMA InspectKeeps ==
    ASSUME BrokerInv, CommandReturns \/ InspectPatch \/ InspectCommand
    PROVE  BrokerInv'
  <1>1. broker.pc \in {"waiting", "effected", "unchanged"}
        /\ UNCHANGED <<host, plan, ledger, backup, command, effects, inbox, call>>
    BY DEF CommandReturns, InspectPatch, InspectCommand, hostVars, clientVars
  <1>2. Serving
    BY <1>1 DEF Serving
  <1>3. Step \in Steps /\ Progress(Step)
    BY <1>2, ServedStep DEF BrokerInv, ServedInv
  <1>4. Fingerprint(Step) \in States
    BY <1>3, FingerprintType DEF BrokerInv
  <1>5. CASE Conclude(Uncertain) \/ Conclude(UnreadableAfter)
    BY <1>1, <1>2, <1>3, <1>5, ConcludeKeeps, OutcomeTypes, AlwaysSupported
  <1>6. CASE CommandReturns /\ command[Step] = "succeeded" /\ Goto("effected")
    BY <1>1, <1>2, <1>3, <1>6, GotoKeeps DEF CommandReturns, Progress, Locations
  <1>7. CASE Conclude(Success("none", FALSE, Fingerprint(Step)))
    <2>1. Supported(Step, Success("none", FALSE, Fingerprint(Step)))
      BY DEF Supported, Success
    <2> QED BY <1>1, <1>2, <1>4, <1>7, <2>1, ConcludeKeeps, OutcomeTypes
  <1>8. CASE broker.pc = "effected" /\ KindOf[Step] = "config"
             /\ Conclude(Success("applied", TRUE, Fingerprint(Step)))
    <2>1. effects[Step] = 1 /\ backup[Step] = plan[Step]
      BY <1>3, <1>8 DEF Progress
    <2>2. Supported(Step, Success("applied", TRUE, Fingerprint(Step)))
      BY <2>1 DEF Supported, Success
    <2> QED BY <1>1, <1>2, <1>4, <1>8, <2>2, ConcludeKeeps, OutcomeTypes
  <1>9. CASE broker.pc = "effected" /\ Conclude(Success("applied", FALSE, Fingerprint(Step)))
    <2>1. effects[Step] = 1
      BY <1>3, <1>9 DEF Progress
    <2>2. Supported(Step, Success("applied", FALSE, Fingerprint(Step)))
      BY <2>1 DEF Supported, Success
    <2> QED BY <1>1, <1>2, <1>4, <1>9, <2>2, ConcludeKeeps, OutcomeTypes
  <1>10. CASE CommandReturns
    BY <1>5, <1>6, <1>10 DEF CommandReturns
  <1>11. CASE InspectPatch
    BY <1>5, <1>7, <1>8, <1>11 DEF InspectPatch
  <1>12. CASE InspectCommand
    BY <1>5, <1>9, <1>12 DEF InspectCommand
  <1> QED BY <1>10, <1>11, <1>12

\* The broker and the one row it serves change; the calls do not.
LEMMA CrossKeeps ==
    ASSUME BrokerInv, Serving, UNCHANGED <<plan, ledger, inbox, call>>,
           \A r \in Steps : r # Step => RowSame(r),
           host' \in [Targets -> [value : Values, generation : Nat]],
           backup' \in [Steps -> States], effects' \in [Steps -> {0, 1}],
           command' \in [Steps -> {"none", "running", "succeeded", "failed"}],
           NEW pc \in Locations \ {"idle", "down"}, Goto(pc),
           RowInv(Step)', Progress(Step)'
    PROVE  BrokerInv'
  <1> USE DEF BrokerInv
  <1>1. broker' \in [pc : Locations, call : Calls \union {"none"}, out : Outcomes]
        /\ broker'.call = broker.call /\ broker.call \in Calls
    BY DEF TypeOK, Goto
  <1>2. TypeOK'
    BY <1>1 DEF TypeOK
  <1>3. Step' = Step
    BY <1>1 DEF Step
  <1>4. ASSUME NEW r \in Steps PROVE RowInv(r)'
    <2>1. CASE r = Step
      BY <2>1, <1>3
    <2>2. CASE r # Step
      BY <2>2, RowFrame DEF RowsInv
    <2> QED BY <2>1, <2>2
  <1>5. AnswerInv'
    BY AnswerFrame
  <1> QED BY <1>2, <1>4, <1>5 DEF ServedInv, RowsInv

\* The backup is written before the barrier, of the state the plan was previewed on.
LEMMA WriteBackupKeeps ==
    ASSUME BrokerInv, WriteBackup
    PROVE  BrokerInv'
  <1>1. broker.pc = "checked" /\ KindOf[Step] = "config"
        /\ UNCHANGED <<host, plan, ledger, command, effects, inbox, call>>
    BY DEF WriteBackup, hostVars, clientVars
  <1>2. Serving
    BY <1>1 DEF Serving
  <1>3. Step \in Steps /\ Untouched(Step) /\ ledger[Step].state = "running" /\ RowInv(Step)
    BY <1>1, <1>2, ServedStep DEF BrokerInv, ServedInv, Progress, RowsInv
  <1>4. CASE Conclude(Uncertain) /\ UNCHANGED backup
    BY <1>1, <1>2, <1>3, <1>4, ConcludeKeeps, OutcomeTypes, AlwaysSupported
  <1>5. CASE backup' = [backup EXCEPT ![Step] = plan[Step]] /\ Goto("backed")
    <2>0. PICK s \in Steps : s = Step
      BY <1>3
    <2>1. backup' \in [Steps -> States] /\ backup'[s] = plan[s]
          /\ \A r \in Steps : r # s => backup'[r] = backup[r]
      BY <2>0, <1>3, <1>5 DEF BrokerInv, TypeOK
    <2>2. Step' = s /\ broker'.pc = "backed"
      BY <2>0, <1>5 DEF Step, Goto, BrokerInv, TypeOK
    <2>3. \A r \in Steps : r # s => RowSame(r)
      BY <2>1, <1>1 DEF RowSame
    <2>4. ledger[s].state = "running" /\ RowInv(s) /\ effects[s] = 0 /\ command[s] = "none"
          /\ KindOf[s] = "config"
      BY <2>0, <1>1, <1>3 DEF Untouched
    <2>5. RowInv(s)'
      BY <2>4, <1>1 DEF RowInv
    <2>6. Progress(s)'
      BY <2>1, <2>2, <2>4, <1>1 DEF Progress
    <2>7. RowInv(Step)' /\ Progress(Step)'
      BY <2>2, <2>5, <2>6
    <2> QED BY <1>1, <1>2, <1>5, <2>1, <2>3, <2>7, <2>0, CrossKeeps DEF BrokerInv, TypeOK, Locations
  <1> QED BY <1>4, <1>5 DEF WriteBackup

\* The barrier of a config patch is crossed by the one request that took the row.
LEMMA ReplaceFileKeeps ==
    ASSUME BrokerInv, ReplaceFile
    PROVE  BrokerInv'
  <1>1. broker.pc = "backed" /\ UNCHANGED <<plan, ledger, backup, command, inbox, call>>
    BY DEF ReplaceFile, clientVars
  <1>2. Serving
    BY <1>1 DEF Serving
  <1>3. /\ Step \in Steps /\ ledger[Step].state = "running" /\ RowInv(Step)
        /\ effects[Step] = 0 /\ command[Step] = "none" /\ backup[Step] = plan[Step]
    BY <1>1, <1>2, ServedStep DEF BrokerInv, ServedInv, Progress, RowsInv
  <1>4. CASE Conclude(Uncertain) /\ UNCHANGED hostVars
    BY <1>1, <1>2, <1>3, <1>4, ConcludeKeeps, OutcomeTypes, AlwaysSupported DEF hostVars
  <1>5. CASE Happen(Step) /\ Goto("effected")
    <2>0. PICK s \in Steps : s = Step
      BY <1>3
    <2>1. effects' \in [Steps -> {0, 1}] /\ effects'[s] = 1
          /\ \A r \in Steps : r # s => effects'[r] = effects[r]
      BY <2>0, <1>3, <1>5 DEF BrokerInv, TypeOK, Happen
    <2>2. Step' = s /\ broker'.pc = "effected"
      BY <2>0, <1>5 DEF Step, Goto, BrokerInv, TypeOK
    <2>3. host' \in [Targets -> [value : Values, generation : Nat]]
      BY <1>3, <1>5, HappenType DEF BrokerInv
    <2>4. \A r \in Steps : r # s => RowSame(r)
      BY <2>1, <1>1 DEF RowSame
    <2>5. ledger[s].state = "running" /\ RowInv(s) /\ command[s] = "none" /\ backup[s] = plan[s]
      BY <2>0, <1>3
    <2>6. RowInv(s)'
      BY <2>5, <1>1 DEF RowInv
    <2>7. Progress(s)'
      BY <2>1, <2>2, <2>5, <1>1 DEF Progress
    <2>8. RowInv(Step)' /\ Progress(Step)'
      BY <2>2, <2>6, <2>7
    <2> QED BY <1>1, <1>2, <1>5, <2>1, <2>3, <2>4, <2>8, <2>0, CrossKeeps DEF BrokerInv, TypeOK, Locations
  <1> QED BY <1>4, <1>5 DEF ReplaceFile

\* The external command of a restart or an update is started once.
LEMMA LaunchKeeps ==
    ASSUME BrokerInv, LaunchRestart \/ LaunchUpdate
    PROVE  BrokerInv'
  <1>1. broker.pc = "checked" /\ KindOf[Step] # "config"
        /\ UNCHANGED <<host, plan, ledger, backup, effects, inbox, call>>
    BY DEF LaunchRestart, LaunchUpdate, hostVars, clientVars
  <1>2. Serving
    BY <1>1 DEF Serving
  <1>3. Step \in Steps /\ Untouched(Step) /\ ledger[Step].state = "running" /\ RowInv(Step)
    BY <1>1, <1>2, ServedStep DEF BrokerInv, ServedInv, Progress, RowsInv
  <1>4. CASE (Conclude(Uncertain) \/ Conclude(Denied)) /\ UNCHANGED command
    BY <1>1, <1>2, <1>3, <1>4, ConcludeKeeps, OutcomeTypes, AlwaysSupported
  <1>5. CASE Launch
    <2>0. PICK s \in Steps : s = Step
      BY <1>3
    <2>1. command' \in [Steps -> {"none", "running", "succeeded", "failed"}] /\ command'[s] = "running"
          /\ \A r \in Steps : r # s => command'[r] = command[r]
      BY <2>0, <1>3, <1>5 DEF BrokerInv, TypeOK, Launch
    <2>2. Step' = s /\ broker'.pc = "waiting" /\ Goto("waiting")
      BY <2>0, <1>5 DEF Step, Goto, Launch, BrokerInv, TypeOK
    <2>3. \A r \in Steps : r # s => RowSame(r)
      BY <2>1, <1>1 DEF RowSame
    <2>4. ledger[s].state = "running" /\ RowInv(s) /\ effects[s] = 0 /\ KindOf[s] # "config"
      BY <2>0, <1>1, <1>3 DEF Untouched
    <2>5. RowInv(s)'
      BY <2>4, <1>1 DEF RowInv
    <2>6. Progress(s)'
      BY <2>1, <2>2, <2>4, <1>1 DEF Progress
    <2>7. RowInv(Step)' /\ Progress(Step)'
      BY <2>2, <2>5, <2>6
    <2> QED BY <1>1, <1>2, <2>1, <2>2, <2>3, <2>7, <2>0, CrossKeeps DEF BrokerInv, TypeOK, Locations
  <1> QED BY <1>4, <1>5 DEF LaunchRestart, LaunchUpdate

\* The receipt is what the broker concluded, and the client hears no more than it says.
LEMMA FinishKeeps ==
    ASSUME BrokerInv, Finish
    PROVE  BrokerInv'
  <1> USE DEF BrokerInv
  <1>1. broker.pc = "finish" /\ broker' = Idle
        /\ UNCHANGED <<host, plan, backup, command, effects, inbox>>
    BY DEF Finish, hostVars, clientVars
  <1>2. Serving
    BY <1>1 DEF Serving
  <1>0. PICK s \in Steps, k \in Calls, out \in Outcomes : s = Step /\ k = broker.call /\ out = broker.out
    BY <1>2, ServedStep DEF TypeOK
  <1>3. Progress(s) /\ RowInv(s) /\ s = StepOf[k]
    BY <1>0, <1>2 DEF ServedInv, RowsInv, Step
  <1>4. ledger[s].state = "running" /\ Supported(s, out) /\ out \in Outcomes /\ plan[s] # NoState
        /\ (command[s] = "running" => effects[s] = 0)
    BY <1>0, <1>1, <1>3 DEF Progress, RowInv, TypeOK
  <1>5. CASE ledger' = [ledger EXCEPT ![s].state = "terminal", ![s].receipt = out] /\ Deliver(k, out)
    <2>1. ledger[s] \in RowType
      BY <1>3 DEF TypeOK
    <2>2. /\ ledger' \in [Steps -> RowType]
          /\ ledger'[s].state = "terminal" /\ ledger'[s].receipt = out
          /\ \A r \in Steps : r # s => ledger'[r] = ledger[r]
      BY <1>3, <1>4, <1>5, <2>1 DEF TypeOK, RowType
    <2>3. AnswerInv' /\ call' \in [Calls -> CallStates]
      <3>1. \A r \in Steps : ledger[r].state = "terminal" => ledger'[r] = ledger[r]
        BY <1>4, <2>2
      <3>2. Supported(StepOf[k], out) /\ ledger'[StepOf[k]].state = "terminal"
            /\ ledger'[StepOf[k]].receipt = out
        BY <1>3, <1>4, <2>2
      <3> QED BY <1>1, <1>3, <1>4, <1>5, <3>1, <3>2, DeliverInv
    <2>4. TypeOK'
      BY <1>1, <2>2, <2>3, NotServing DEF TypeOK
    <2>5. ASSUME NEW r \in Steps PROVE RowInv(r)'
      <3>1. CASE r = s
        <4>1. Supported(s, ledger[s].receipt)'
          BY <1>1, <1>4, <2>2 DEF Supported
        <4> QED BY <3>1, <4>1, <1>1, <1>4, <2>2 DEF RowInv
      <3>2. CASE r # s
        <4>1. RowSame(r)
          BY <3>2, <1>1, <2>2 DEF RowSame
        <4> QED BY <4>1, RowFrame DEF RowsInv
      <3> QED BY <3>1, <3>2
    <2> QED BY <1>1, <2>3, <2>4, <2>5, NotServing DEF RowsInv
  <1>6. CASE Deliver(k, Uncertain) /\ UNCHANGED ledger
    <2>1. Supported(StepOf[k], Uncertain) /\ Uncertain \in Outcomes /\ Uncertain.status # "stale"
      BY <1>3, AlwaysSupported, OutcomeTypes DEF Uncertain, Outcome
    <2>2. AnswerInv' /\ call' \in [Calls -> CallStates]
      BY <1>1, <1>3, <1>6, <2>1, DeliverInv
    <2>3. TypeOK'
      BY <1>1, <1>6, <2>2, NotServing DEF TypeOK
    <2>4. \A r \in Steps : RowSame(r)
      BY <1>1, <1>6 DEF RowSame
    <2>5. RowsInv'
      BY <2>4, RowFrame DEF RowsInv
    <2> QED BY <1>1, <2>2, <2>3, <2>5, NotServing
  <1> QED BY <1>0, <1>5, <1>6 DEF Finish

\* Every step of the broker, its clients and the outside keeps the invariant.
LEMMA StepBroker ==
    ASSUME BrokerInv, [Next]_vars
    PROVE  BrokerInv'
  <1>1. CASE UNCHANGED vars
    BY <1>1 DEF vars, BrokerInv, TypeOK, RowsInv, RowInv, ServedInv, Progress, AnswerInv, Supported,
                Untouched, Serving, Step
  <1>2. CASE BrokerStep
    BY <1>2, StartKeeps, AnswerKnownKeeps, BeginKeeps, CheckKeeps, InspectKeeps, WriteBackupKeeps,
       ReplaceFileKeeps, LaunchKeeps, FinishKeeps DEF BrokerStep
  <1>3. CASE \E s \in Steps : PreviewPatch(s) \/ PreviewRestart(s) \/ PreviewUpdate(s) \/ CommandEnds(s)
    BY <1>3, PreviewKeeps, CommandKeeps DEF PreviewPatch, PreviewRestart, PreviewUpdate
  <1> QED BY <1>1, <1>2, <1>3, ClientKeeps, CrashKeeps, OutsideKeeps DEF Next

\* The ledger tells the truth about every step in every reachable state.
LEMMA BrokerInvariant == Spec => []BrokerInv
  <1>1. BrokerInv /\ [Next]_vars => BrokerInv'
    BY StepBroker
  <1> QED BY InitBroker, <1>1, PTL DEF Spec

-----------------------------------------------------------------------------
(* Theorems *)

\* A receipt that promises a backup has one, of the very state the plan was previewed on
\* (execute_patch, _backup and ledger.finish), whatever crashed in between.
THEOREM BackupsArePreviewed == Spec => []BackupIsPreviewed
  <1>1. BrokerInv => BackupIsPreviewed
    <2> SUFFICES ASSUME BrokerInv, NEW s \in Steps, ledger[s].receipt.token
                 PROVE  backup[s] = plan[s] /\ backup[s] # NoState
      BY DEF BackupIsPreviewed
    <2>1. RowInv(s) /\ ledger[s].state \in {"absent", "running", "terminal"}
      BY DEF BrokerInv, RowsInv, TypeOK, RowType
    <2>2. ledger[s].state = "terminal"
      BY <2>1 DEF RowInv, NoOutcome, Outcome
    <2> QED BY <2>1, <2>2 DEF RowInv, Supported
  <1> QED BY <1>1, BrokerInvariant, PTL

\* Nobody works on an abandoned row.
LEMMA AbandonedMeans ==
    ASSUME TypeOK, NEW s \in Steps
    PROVE  Abandoned(s) <=> (ledger[s].state = "running" /\ (Serving => s # Step))
  BY DEF Abandoned, TypeOK, Step

\* What may change the effect of a step, its row, and the step that is served.
LEMMA Writers ==
    ASSUME BrokerInv, [Next]_vars, NEW s \in Steps
    PROVE  /\ effects'[s] # effects[s] => (command[s] = "running" \/ (Serving /\ s = Step))
           /\ ledger'[s] # ledger[s] => (ledger[s].state = "absent" \/ (Serving /\ s = Step))
           /\ (Serving' /\ s = Step') => (ledger[s].state = "absent" \/ (Serving /\ s = Step))
  <1> DEFINE Same == /\ effects'[s] = effects[s] /\ ledger'[s] = ledger[s]
                     /\ ((Serving' /\ s = Step') => (Serving /\ s = Step))
  <1>1. CASE UNCHANGED vars
    <2>1. Same
      BY <1>1 DEF vars, Serving, Step
    <2> QED BY <2>1
  <1>2. CASE BrokerStep
    <2>1. CASE Start \/ \E k \in Calls : AnswerKnown(k)
      <3>1. effects' = effects /\ ledger' = ledger /\ (broker' = broker \/ broker' = Idle)
        BY <2>1 DEF Start, AnswerKnown, hostVars, brokerVars
      <3>2. Same
        BY <3>1 DEF Serving, Step, Idle
      <3> QED BY <3>2
    <2>2. ASSUME NEW k \in Calls, Begin(k) PROVE Same \/ (ledger[s].state = "absent" /\ effects' = effects)
      <3>1. effects' = effects /\ ledger' = [ledger EXCEPT ![StepOf[k]] = RunningRow(k)]
            /\ broker'.call = k /\ ledger[StepOf[k]].state = "absent"
        BY <2>2, BeginStates DEF Begin, hostVars, Idle, BrokerInv
      <3>2. CASE s = StepOf[k]
        BY <3>1, <3>2
      <3>3. CASE s # StepOf[k]
        <4>1. ledger'[s] = ledger[s]
          BY <3>1, <3>3 DEF BrokerInv, TypeOK
        <4> QED BY <2>2, <3>1, <3>3, <4>1 DEF Step
      <3> QED BY <3>2, <3>3
    <2>3. CASE RefuseTarget \/ CheckPrecondition \/ PatchUnchanged \/ WriteBackup \/ LaunchRestart
               \/ LaunchUpdate \/ CommandReturns \/ InspectPatch \/ InspectCommand
      <3>1. effects' = effects /\ ledger' = ledger /\ Serving
        BY <2>3 DEF RefuseTarget, CheckPrecondition, PatchUnchanged, WriteBackup, LaunchRestart,
                    LaunchUpdate, CommandReturns, InspectPatch, InspectCommand, hostVars, Serving
      <3>2. \/ \E pc \in Locations : Goto(pc)
            \/ \E out \in {Uncertain, Denied, UnreadableAfter, Outcome("stale", "none"),
                           Success("none", FALSE, Fingerprint(Step)),
                           Success("applied", TRUE, Fingerprint(Step)),
                           Success("applied", FALSE, Fingerprint(Step))} : Conclude(out)
        BY <2>3 DEF RefuseTarget, CheckPrecondition, PatchUnchanged, WriteBackup, LaunchRestart, Launch,
                    LaunchUpdate, CommandReturns, InspectPatch, InspectCommand, Locations
      <3>3. broker'.call = broker.call
        BY <3>2 DEF Goto, Conclude, BrokerInv, TypeOK
      <3>4. Same
        BY <3>1, <3>3 DEF Step
      <3> QED BY <3>4
    <2>4. CASE ReplaceFile
      <3>1. ledger' = ledger /\ Serving /\ broker'.call = broker.call
        BY <2>4 DEF ReplaceFile, Serving, Goto, Conclude, BrokerInv, TypeOK
      <3>2. s # Step => effects'[s] = effects[s]
        BY <2>4 DEF ReplaceFile, Happen, hostVars, BrokerInv, TypeOK
      <3> QED BY <3>1, <3>2 DEF Step
    <2>5. CASE Finish
      <3>1. effects' = effects /\ ~Serving' /\ Serving
        BY <2>5 DEF Finish, hostVars, Serving, Idle
      <3>2. s # Step => ledger'[s] = ledger[s]
        BY <2>5 DEF Finish, BrokerInv, TypeOK
      <3> QED BY <3>1, <3>2
    <2> QED BY <1>2, <2>1, <2>2, <2>3, <2>4, <2>5 DEF BrokerStep
  <1>3. CASE \E r \in Steps : CommandEnds(r)
    <2>1. PICK r \in Steps : CommandEnds(r)
      BY <1>3
    <2>2. ledger' = ledger /\ broker' = broker /\ command[r] = "running"
      BY <2>1 DEF CommandEnds
    <2>3. s # r => effects'[s] = effects[s]
      BY <2>1 DEF CommandEnds, Happen, hostVars, BrokerInv, TypeOK
    <2> QED BY <2>2, <2>3 DEF Serving, Step
  <1>4. CASE \/ \E r \in Steps : PreviewPatch(r) \/ PreviewRestart(r) \/ PreviewUpdate(r)
             \/ \E k \in Calls : ClientStep(k)
             \/ \E t \in Targets : OutsideChange(t)
    <2>1. ledger' = ledger /\ broker' = broker /\ effects' = effects
      BY <1>4 DEF PreviewPatch, PreviewRestart, PreviewUpdate, Preview, ClientStep, ConnectFails, Send,
                  ClientTimeout, Expire, VerifyCall, OutsideChange, brokerVars, hostVars
    <2>2. Same
      BY <2>1 DEF Serving, Step
    <2> QED BY <2>2
  <1>5. CASE Crash
    <2>1. ledger' = ledger /\ effects' = effects /\ ~Serving'
      BY <1>5 DEF Crash, hostVars, Serving, Down, Idle
    <2> QED BY <2>1
  <1> QED BY <1>1, <1>2, <1>3, <1>4, <1>5 DEF Next

\* An abandoned request is never resumed (ledger.begin answers it "running"): its row stays
\* abandoned for good, and only a command that still runs may change anything.
THEOREM AbandonedForGood == Spec => AbandonedIsNeverResumed
  <1> DEFINE Stays == \A s \in Steps : Abandoned(s) =>
                          /\ Abandoned(s)'
                          /\ effects'[s] # effects[s] => command[s] = "running"
  <1>1. BrokerInv /\ BrokerInv' /\ [Next]_vars => [Stays]_vars
    <2> SUFFICES ASSUME BrokerInv, BrokerInv', [Next]_vars, NEW s \in Steps, Abandoned(s)
                 PROVE  /\ Abandoned(s)'
                        /\ effects'[s] # effects[s] => command[s] = "running"
      OBVIOUS
    <2>1. ledger[s].state = "running" /\ ~(Serving /\ s = Step)
      BY AbandonedMeans DEF BrokerInv
    <2>2. ledger'[s].state = "running" /\ ~(Serving' /\ s = Step')
          /\ (effects'[s] # effects[s] => command[s] = "running")
      BY <2>1, Writers
    <2>3. Abandoned(s)'
      BY <2>2 DEF Abandoned, BrokerInv, TypeOK, Step
    <2> QED BY <2>2, <2>3
  <1>2. Spec => [][Stays]_vars
    BY <1>1, BrokerInvariant, PTL DEF Spec
  <1> QED BY <1>2 DEF AbandonedIsNeverResumed

-----------------------------------------------------------------------------
(* The broker implements the contract of privileged effects *)

\* A reply is an answer of the contract, or goes to a client that no longer waits.
LEMMA DeliverAnswers ==
    ASSUME TypeOK, NEW k \in Calls, NEW out \in Outcomes, Supported(StepOf[k], out),
           Deliver(k, out), effects' = effects
    PROVE  [Contract!Next]_<<effects, ContractAnswer>>
  <1>0. StepOf[k] \in Steps
    BY CallAssumption
  <1> DEFINE a == AnswerOf(out)
  <1>1. /\ a \in Contract!Answers \ {"none"} /\ a # "sent"
        /\ a = "ok" => effects[StepOf[k]] = 1
        /\ a = "stale" => effects[StepOf[k]] = 0
    BY <1>0, AnswerFacts DEF CallStates, Contract!Answers
  <1>2. CASE call[k] = "sent"
    <2>1. call' = [call EXCEPT ![k] = a] /\ call \in [Calls -> CallStates]
      BY <1>2 DEF Deliver, TypeOK
    <2> HIDE DEF a
    <2>2. ContractAnswer[k] = "none"
      BY <1>2 DEF ContractAnswer
    <2>3. ContractAnswer' = [ContractAnswer EXCEPT ![k] = a]
      BY <2>1, <1>1 DEF ContractAnswer
    <2>4. Contract!Answer(k, a)
      BY <1>1, <2>2, <2>3 DEF Contract!Answer
    <2> QED BY <1>1, <2>4 DEF Contract!Next
  <1>3. CASE call[k] # "sent"
    <2>1. call' = call
      BY <1>3 DEF Deliver
    <2> QED BY <2>1 DEF ContractAnswer
  <1> QED BY <1>2, <1>3

\* A client that gives up gets an answer that commits the broker to nothing.
LEMMA ClientAnswers ==
    ASSUME TypeOK, NEW k \in Calls, NEW a \in {"uncertain", "unavailable"},
           call[k] \in {"none", "sent"}, call' = [call EXCEPT ![k] = a], effects' = effects
    PROVE  [Contract!Next]_<<effects, ContractAnswer>>
  <1>1. call \in [Calls -> CallStates] /\ ContractAnswer[k] = "none"
    BY DEF TypeOK, ContractAnswer
  <1>2. ContractAnswer' = [ContractAnswer EXCEPT ![k] = a]
    BY <1>1 DEF ContractAnswer
  <1>3. Contract!Answer(k, a) /\ a \in Contract!Answers \ {"none"}
    BY <1>1, <1>2 DEF Contract!Answer, Contract!Answers
  <1> QED BY <1>3 DEF Contract!Next

\* An effect that happens is the first one of its step, and nobody was told that it is stale.
LEMMA HappenApplies ==
    ASSUME BrokerInv, NEW s \in Steps, Happen(s), effects[s] = 0, call' = call,
           ledger[s].state = "terminal" => ledger[s].receipt.status # "stale"
    PROVE  [Contract!Next]_<<effects, ContractAnswer>>
  <1>1. effects' = [effects EXCEPT ![s] = 1]
    BY DEF Happen, BrokerInv, TypeOK
  <1>2. ~Contract!Told(s, "stale")
    <2> SUFFICES ASSUME NEW k \in Calls, StepOf[k] = s, ContractAnswer[k] = "stale" PROVE FALSE
      BY DEF Contract!Told
    <2>1. call[k] = "stale"
      BY DEF ContractAnswer
    <2> QED BY <2>1 DEF BrokerInv, AnswerInv
  <1>3. Contract!Apply(s)
    BY <1>1, <1>2 DEF Contract!Apply, ContractAnswer
  <1> QED BY <1>3 DEF Contract!Next

\* Neither effect nor answer.
LEMMA SilentStutters ==
    ASSUME effects' = effects, call' = call
    PROVE  [Contract!Next]_<<effects, ContractAnswer>>
  BY DEF ContractAnswer

\* Every step of the broker, its clients and its faults is a step of the contract.
LEMMA StepContract ==
    ASSUME BrokerInv, [Next]_vars
    PROVE  [Contract!Next]_<<effects, ContractAnswer>>
  <1> USE DEF BrokerInv
  <1>1. CASE UNCHANGED vars
    BY <1>1, SilentStutters DEF vars
  <1>2. CASE BrokerStep
    <2>1. ASSUME NEW k \in Calls, AnswerKnown(k) PROVE [Contract!Next]_<<effects, ContractAnswer>>
      <3>1. effects' = effects /\ StepOf[k] \in Steps /\ RowInv(StepOf[k])
        BY <2>1, CallAssumption DEF AnswerKnown, hostVars, RowsInv
      <3>2. CASE Deliver(k, Denied) \/ Deliver(k, Uncertain)
        BY <3>1, <3>2, DeliverAnswers, AlwaysSupported, OutcomeTypes
      <3>3. CASE BeginState(k) = "terminal" /\ Deliver(k, ledger[StepOf[k]].receipt)
        <4>1. ledger[StepOf[k]].state = "terminal" /\ ledger[StepOf[k]].receipt \in Outcomes
          BY <3>1, <3>3, BeginStates DEF TypeOK, RowType
        <4>2. Supported(StepOf[k], ledger[StepOf[k]].receipt)
          BY <3>1, <4>1 DEF RowInv
        <4> QED BY <3>1, <3>3, <4>1, <4>2, DeliverAnswers
      <3> QED BY <2>1, <3>2, <3>3 DEF AnswerKnown
    <2>2. CASE Start \/ (\E k \in Calls : Begin(k)) \/ RefuseTarget \/ CheckPrecondition \/ PatchUnchanged
               \/ WriteBackup \/ LaunchRestart \/ LaunchUpdate \/ CommandReturns \/ InspectPatch
               \/ InspectCommand
      <3>1. effects' = effects /\ call' = call
        BY <2>2 DEF Start, Begin, RefuseTarget, CheckPrecondition, PatchUnchanged, WriteBackup,
                    LaunchRestart, LaunchUpdate, CommandReturns, InspectPatch, InspectCommand, hostVars
      <3> QED BY <3>1, SilentStutters
    <2>3. CASE ReplaceFile
      <3>1. Serving /\ call' = call /\ broker.pc = "backed"
        BY <2>3 DEF ReplaceFile, Serving
      <3>2. Step \in Steps /\ effects[Step] = 0 /\ ledger[Step].state = "running"
        BY <3>1, ServedStep DEF ServedInv, Progress
      <3>3. CASE Happen(Step)
        BY <3>1, <3>2, <3>3, HappenApplies
      <3>4. CASE UNCHANGED hostVars
        BY <3>1, <3>4, SilentStutters DEF hostVars
      <3> QED BY <2>3, <3>3, <3>4 DEF ReplaceFile
    <2>4. CASE Finish
      <3>1. Serving /\ effects' = effects /\ broker.pc = "finish"
        BY <2>4 DEF Finish, Serving, hostVars
      <3>2. /\ broker.call \in Calls /\ broker.out \in Outcomes /\ Step \in Steps
            /\ Supported(StepOf[broker.call], broker.out)
            /\ Supported(StepOf[broker.call], Uncertain)
        BY <3>1, ServedStep, AlwaysSupported DEF ServedInv, Progress, TypeOK, Step
      <3>3. CASE Deliver(broker.call, broker.out)
        BY <3>1, <3>2, <3>3, DeliverAnswers
      <3>4. CASE Deliver(broker.call, Uncertain)
        BY <3>1, <3>2, <3>4, DeliverAnswers, OutcomeTypes
      <3> QED BY <2>4, <3>3, <3>4 DEF Finish
    <2> QED BY <1>2, <2>1, <2>2, <2>3, <2>4 DEF BrokerStep
  <1>3. ASSUME NEW s \in Steps, CommandEnds(s) PROVE [Contract!Next]_<<effects, ContractAnswer>>
    <2>1. command[s] = "running" /\ effects[s] = 0 /\ RowInv(s) /\ call' = call
      BY <1>3 DEF CommandEnds, RowsInv, RowInv
    <2>2. ledger[s].state = "terminal" => ledger[s].receipt.status # "stale"
      BY <2>1 DEF RowInv, Supported
    <2>3. CASE Happen(s)
      BY <2>1, <2>2, <2>3, HappenApplies
    <2>4. CASE UNCHANGED hostVars
      BY <2>1, <2>4, SilentStutters DEF hostVars
    <2> QED BY <1>3, <2>3, <2>4 DEF CommandEnds
  <1>4. ASSUME NEW k \in Calls, ClientStep(k) PROVE [Contract!Next]_<<effects, ContractAnswer>>
    <2>1. effects' = effects
      BY <1>4 DEF ClientStep, ConnectFails, Send, ClientTimeout, Expire, VerifyCall, hostVars
    <2>2. CASE ConnectFails(k)
      <3>1. call[k] = "none" /\ call' = [call EXCEPT ![k] = "unavailable"]
        BY <2>2 DEF ConnectFails, Asked, TransportCode
      <3> QED BY <2>1, <3>1, ClientAnswers
    <2>3. CASE ClientTimeout(k)
      <3>1. call[k] = "sent" /\ call' = [call EXCEPT ![k] = "uncertain"]
        BY <2>3 DEF ClientTimeout, TransportCode
      <3> QED BY <2>1, <3>1, ClientAnswers
    <2>4. CASE Send(k)
      <3>1. call[k] = "none" /\ call' = [call EXCEPT ![k] = "sent"] /\ call \in [Calls -> CallStates]
        BY <2>4 DEF Send, Asked, TypeOK
      <3>2. ContractAnswer' = ContractAnswer
        BY <3>1 DEF ContractAnswer
      <3> QED BY <2>1, <3>2
    <2>5. CASE Expire(k) \/ VerifyCall(k)
      BY <2>1, <2>5, SilentStutters DEF Expire, VerifyCall
    <2> QED BY <1>4, <2>2, <2>3, <2>4, <2>5 DEF ClientStep
  <1>5. CASE Crash
    <2> DEFINE K == {k \in Calls : call[k] = "sent"}
    <2>1. effects' = effects
          /\ call' = [k \in Calls |-> IF call[k] = "sent" THEN "uncertain" ELSE call[k]]
      BY <1>5 DEF Crash, hostVars, TransportCode
    <2>2. ContractAnswer' = [k \in Calls |-> IF k \in K THEN "uncertain" ELSE ContractAnswer[k]]
      BY <2>1 DEF ContractAnswer
    <2>3. Contract!Lose(K)
      BY <2>1, <2>2 DEF Contract!Lose, ContractAnswer
    <2> QED BY <2>3 DEF Contract!Next
  <1>6. CASE \/ \E s \in Steps : PreviewPatch(s) \/ PreviewRestart(s) \/ PreviewUpdate(s)
             \/ \E t \in Targets : OutsideChange(t)
    <2>1. effects' = effects /\ call' = call
      BY <1>6 DEF PreviewPatch, PreviewRestart, PreviewUpdate, Preview, OutsideChange, hostVars
    <2> QED BY <2>1, SilentStutters
  <1> QED BY <1>1, <1>2, <1>3, <1>4, <1>5, <1>6 DEF Next

\* The broker with all its faults implements the contract of privileged effects (engine.py,
\* ledger.py, host_broker.py): each effect at most once, "ok" only of a step that was applied,
\* and no effect after "stale".
THEOREM ContractKept == Spec => KeepsContract
  <1>1. Init => Contract!Init
    BY DEF Init, Contract!Init, ContractAnswer
  <1>2. BrokerInv /\ [Next]_vars => [Contract!Next]_<<effects, ContractAnswer>>
    BY StepContract
  <1> QED BY <1>1, <1>2, BrokerInvariant, PTL DEF Spec, KeepsContract, Contract!Spec

=============================================================================
