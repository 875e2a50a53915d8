-------------------------- MODULE EffectPlanProofs --------------------------
(***************************************************************************)
(* Proofs about EffectPlan, for any call ids, records, capabilities and    *)
(* bounds.  Four invariants, each relative to the ones before:             *)
(*                                                                         *)
(*   ShapeInv    the type of the variables, and the worker at a step of a  *)
(*               unit of a well-formed plan;                               *)
(*   ScopeInv    what runs, now or after a repair, was approved;           *)
(*   JournalInv  at every place of the worker, what the committed plan,    *)
(*               the plan in its memory, the journal and the durable       *)
(*               effects have to do with each other;                       *)
(*   EditInv     the unit's preflight saw what its preview showed, and     *)
(*               only steps of a checked unit wrote anything.              *)
(*                                                                         *)
(* UnitOf and Compensated are recursive functions: that they are functions *)
(* at all, and what they compute, is shown by taking the least number for  *)
(* which it fails (LeastNat).                                              *)
(***************************************************************************)
EXTENDS EffectPlan, FiniteSetTheorems, SequenceTheorems, WellFoundedInduction, TLAPS

Values == {"initial", "edited", "deleted"} \union CallIds

Befores == UNION {[R -> Values] : R \in SUBSET Records}

Modes == {"odoo_atomic", "external", "segmented"}

Outcomes == {"none", "complete", "partial", "blocked", "skipped"}

StepRow == [id : CallIds, cap : Capabilities, recs : SUBSET Records, before : Befores,
            state : {"previewed", "completed", "skipped"},
            outcome : Outcomes]

UnitRow == [mode : Modes, state : {"prepared", "executing", "completed"}]

PlanStates == {"none", "awaiting_confirmation", "authorized", "rejected", "executing", "completed"}

PlanRow == [state : PlanStates, steps : Seq(StepRow), unitOf : Seq(Nat), units : Seq(UnitRow)]

TurnRow == [state : {"running", "awaiting", "queued"} \union Terminal, barrier : BOOLEAN,
            plan : PlanRow, human : BOOLEAN, reversion : {"none", "available", "unavailable", "completed"}]

JournalRow == [state : {"none", "prepared", "executing", "verified", "skipped", "rolled_back",
                        "uncertain", "reverted"},
               unit : Nat, cap : Capabilities \union {"none"}, before : Befores \union {<< >>}]

Copies == [Records -> Values] \union {<< >>}

JobRow == [pc : {"idle", "reasoning", "preflight", "before_unit", "running", "unit_done",
                 "integrity_error"},
           plan : PlanRow, source : PlanRow, human : BOOLEAN, unit : Nat, step : Nat,
           snap : Copies, copy : Copies, calls : [Capabilities -> Nat], seen : Copies]

RanRow == [id : CallIds, cap : Capabilities, recs : SUBSET Records, human : BOOLEAN, fresh : Copies,
           before : Befores, dep : Outcomes]

TypeOK ==
    /\ turn \in TurnRow
    /\ used \subseteq CallIds
    /\ rows \in [CallIds -> JournalRow]
    /\ data \in [Records -> Values]
    /\ durable \subseteq CallIds
    /\ job \in JobRow
    /\ stop \in BOOLEAN
    /\ ran \in Seq(RanRow)

\* What never changes of a plan: its steps and how they are grouped into units.
Grouped(s, u, units) ==
    /\ Len(s) > 0 /\ Len(u) = Len(s)
    /\ \A i \in 1..Len(s) : /\ u[i] \in 1..Len(units)
                            /\ units[u[i]].mode = Mode(s[i].cap)
                            /\ RecordSubset(s[i].cap) => s[i].recs # {}
                            /\ s[i].before \in [s[i].recs -> Values]
    /\ \A i, j \in 1..Len(s) : s[i].id = s[j].id => i = j
    /\ \A i, j \in 1..Len(s) : i <= j => u[i] <= u[j]
    /\ \A i, j \in 1..Len(s) : (u[i] = u[j] /\ Mode(s[i].cap) # "odoo_atomic") => i = j
    /\ \A i \in 1..Len(s) :
        (i + 1 \in 1..Len(s) /\ Mode(s[i].cap) = "odoo_atomic" /\ Mode(s[i + 1].cap) = "odoo_atomic")
            => u[i] = u[i + 1]
    /\ \A k \in 1..Len(units) : \E i \in 1..Len(s) : u[i] = k

Wellformed(plan) == Grouped(plan.steps, plan.unitOf, plan.units)

\* The units before k are done, those after it are not begun.
Phase(plan, k, state) ==
    \A m \in 1..Len(plan.units) :
        plan.units[m].state = IF m < k THEN "completed" ELSE IF m = k THEN state ELSE "prepared"

Resolved == {"completed", "skipped"}

StepsAt(plan, k) ==
    \A i \in 1..Len(plan.steps) :
        IF plan.unitOf[i] < k THEN plan.steps[i].state \in Resolved
        ELSE plan.steps[i].state = "previewed"

Unstarted(plan) == Wellformed(plan) /\ Phase(plan, 1, "prepared") /\ StepsAt(plan, 1)

\* The worker is at a unit, and inside it at a step, of a well-formed plan.
Shape ==
    /\ turn.plan = NoPlan \/ Wellformed(turn.plan)
    /\ turn.state = "awaiting" => Wellformed(turn.plan)
    /\ job.pc # "idle" => turn.state = "running"
    /\ job.pc \in {"idle", "reasoning"} => job.plan = NoPlan
    /\ job.pc \notin {"idle", "reasoning"} => Wellformed(job.plan) /\ job.unit \in 1..Len(job.plan.units)
    /\ job.pc \in {"running", "unit_done"} => {job.snap, job.copy} \subseteq [Records -> Values]
    /\ job.pc = "running" => job.step \in StepsOf(job.plan, job.unit)

ShapeInv == TypeOK /\ Shape

\* Two states of one plan.
Alike(p, q) ==
    /\ Len(p.steps) = Len(q.steps) /\ p.unitOf = q.unitOf /\ Len(p.units) = Len(q.units)
    /\ \A i \in 1..Len(p.steps) :
        /\ p.steps[i].id = q.steps[i].id /\ p.steps[i].cap = q.steps[i].cap
        /\ p.steps[i].recs = q.steps[i].recs /\ p.steps[i].before = q.steps[i].before
    /\ \A k \in 1..Len(p.units) : p.units[k].mode = q.units[k].mode

\* Nothing happened yet, or nothing remained.
Still == durable = {} /\ \A s \in CallIds : rows[s].state \in {"none", "rolled_back", "skipped"}

\* No row has the step id of the plan.
Blank(plan) == \A i \in 1..Len(plan.steps) : rows[plan.steps[i].id].state = "none"

QuietInv ==
    ~turn.barrier =>
        /\ Still /\ Blank(job.plan)
        /\ turn.state \notin Terminal => Blank(turn.plan) /\ (turn.plan = NoPlan \/ Unstarted(turn.plan))

Known(plan) == \A i \in 1..Len(plan.steps) : plan.steps[i].id \in used

\* Step ids and rows come from calls of the transcript.
UsedInv ==
    /\ Known(turn.plan) /\ Known(job.plan)
    /\ \A s \in CallIds : rows[s].state # "none" => s \in used

\* The row of a step in a journal, by the state of its unit, given what is durable.
Entry(s, k, units, journal, dur) ==
    /\ journal[s.id].unit = k
    /\ units[k].state = "completed" =>
        \/ s.state = "completed" /\ journal[s.id].state = "verified" /\ s.id \in dur
        \/ s.state = "skipped" /\ journal[s.id].state = "skipped" /\ s.id \notin dur
    /\ units[k].state = "executing" =>
        journal[s.id].state = "executing" /\ (Mode(s.cap) = "odoo_atomic" => s.id \notin dur)
    /\ units[k].state = "prepared" => journal[s.id].state = "prepared" /\ s.id \notin dur

\* The journal is about the plan.
Recorded(plan, journal, dur) ==
    /\ \A i \in 1..Len(plan.steps) : Entry(plan.steps[i], plan.unitOf[i], plan.units, journal, dur)
    /\ \A s \in CallIds : (\A i \in 1..Len(plan.steps) : plan.steps[i].id # s) =>
        s \notin dur /\ journal[s].state \in {"none", "rolled_back"}

CommittedInv == turn.barrier /\ turn.state = "running" => Wellformed(turn.plan) /\ Recorded(turn.plan, rows, durable)

\* The plan in the worker's memory beside the committed one: before the preflight, ...
AtPreflight ==
    /\ Phase(job.plan, job.unit, "prepared") /\ StepsAt(job.plan, job.unit)
    /\ IF turn.barrier THEN turn.plan = job.plan ELSE job.unit = 1

\* ... before the checkpoint that begins the unit, ...
AtCheckpoint ==
    /\ Phase(job.plan, job.unit, "executing") /\ StepsAt(job.plan, job.unit)
    /\ IF turn.barrier
       THEN /\ Alike(turn.plan, job.plan) /\ turn.plan.steps = job.plan.steps
            /\ Phase(turn.plan, job.unit, "prepared")
       ELSE job.unit = 1

\* ... and inside it, where only the steps of the unit have moved on.
InUnit ==
    /\ turn.barrier
    /\ Alike(turn.plan, job.plan)
    /\ Phase(job.plan, job.unit, "executing") /\ Phase(turn.plan, job.unit, "executing")
    /\ StepsAt(turn.plan, job.unit)
    /\ \A i \in 1..Len(job.plan.steps) :
        IF job.plan.unitOf[i] # job.unit THEN job.plan.steps[i].state = turn.plan.steps[i].state
        ELSE /\ (job.pc = "unit_done" \/ i < job.step) => job.plan.steps[i].state \in Resolved
             /\ (job.pc = "running" /\ i >= job.step) => job.plan.steps[i].state = "previewed"
             /\ job.plan.steps[i].state # "completed" => job.plan.steps[i].id \notin durable

JobInv ==
    /\ job.pc # "integrity_error"
    /\ job.pc = "reasoning" => ~turn.barrier
    /\ job.pc = "preflight" => AtPreflight
    /\ job.pc = "before_unit" => AtCheckpoint
    /\ job.pc \in {"running", "unit_done"} => InUnit

\* No capability leaves files behind that the journal calls rolled back.
Transactional == "workspace" \notin Capabilities

EndInv ==
    /\ turn.state \in {"awaiting", "queued"} => ~turn.barrier
    /\ turn.state \in Terminal /\ Transactional => JournalTruth

JournalInv == QuietInv /\ UsedInv /\ CommittedInv /\ JobInv /\ EndInv

\* A step that is done is done in full, unless it goes on after errors.
Done(plan) ==
    \A i \in 1..Len(plan.steps) : plan.steps[i].state = "completed" =>
        \/ plan.steps[i].outcome = "complete"
        \/ ContinueOnError(plan.steps[i].cap) /\ plan.steps[i].outcome \in {"partial", "blocked"}

Pairs(s) == {<<s.cap, r>> : r \in s.recs \union {"none"}}

\* A person approved what the plan is about to do.
Cleared(plan, human) ==
    \A i \in 1..Len(plan.steps) : NeedsApproval(plan.steps[i].cap) =>
        human /\ Pairs(plan.steps[i]) \subseteq granted

ScopeInv ==
    /\ Done(job.plan) /\ Done(turn.plan)
    /\ Cleared(job.plan, job.human)
    /\ job.pc = "reasoning" => Cleared(job.source, job.human)
    /\ turn.state \in {"queued", "running"} => Cleared(turn.plan, turn.human)
    /\ job.pc \in {"running", "unit_done"} => turn.human = job.human
    /\ ApprovedScope

-----------------------------------------------------------------------------
(* Units *)

\* A set of natural numbers that is not empty has a least one.
LEMMA LeastNat ==
    ASSUME NEW T, T \subseteq Nat, T # {}
    PROVE  \E x \in T : \A y \in T : x <= y
  <1> DEFINE R == OpToRel(<, Nat)
  <1>1. IsWellFoundedOn(R, Nat)
    BY NatLessThanWellFounded
  <1> HIDE DEF R
  <1>2. PICK x \in T : \A y \in T : <<y, x>> \notin R
    BY <1>1, WFMin
  <1>3. ASSUME NEW y \in T PROVE x <= y
    <2>1. <<y, x>> \notin R /\ x \in Nat /\ y \in Nat
      BY <1>2
    <2>2. y < x => <<y, x>> \in R
      BY <2>1 DEF R, OpToRel
    <2> QED BY <2>1, <2>2
  <1> QED BY <1>3

\* Min takes it.
LEMMA MinLeast ==
    ASSUME NEW T, T \subseteq Nat, T # {}
    PROVE  Min(T) \in T /\ \A y \in T : Min(T) <= y
  BY LeastNat DEF Min

\* The two consecutive steps share a unit.
Joined(steps, i) == Mode(steps[i].cap) = "odoo_atomic" /\ Mode(steps[i - 1].cap) = "odoo_atomic"

\* The equation of UnitOf.
UnitEquation(steps, u) ==
    [i \in DOMAIN steps |-> IF i = 1 THEN 1 ELSE IF Joined(steps, i) THEN u[i - 1] ELSE u[i - 1] + 1]

\* The recursion of _assign_recovery_units defines a function.
LEMMA UnitExists ==
    ASSUME NEW steps \in Seq(StepRow)
    PROVE  UnitOf(steps) = UnitEquation(steps, UnitOf(steps))
  <1> DEFINE n == Len(steps)
             Eq(m, g) == g = [i \in 1..m |-> IF i = 1 THEN 1 ELSE IF Joined(steps, i) THEN g[i - 1] ELSE g[i - 1] + 1]
             Bad == {m \in Nat : m <= n /\ ~(\E g : Eq(m, g))}
  <1>1. DOMAIN steps = 1..n /\ n \in Nat
    OBVIOUS
  <1>2. Bad = {}
    <2> SUFFICES ASSUME Bad # {} PROVE FALSE
      OBVIOUS
    <2>1. PICK m \in Bad : \A y \in Bad : m <= y
      BY LeastNat
    <2>2. CASE m = 0
      <3>1. Eq(0, [i \in 1..0 |-> 1])
        OBVIOUS
      <3> QED BY <3>1, <2>1, <2>2
    <2>3. CASE m # 0
      <3>1. m - 1 \in Nat /\ m - 1 \notin Bad /\ m - 1 <= n
        <4>1. m \in Nat /\ m <= n
          OBVIOUS
        <4> HIDE DEF Bad
        <4> QED BY <4>1, <2>1, <2>3, <1>1
      <3>2. PICK g : Eq(m - 1, g)
        BY <3>1
      <3> DEFINE last == IF m = 1 THEN 1 ELSE IF Joined(steps, m) THEN g[m - 1] ELSE g[m - 1] + 1
                 h == [i \in 1..m |-> IF i = m THEN last ELSE g[i]]
      <3>3. ASSUME NEW i \in 1..m
            PROVE  h[i] = IF i = 1 THEN 1 ELSE IF Joined(steps, i) THEN h[i - 1] ELSE h[i - 1] + 1
        <4>1. CASE i = m
          <5>1. h[i] = last
            BY <4>1
          <5>2. i # 1 => h[i - 1] = g[m - 1]
            BY <4>1, <2>1, <2>3
          <5> HIDE DEF h
          <5> QED BY <5>1, <5>2, <4>1
        <4>2. CASE i # m
          <5>1. i \in 1..(m - 1) /\ h[i] = g[i] /\ (i # 1 => h[i - 1] = g[i - 1])
            BY <4>2, <2>1, <2>3
          <5>2. g[i] = IF i = 1 THEN 1 ELSE IF Joined(steps, i) THEN g[i - 1] ELSE g[i - 1] + 1
            BY <3>2, <5>1
          <5> HIDE DEF h
          <5> QED BY <5>1, <5>2
        <4> QED BY <4>1, <4>2
      <3>4. h = [i \in 1..m |-> h[i]]
        OBVIOUS
      <3> HIDE DEF h
      <3>5. Eq(m, h)
        BY <3>3, <3>4
      <3> QED BY <3>5, <2>1
    <2> QED BY <2>2, <2>3
  <1>3. \E g : Eq(n, g)
    BY <1>1, <1>2
  <1>4. \E g : g = UnitEquation(steps, g)
    BY <1>1, <1>3 DEF UnitEquation
  <1> QED BY <1>4 DEF UnitOf, UnitEquation, Joined

\* A function that grows by one at most, from one.
Climbing(u, n) ==
    u[1] = 1 /\ \A i \in 1..n : i # 1 => (u[i] = u[i - 1] \/ u[i] = u[i - 1] + 1)

\* Its values are natural numbers, ...
LEMMA ClimbsInNat ==
    ASSUME NEW n \in Nat, NEW u, Climbing(u, n)
    PROVE  \A i \in 1..n : u[i] \in Nat /\ u[i] >= 1
  <1> DEFINE Bad == {i \in Nat : i \in 1..n /\ ~(u[i] \in Nat /\ u[i] >= 1)}
  <1>1. Bad = {}
    <2> SUFFICES ASSUME Bad # {} PROVE FALSE
      OBVIOUS
    <2>1. PICK m \in Bad : \A y \in Bad : m <= y
      BY LeastNat
    <2>2. m \in Nat /\ m \in 1..n /\ ~(u[m] \in Nat /\ u[m] >= 1)
      OBVIOUS
    <2>3. m # 1
      BY <2>2 DEF Climbing
    <2>4. m - 1 \in Nat /\ m - 1 \in 1..n /\ m - 1 \notin Bad
      <3> HIDE DEF Bad
      <3> QED BY <2>1, <2>2, <2>3
    <2>5. u[m - 1] \in Nat /\ u[m - 1] >= 1
      BY <2>4
    <2> QED BY <2>2, <2>3, <2>5 DEF Climbing
  <1> QED BY <1>1

\* ... never go down ...
LEMMA ClimbsUp ==
    ASSUME NEW n \in Nat, NEW u, Climbing(u, n), NEW i \in 1..n, NEW j \in 1..n, i <= j
    PROVE  u[i] <= u[j]
  <1> DEFINE Bad == {m \in Nat : m \in 1..n /\ i <= m /\ ~(u[i] <= u[m])}
  <1>1. Bad = {}
    <2> SUFFICES ASSUME Bad # {} PROVE FALSE
      OBVIOUS
    <2>1. PICK m \in Bad : \A y \in Bad : m <= y
      BY LeastNat
    <2>2. m \in Nat /\ m \in 1..n /\ i <= m /\ ~(u[i] <= u[m])
      OBVIOUS
    <2>3. u[i] \in Nat /\ u[m] \in Nat
      BY <2>2, ClimbsInNat
    <2>4. m # i /\ m # 1
      BY <2>2, <2>3
    <2>5. m - 1 \in Nat /\ m - 1 \in 1..n /\ i <= m - 1 /\ m - 1 \notin Bad
      <3> HIDE DEF Bad
      <3> QED BY <2>1, <2>2, <2>4
    <2>6. u[i] <= u[m - 1] /\ u[m - 1] \in Nat
      BY <2>5, ClimbsInNat
    <2> QED BY <2>2, <2>3, <2>4, <2>6 DEF Climbing
  <1> QED BY <1>1

\* ... and leave nothing out.
LEMMA ClimbsThrough ==
    ASSUME NEW n \in Nat, n > 0, NEW u, Climbing(u, n), NEW k \in 1..u[n]
    PROVE  \E i \in 1..n : u[i] = k
  <1>0. u[n] \in Nat
    BY ClimbsInNat
  <1> DEFINE T == {i \in Nat : i \in 1..n /\ k <= u[i]}
  <1>1. n \in T
    BY <1>0
  <1>2. PICK m \in T : \A y \in T : m <= y
    BY <1>1, LeastNat
  <1>3. m \in Nat /\ m \in 1..n /\ k <= u[m] /\ u[m] \in Nat /\ k \in Nat /\ k >= 1
    BY <1>0, ClimbsInNat
  <1>4. CASE m = 1
    BY <1>3, <1>4 DEF Climbing
  <1>5. CASE m # 1
    <2>1. m - 1 \in Nat /\ m - 1 \in 1..n /\ m - 1 \notin T
      <3> HIDE DEF T
      <3> QED BY <1>2, <1>3, <1>5
    <2>2. u[m - 1] \in Nat /\ ~(k <= u[m - 1])
      BY <2>1, ClimbsInNat
    <2>3. u[m] = k
      BY <1>3, <1>5, <2>2 DEF Climbing
    <2> QED BY <1>3, <2>3
  <1> QED BY <1>4, <1>5

\* A new plan is well formed and not begun.
LEMMA NewPlanUnstarted ==
    ASSUME NEW steps \in Seq(StepRow), Len(steps) > 0,
           \A i, j \in 1..Len(steps) : steps[i].id = steps[j].id => i = j,
           \A i \in 1..Len(steps) : steps[i].state = "previewed"
                                    /\ (RecordSubset(steps[i].cap) => steps[i].recs # {})
                                    /\ steps[i].before \in [steps[i].recs -> Values]
    PROVE  /\ NewPlan(steps) \in PlanRow /\ Unstarted(NewPlan(steps))
           /\ NewPlan(steps).steps = steps
           /\ NewPlan(steps).state \in {"awaiting_confirmation", "authorized"}
           /\ NewPlan(steps).state = "authorized" =>
                \A i \in 1..Len(steps) : ~NeedsApproval(steps[i].cap)
  <1> DEFINE n == Len(steps)
             u == UnitOf(steps)
             unit(k) == [mode |-> Mode(steps[CHOOSE i \in DOMAIN steps : u[i] = k].cap), state |-> "prepared"]
             units == [k \in 1..u[n] |-> unit(k)]
             plan == NewPlan(steps)
  <1>1. n \in Nat /\ n > 0 /\ DOMAIN steps = 1..n
    OBVIOUS
  <1>2. u = UnitEquation(steps, u)
    BY UnitExists
  <1> HIDE DEF u
  <1>3. /\ DOMAIN u = 1..n /\ u[1] = 1
        /\ \A i \in 1..n : i # 1 => u[i] = IF Joined(steps, i) THEN u[i - 1] ELSE u[i - 1] + 1
    <2>1. ASSUME NEW i \in 1..n
          PROVE  UnitEquation(steps, u)[i] = IF i = 1 THEN 1 ELSE IF Joined(steps, i) THEN u[i - 1] ELSE u[i - 1] + 1
      BY <1>1 DEF UnitEquation
    <2>2. ASSUME NEW i \in 1..n PROVE u[i] = UnitEquation(steps, u)[i]
      BY <1>2
    <2>3. DOMAIN UnitEquation(steps, u) = 1..n
      BY <1>1 DEF UnitEquation
    <2>4. 1 \in 1..n /\ DOMAIN u = 1..n
      BY <1>1, <1>2, <2>3
    <2> HIDE DEF n
    <2> QED BY <2>1, <2>2, <2>4
  <1>4. Climbing(u, n)
    BY <1>3 DEF Climbing
  <1>5. \A i \in 1..n : u[i] \in Nat /\ u[i] >= 1
    BY <1>1, <1>4, ClimbsInNat
  <1>6. \A i, j \in 1..n : i <= j => u[i] <= u[j]
    BY <1>1, <1>4, ClimbsUp
  <1>7. \A k \in 1..u[n] : \E i \in 1..n : u[i] = k
    BY <1>1, <1>4, ClimbsThrough
  <1>8. u \in Seq(Nat) /\ Len(u) = n
    <2>1. u \in [1..n -> Nat]
      <3>1. u = [i \in DOMAIN u |-> u[i]]
        <4>1. UnitEquation(steps, u) = [i \in DOMAIN UnitEquation(steps, u) |-> UnitEquation(steps, u)[i]]
          BY DEF UnitEquation
        <4> QED BY <1>2, <4>1
      <3> QED BY <1>3, <1>5, <3>1
    <2> QED BY <2>1, <1>1
  <1>9. \A i \in 1..n : u[i] \in 1..u[n]
    BY <1>1, <1>5, <1>6
  <1>10. ASSUME NEW i \in 1..n, NEW j \in 1..n, u[i] = u[j], i < j
         PROVE  Mode(steps[i].cap) = "odoo_atomic" /\ Mode(steps[j].cap) = "odoo_atomic"
    <2>1. i + 1 \in 1..n /\ i + 1 # 1 /\ (i + 1) - 1 = i /\ i + 1 <= j /\ j - 1 \in 1..n /\ i <= j - 1 /\ j # 1
      BY <1>1, <1>10
    <2>2. u[i] <= u[i + 1] /\ u[i + 1] <= u[j] /\ u[i] <= u[j - 1] /\ u[j - 1] <= u[j]
      BY <2>1, <1>6, <1>1
    <2>3. u[i] \in Nat /\ u[j] \in Nat /\ u[i + 1] \in Nat /\ u[j - 1] \in Nat
      BY <2>1, <1>5
    <2>4. u[i + 1] = u[i] /\ u[j] = u[j - 1]
      BY <2>2, <2>3, <1>10
    <2>5. Joined(steps, i + 1) /\ Joined(steps, j)
      <3>1. u[i + 1] = IF Joined(steps, i + 1) THEN u[(i + 1) - 1] ELSE u[(i + 1) - 1] + 1
        BY <2>1, <1>3
      <3>2. u[j] = IF Joined(steps, j) THEN u[j - 1] ELSE u[j - 1] + 1
        BY <2>1, <1>3
      <3>3. u[(i + 1) - 1] = u[i]
        BY <2>1
      <3> HIDE DEF n
      <3> QED BY <2>3, <2>4, <3>1, <3>2, <3>3
    <2> QED BY <2>1, <2>5 DEF Joined
  <1>11. ASSUME NEW i \in 1..n, NEW j \in 1..n, u[i] = u[j]
         PROVE  Mode(steps[i].cap) = Mode(steps[j].cap) /\ (Mode(steps[i].cap) # "odoo_atomic" => i = j)
    <2>1. i = j \/ i < j \/ j < i
      OBVIOUS
    <2> QED BY <2>1, <1>10, <1>11
  <1>12. units \in Seq(UnitRow) /\ Len(units) = u[n]
         /\ \A k \in 1..u[n] : units[k].state = "prepared"
         /\ \A i \in 1..n : units[u[i]].mode = Mode(steps[i].cap)
    <2>1. ASSUME NEW k \in 1..u[n] PROVE unit(k) \in UnitRow
      BY DEF UnitRow, Modes, Mode
    <2>2. u[n] \in Nat
      BY <1>1, <1>5
    <2>3. units \in [1..u[n] -> UnitRow]
      BY <2>1
    <2>4. units \in Seq(UnitRow) /\ Len(units) = u[n]
      <3> HIDE DEF units
      <3> QED BY <2>2, <2>3
    <2>5. \A k \in 1..u[n] : units[k].state = "prepared"
      OBVIOUS
    <2>6. ASSUME NEW i \in 1..n PROVE units[u[i]].mode = Mode(steps[i].cap)
      <3> DEFINE j == CHOOSE x \in DOMAIN steps : u[x] = u[i]
      <3>1. j \in 1..n /\ u[j] = u[i]
        BY <1>1
      <3>2. units[u[i]].mode = Mode(steps[j].cap)
        BY <1>9
      <3> HIDE DEF j, units
      <3> QED BY <3>1, <3>2, <1>11
    <2> QED BY <2>4, <2>5, <2>6
  <1> HIDE DEF units
  <1>13. plan = [state |-> IF \E i \in DOMAIN steps : NeedsApproval(steps[i].cap)
                           THEN "awaiting_confirmation" ELSE "authorized",
                 steps |-> steps, unitOf |-> u, units |-> units]
    BY DEF NewPlan, u, units
  <1>14. /\ plan.steps = steps /\ plan.unitOf = u /\ plan.units = units
         /\ plan.state \in {"awaiting_confirmation", "authorized"}
         /\ plan.state = "authorized" => \A i \in 1..n : ~NeedsApproval(steps[i].cap)
    BY <1>1, <1>13
  <1>15. plan \in PlanRow
    BY <1>8, <1>12, <1>13 DEF PlanRow, PlanStates
  <1> HIDE DEF plan
  <1>16. ASSUME NEW i \in 1..n, i + 1 \in 1..n, Mode(steps[i].cap) = "odoo_atomic",
                Mode(steps[i + 1].cap) = "odoo_atomic"
         PROVE  u[i] = u[i + 1]
    <2>1. i + 1 # 1 /\ (i + 1) - 1 = i
      OBVIOUS
    <2> QED BY <2>1, <1>16, <1>3 DEF Joined
  <1>17. Wellformed(plan)
    <2>1. n > 0 /\ Len(u) = n
      BY <1>1, <1>8
    <2>2. \A i \in 1..n :
            /\ u[i] \in 1..Len(units)
            /\ units[u[i]].mode = Mode(steps[i].cap)
            /\ RecordSubset(steps[i].cap) => steps[i].recs # {}
            /\ steps[i].before \in [steps[i].recs -> Values]
      BY <1>9, <1>12
    <2>3. \A i, j \in 1..n : (u[i] = u[j] /\ Mode(steps[i].cap) # "odoo_atomic") => i = j
      BY <1>11
    <2>4. \A i \in 1..n : (i + 1 \in 1..n /\ Mode(steps[i].cap) = "odoo_atomic" /\ Mode(steps[i + 1].cap) = "odoo_atomic")
                          => u[i] = u[i + 1]
      BY <1>16
    <2>5. \A k \in 1..Len(units) : \E i \in 1..n : u[i] = k
      BY <1>7, <1>12
    <2>6. Grouped(steps, u, units)
      BY <2>1, <2>2, <2>3, <2>4, <2>5, <1>6, Zenon DEF Grouped
    <2> QED BY <2>6, <1>14 DEF Wellformed
  <1>18. Phase(plan, 1, "prepared")
    BY <1>12, <1>14 DEF Phase
  <1>19. StepsAt(plan, 1)
    BY <1>5, <1>14 DEF StepsAt
  <1> QED BY <1>14, <1>15, <1>17, <1>18, <1>19 DEF Unstarted, plan

-----------------------------------------------------------------------------
(* The host writes progress into a plan, never its steps. *)

MarkStep(plan, i, state, outcome) ==
    [plan EXCEPT !.steps[i].state = state, !.steps[i].outcome = outcome]

\* A step that ran or was skipped.
LEMMA StepMarked ==
    ASSUME NEW plan \in PlanRow, NEW i \in 1..Len(plan.steps), NEW state \in Resolved,
           NEW outcome \in {"complete", "partial", "blocked", "skipped"}
    PROVE  /\ MarkStep(plan, i, state, outcome) \in PlanRow
           /\ Alike(plan, MarkStep(plan, i, state, outcome))
           /\ MarkStep(plan, i, state, outcome).units = plan.units
           /\ \A j \in 1..Len(plan.steps) : j # i =>
                MarkStep(plan, i, state, outcome).steps[j] = plan.steps[j]
           /\ MarkStep(plan, i, state, outcome).steps[i].state = state
           /\ MarkStep(plan, i, state, outcome).steps[i].outcome = outcome
  <1> DEFINE q == MarkStep(plan, i, state, outcome)
             row == [plan.steps[i] EXCEPT !.state = state, !.outcome = outcome]
             rs == [plan.steps EXCEPT ![i] = row]
  <1>1. plan.steps \in Seq(StepRow) /\ plan.steps[i] \in StepRow
    BY DEF PlanRow
  <1>2. /\ row \in StepRow /\ row.state = state /\ row.outcome = outcome
        /\ row.id = plan.steps[i].id /\ row.cap = plan.steps[i].cap
        /\ row.recs = plan.steps[i].recs /\ row.before = plan.steps[i].before
    BY <1>1 DEF StepRow, Resolved, Outcomes
  <1>3. q.steps = rs /\ q = [plan EXCEPT !.steps = rs]
    <2> DEFINE mid == [plan.steps EXCEPT ![i] = [@ EXCEPT !.state = state]]
               p == [plan EXCEPT !.steps = mid]
    <2>1. p = [plan EXCEPT !.steps[i].state = state] /\ p.steps = mid
      BY <1>1 DEF PlanRow
    <2>2. q = [p EXCEPT !.steps = [mid EXCEPT ![i] = [@ EXCEPT !.outcome = outcome]]]
      BY <2>1 DEF MarkStep
    <2>3. [mid EXCEPT ![i] = [@ EXCEPT !.outcome = outcome]] = rs
      BY <1>1
    <2> QED BY <2>1, <2>2, <2>3 DEF PlanRow
  <1> HIDE DEF row
  <1>4. /\ rs \in Seq(StepRow) /\ Len(rs) = Len(plan.steps) /\ rs[i] = row
        /\ \A j \in 1..Len(plan.steps) : j # i => rs[j] = plan.steps[j]
    BY <1>1, <1>2
  <1> HIDE DEF rs
  <1>5. q \in PlanRow /\ q.unitOf = plan.unitOf /\ q.units = plan.units
    BY <1>3, <1>4 DEF PlanRow
  <1> HIDE DEF q
  <1>6. Alike(plan, q)
    <2>1. ASSUME NEW j \in 1..Len(plan.steps)
          PROVE  /\ plan.steps[j].id = q.steps[j].id /\ plan.steps[j].cap = q.steps[j].cap
                 /\ plan.steps[j].recs = q.steps[j].recs /\ plan.steps[j].before = q.steps[j].before
      BY <1>2, <1>3, <1>4
    <2> QED BY <2>1, <1>3, <1>4, <1>5 DEF Alike
  <1> QED BY <1>2, <1>3, <1>4, <1>5, <1>6 DEF q

MarkUnit(plan, k, state) == [plan EXCEPT !.units[k].state = state]

\* A unit that begins or is done.
LEMMA UnitMarked ==
    ASSUME NEW plan \in PlanRow, NEW k \in 1..Len(plan.units), NEW state \in {"executing", "completed"}
    PROVE  /\ MarkUnit(plan, k, state) \in PlanRow
           /\ Alike(plan, MarkUnit(plan, k, state))
           /\ MarkUnit(plan, k, state).steps = plan.steps
           /\ MarkUnit(plan, k, state).state = plan.state
           /\ Len(MarkUnit(plan, k, state).units) = Len(plan.units)
           /\ \A m \in 1..Len(plan.units) : m # k =>
                MarkUnit(plan, k, state).units[m] = plan.units[m]
           /\ MarkUnit(plan, k, state).units[k].state = state
  <1> DEFINE q == MarkUnit(plan, k, state)
             row == [plan.units[k] EXCEPT !.state = state]
             us == [plan.units EXCEPT ![k] = row]
  <1>1. plan.units \in Seq(UnitRow) /\ plan.units[k] \in UnitRow
    BY DEF PlanRow
  <1>2. row \in UnitRow /\ row.state = state /\ row.mode = plan.units[k].mode
    BY <1>1 DEF UnitRow
  <1>3. q.units = us /\ q = [plan EXCEPT !.units = us]
    BY <1>1 DEF MarkUnit, PlanRow, UnitRow
  <1> HIDE DEF row
  <1>4. /\ us \in Seq(UnitRow) /\ Len(us) = Len(plan.units) /\ us[k] = row
        /\ \A m \in 1..Len(plan.units) : m # k => us[m] = plan.units[m]
    BY <1>1, <1>2
  <1> HIDE DEF us
  <1>5. q \in PlanRow /\ q.unitOf = plan.unitOf /\ q.steps = plan.steps /\ q.state = plan.state
    BY <1>3, <1>4 DEF PlanRow
  <1> HIDE DEF q
  <1>6. Alike(plan, q)
    <2>1. ASSUME NEW m \in 1..Len(plan.units) PROVE plan.units[m].mode = q.units[m].mode
      BY <1>2, <1>3, <1>4
    <2> QED BY <2>1, <1>3, <1>4, <1>5 DEF Alike
  <1> QED BY <1>2, <1>3, <1>4, <1>5, <1>6 DEF q

\* The state of the plan itself.
LEMMA PlanMarked ==
    ASSUME NEW plan \in PlanRow, NEW state \in PlanStates
    PROVE  /\ [plan EXCEPT !.state = state] \in PlanRow
           /\ [plan EXCEPT !.state = state].steps = plan.steps
           /\ [plan EXCEPT !.state = state].unitOf = plan.unitOf
           /\ [plan EXCEPT !.state = state].units = plan.units
  BY DEF PlanRow

\* Progress leaves a plan well formed.
LEMMA AlikeGrouped ==
    ASSUME NEW p, NEW q, Alike(p, q), Wellformed(p)
    PROVE  Wellformed(q)
  <1> DEFINE s == p.steps  t == q.steps  u == p.unitOf  ps == p.units  qs == q.units
  <1>1. /\ Len(t) = Len(s) /\ q.unitOf = u /\ Len(qs) = Len(ps)
        /\ \A i \in 1..Len(s) : t[i].id = s[i].id /\ t[i].cap = s[i].cap /\ t[i].recs = s[i].recs
                                 /\ t[i].before = s[i].before
        /\ \A k \in 1..Len(ps) : qs[k].mode = ps[k].mode
    BY DEF Alike
  <1>2. Grouped(s, u, ps)
    BY DEF Wellformed
  <1> HIDE DEF s, t, u, ps, qs
  <1>3. Grouped(t, u, qs)
    <2>1. \A i \in 1..Len(s) :
            /\ u[i] \in 1..Len(qs)
            /\ qs[u[i]].mode = Mode(t[i].cap)
            /\ RecordSubset(t[i].cap) => t[i].recs # {}
            /\ t[i].before \in [t[i].recs -> Values]
      <3> SUFFICES ASSUME NEW i \in 1..Len(s)
                   PROVE  /\ u[i] \in 1..Len(qs)
                          /\ qs[u[i]].mode = Mode(t[i].cap)
                          /\ RecordSubset(t[i].cap) => t[i].recs # {}
                          /\ t[i].before \in [t[i].recs -> Values]
        OBVIOUS
      <3>1. /\ u[i] \in 1..Len(ps) /\ ps[u[i]].mode = Mode(s[i].cap)
            /\ RecordSubset(s[i].cap) => s[i].recs # {}
            /\ s[i].before \in [s[i].recs -> Values]
        BY <1>2 DEF Grouped
      <3>2. t[i].cap = s[i].cap /\ t[i].recs = s[i].recs /\ t[i].before = s[i].before /\ qs[u[i]].mode = ps[u[i]].mode
        BY <1>1, <3>1
      <3> QED BY <3>1, <3>2, <1>1
    <2>2. \A i, j \in 1..Len(s) : t[i].id = t[j].id => i = j
      BY <1>1, <1>2 DEF Grouped
    <2>3. \A i, j \in 1..Len(s) : (u[i] = u[j] /\ Mode(t[i].cap) # "odoo_atomic") => i = j
      BY <1>1, <1>2 DEF Grouped
    <2>4. \A i \in 1..Len(s) :
            (i + 1 \in 1..Len(s) /\ Mode(t[i].cap) = "odoo_atomic" /\ Mode(t[i + 1].cap) = "odoo_atomic")
                => u[i] = u[i + 1]
      BY <1>1, <1>2 DEF Grouped
    <2>5. /\ Len(s) > 0 /\ Len(u) = Len(s)
          /\ \A i, j \in 1..Len(s) : i <= j => u[i] <= u[j]
          /\ \A k \in 1..Len(qs) : \E i \in 1..Len(s) : u[i] = k
      BY <1>1, <1>2 DEF Grouped
    <2> HIDE DEF Grouped
    <2>6. Len(t) = Len(s)
      BY <1>1
    <2> QED BY <2>1, <2>2, <2>3, <2>4, <2>5, <2>6 DEF Grouped
  <1> QED BY <1>1, <1>3 DEF Wellformed, s, t, u, ps, qs

-----------------------------------------------------------------------------
(* What the shared parts of the actions do to the records *)

\* The empty plan and the idle worker have their types.
LEMMA NothingTyped ==
    /\ NoPlan \in PlanRow /\ NoPlan.steps = << >> /\ Len(NoPlan.steps) = 0 /\ Ids(NoPlan) = {}
    /\ Idle \in JobRow /\ Idle.pc = "idle" /\ Idle.plan = NoPlan /\ Idle.source = NoPlan
  <1>1. << >> \in Seq(StepRow) /\ << >> \in Seq(Nat) /\ << >> \in Seq(UnitRow)
    OBVIOUS
  <1>2. NoPlan \in PlanRow
    BY <1>1 DEF NoPlan, PlanRow, PlanStates
  <1>3. NoPlan.steps = << >> /\ Len(NoPlan.steps) = 0
    BY DEF NoPlan
  <1>4. Ids(NoPlan) = {}
    BY DEF NoPlan, Ids
  <1>5. [c \in Capabilities |-> 0] \in [Capabilities -> Nat]
    OBVIOUS
  <1>6. Idle \in JobRow /\ Idle.pc = "idle" /\ Idle.plan = NoPlan /\ Idle.source = NoPlan
    BY <1>2, <1>5 DEF Idle, JobRow, Copies
  <1> QED BY <1>2, <1>3, <1>4, <1>6

\* _mark_turn_failure changes the state of a row only.
LEMMA FailureTyped ==
    ASSUME NEW plan \in PlanRow, rows \in [CallIds -> JournalRow]
    PROVE  /\ MarkTurnFailure(plan) \in [CallIds -> JournalRow]
           /\ \A s \in CallIds : /\ MarkTurnFailure(plan)[s].state = FailedRow(rows[s], plan)
                                 /\ MarkTurnFailure(plan)[s].unit = rows[s].unit
  <1>1. ASSUME NEW s \in CallIds
        PROVE  /\ [rows[s] EXCEPT !.state = FailedRow(rows[s], plan)] \in JournalRow
               /\ [rows[s] EXCEPT !.state = FailedRow(rows[s], plan)].state = FailedRow(rows[s], plan)
               /\ [rows[s] EXCEPT !.state = FailedRow(rows[s], plan)].unit = rows[s].unit
    <2>1. rows[s] \in JournalRow
      OBVIOUS
    <2>2. FailedRow(rows[s], plan) \in {"none", "prepared", "executing", "verified", "skipped", "rolled_back",
                        "uncertain", "reverted"}
      BY <2>1 DEF FailedRow, JournalRow
    <2> HIDE DEF FailedRow
    <2> QED BY <2>1, <2>2 DEF JournalRow
  <1> QED BY <1>1 DEF MarkTurnFailure

\* The values of a step's row.
LEMMA ValuesTyped ==
    ASSUME NEW plan \in PlanRow, Wellformed(plan), NEW i \in 1..Len(plan.steps)
    PROVE  /\ RowValues(plan, i) \in JournalRow
           /\ RowValues(plan, i).unit = plan.unitOf[i]
           /\ RowValues(plan, i).state \in {"verified", "skipped", "executing", "prepared"}
  <1>1. plan.steps[i] \in StepRow /\ plan.unitOf[i] \in Nat
    BY DEF PlanRow, Wellformed, Grouped
  <1> DEFINE st == CASE plan.steps[i].state = "completed" -> "verified"
                     [] plan.steps[i].state = "skipped" -> "skipped"
                     [] plan.steps[i].state = "previewed" /\ plan.units[plan.unitOf[i]].state = "executing" -> "executing"
                     [] OTHER -> "prepared"
  <1>2. st \in {"verified", "skipped", "executing", "prepared"}
    OBVIOUS
  <1>3. RowValues(plan, i) = [state |-> st, unit |-> plan.unitOf[i], cap |-> plan.steps[i].cap,
                              before |-> plan.steps[i].before]
    BY DEF RowValues
  <1> HIDE DEF st
  <1> QED BY <1>1, <1>2, <1>3 DEF JournalRow, StepRow

\* _sync_plan writes the row of each step of the plan.
LEMMA SyncTyped ==
    ASSUME NEW plan \in PlanRow, Wellformed(plan), rows \in [CallIds -> JournalRow]
    PROVE  /\ SyncPlan(plan) \in [CallIds -> JournalRow]
           /\ \A s \in CallIds : s \notin Ids(plan) => SyncPlan(plan)[s] = rows[s]
           /\ \A i \in 1..Len(plan.steps) :
                SyncPlan(plan)[plan.steps[i].id] =
                    IF plan.steps[i].id \in Existing
                    THEN RowUpdates(rows[plan.steps[i].id], RowValues(plan, i)) ELSE RowValues(plan, i)
  <1>1. plan.steps \in Seq(StepRow) /\ DOMAIN plan.steps = 1..Len(plan.steps)
    BY DEF PlanRow
  <1> DEFINE entry(s, i) == IF s \in Existing THEN RowUpdates(rows[s], RowValues(plan, i)) ELSE RowValues(plan, i)
  <1>2. ASSUME NEW s \in CallIds, NEW i \in 1..Len(plan.steps) PROVE entry(s, i) \in JournalRow
    BY ValuesTyped DEF RowUpdates, JournalRow
  <1>3. ASSUME NEW s \in CallIds, s \notin Ids(plan) PROVE SyncPlan(plan)[s] = rows[s]
    BY <1>3 DEF SyncPlan, Ids
  <1>4. ASSUME NEW i \in 1..Len(plan.steps) PROVE SyncPlan(plan)[plan.steps[i].id] = entry(plan.steps[i].id, i)
    <2> DEFINE s == plan.steps[i].id
               j == CHOOSE x \in DOMAIN plan.steps : plan.steps[x].id = s
    <2>0. plan.steps[i] \in StepRow
      BY <1>1
    <2>1. s \in CallIds
      BY <2>0 DEF StepRow
    <2>2. j \in 1..Len(plan.steps) /\ plan.steps[j].id = s
      BY <1>1
    <2>3. j = i
      BY <2>2 DEF Wellformed, Grouped
    <2>4. SyncPlan(plan)[s] = entry(s, j)
      BY <1>1, <2>1 DEF SyncPlan
    <2> QED BY <2>3, <2>4
  <1>5. ASSUME NEW s \in CallIds PROVE SyncPlan(plan)[s] \in JournalRow
    <2>1. CASE s \in Ids(plan)
      BY <2>1, <1>1, <1>2, <1>4 DEF Ids
    <2> QED BY <2>1, <1>3
  <1>6. SyncPlan(plan) = [s \in CallIds |-> SyncPlan(plan)[s]]
    BY DEF SyncPlan
  <1> QED BY <1>3, <1>4, <1>5, <1>6

\* The outcomes of a repair: the turn ends, or the model reasons again.
LEMMA RepairedFacts ==
    ASSUME turn \in TurnRow, job \in JobRow, NEW source \in PlanRow, NEW calls \in [Capabilities -> Nat],
           Repaired(source, calls)
    PROVE  /\ turn' \in TurnRow /\ turn'.barrier = FALSE /\ turn'.plan = NoPlan
           /\ turn'.human = turn.human /\ turn'.reversion = turn.reversion
           /\ job' \in JobRow /\ job'.plan = NoPlan
           /\ \/ job' = Idle /\ turn'.state = "completed"
              \/ /\ job'.pc = "reasoning" /\ job'.source = source /\ job'.human = job.human
                 /\ turn'.state = turn.state
  <1>1. CASE replans >= MaxReplans
    <2>1. turn' = [turn EXCEPT !.state = "completed", !.barrier = FALSE, !.plan = NoPlan] /\ job' = Idle
      BY <1>1 DEF Repaired
    <2>2. /\ turn' \in TurnRow /\ turn'.state = "completed" /\ turn'.barrier = FALSE /\ turn'.plan = NoPlan
          /\ turn'.human = turn.human /\ turn'.reversion = turn.reversion
      BY <2>1, NothingTyped DEF TurnRow, Terminal
    <2> QED BY <2>1, <2>2, NothingTyped
  <1>2. CASE ~(replans >= MaxReplans)
    <2>1. /\ turn' = [turn EXCEPT !.barrier = FALSE, !.plan = NoPlan]
          /\ job' = [Idle EXCEPT !.pc = "reasoning", !.source = source, !.human = job.human, !.calls = calls]
      BY <1>2 DEF Repaired
    <2>2. /\ turn' \in TurnRow /\ turn'.state = turn.state /\ turn'.barrier = FALSE /\ turn'.plan = NoPlan
          /\ turn'.human = turn.human /\ turn'.reversion = turn.reversion
      BY <2>1, NothingTyped DEF TurnRow, Terminal
    <2>3. /\ job' \in JobRow /\ job'.plan = NoPlan /\ job'.pc = "reasoning"
          /\ job'.source = source /\ job'.human = job.human
      BY <2>1, NothingTyped DEF JobRow
    <2> QED BY <2>2, <2>3
  <1> QED BY <1>1, <1>2

\* A turn that is closed after a failure.
LEMMA EndFacts ==
    ASSUME turn \in TurnRow, rows \in [CallIds -> JournalRow], NEW state \in Terminal, EndFailed(state)
    PROVE  /\ turn' \in TurnRow /\ turn'.state = state /\ turn'.barrier = turn.barrier
           /\ turn'.plan = turn.plan /\ turn'.human = turn.human /\ turn'.reversion = turn.reversion
           /\ rows' \in [CallIds -> JournalRow]
           /\ turn.barrier => rows' = MarkTurnFailure(turn.plan)
           /\ ~turn.barrier => rows' = rows
           /\ job' = Idle /\ UNCHANGED <<used, data, durable, stop>>
  <1>1. turn' = [turn EXCEPT !.state = state] /\ turn.plan \in PlanRow /\ turn.barrier \in BOOLEAN
    BY DEF EndFailed, TurnRow
  <1>2. /\ turn' \in TurnRow /\ turn'.state = state /\ turn'.barrier = turn.barrier
        /\ turn'.plan = turn.plan /\ turn'.human = turn.human /\ turn'.reversion = turn.reversion
    BY <1>1 DEF TurnRow
  <1>3. /\ turn.barrier => rows' = MarkTurnFailure(turn.plan)
        /\ ~turn.barrier => rows' = rows
        /\ job' = Idle /\ UNCHANGED <<used, data, durable, stop>>
    BY DEF EndFailed
  <1>4. rows' \in [CallIds -> JournalRow]
    BY <1>1, <1>3, FailureTyped
  <1> QED BY <1>2, <1>3, <1>4

\* A prepared plan stays within the approval, waits for one, or needs none.
LEMMA PreparedFacts ==
    ASSUME turn \in TurnRow, job \in JobRow, NEW plan \in PlanRow, Prepared(plan)
    PROVE  /\ turn' \in TurnRow /\ job' \in JobRow
           /\ turn'.barrier = turn.barrier /\ turn'.reversion = turn.reversion
           /\ \/ /\ job.source # NoPlan /\ ApprovalRefines(job.source, plan)
                 /\ turn' = turn /\ job'.pc = "preflight" /\ job'.unit = 1
                 /\ job'.plan = [plan EXCEPT !.state = "authorized"] /\ job'.human = job.human
              \/ /\ plan.state = "awaiting_confirmation" /\ turn'.state = "awaiting"
                 /\ turn'.plan = plan /\ job' = Idle
              \/ /\ plan.state # "awaiting_confirmation" /\ turn' = turn
                 /\ job'.pc = "preflight" /\ job'.unit = 1 /\ job'.plan = plan
  <1>0. plan \in PlanRow /\ [plan EXCEPT !.state = "authorized"] \in PlanRow
    BY PlanMarked DEF PlanStates
  <1> DEFINE auth == [plan EXCEPT !.state = "authorized"]
  <1> HIDE DEF auth
  <1>1. CASE job.source # NoPlan /\ ApprovalRefines(job.source, plan)
    <2>1. job' = [job EXCEPT !.pc = "preflight", !.plan = auth, !.unit = 1] /\ turn' = turn
      BY <1>1 DEF Prepared, auth
    <2>2. /\ job' \in JobRow /\ job'.pc = "preflight" /\ job'.unit = 1 /\ job'.plan = auth
          /\ job'.human = job.human
      BY <2>1, <1>0 DEF JobRow, auth
    <2> QED BY <1>1, <2>1, <2>2 DEF auth
  <1>2. CASE ~(job.source # NoPlan /\ ApprovalRefines(job.source, plan)) /\ plan.state = "awaiting_confirmation"
    <2>1. turn' = [turn EXCEPT !.state = "awaiting", !.plan = plan, !.human = FALSE] /\ job' = Idle
      BY <1>2 DEF Prepared
    <2>2. /\ turn' \in TurnRow /\ turn'.barrier = turn.barrier /\ turn'.state = "awaiting"
          /\ turn'.plan = plan /\ turn'.reversion = turn.reversion
      BY <2>1 DEF TurnRow
    <2> QED BY <1>2, <2>1, <2>2, NothingTyped
  <1>3. CASE ~(job.source # NoPlan /\ ApprovalRefines(job.source, plan)) /\ plan.state # "awaiting_confirmation"
    <2>1. job' = [job EXCEPT !.pc = "preflight", !.plan = plan, !.unit = 1, !.human = FALSE] /\ turn' = turn
      BY <1>3 DEF Prepared
    <2>2. job' \in JobRow /\ job'.pc = "preflight" /\ job'.unit = 1 /\ job'.plan = plan
      BY <2>1, <1>0 DEF JobRow
    <2> QED BY <1>3, <2>1, <2>2
  <1> QED BY <1>1, <1>2, <1>3

\* What the model proposes becomes a plan of fresh, previewed steps.
LEMMA ProposedFacts ==
    ASSUME TypeOK, Propose
    PROVE  \E steps \in Seq(StepRow) :
            /\ Len(steps) > 0
            /\ \A i, j \in 1..Len(steps) : steps[i].id = steps[j].id => i = j
            /\ \A i \in 1..Len(steps) : steps[i].state = "previewed"
                                        /\ (RecordSubset(steps[i].cap) => steps[i].recs # {})
                                        /\ steps[i].before \in [steps[i].recs -> Values]
            /\ \A i \in 1..Len(steps) : steps[i].id \notin used /\ steps[i].id \in used'
            /\ used' \subseteq CallIds /\ used \subseteq used'
            /\ Prepared(NewPlan(steps))
  <1>0. PICK n \in 1..MaxSteps :
          \E ids \in {f \in [1..n -> CallIds] : \A i, j \in 1..n : f[i] = f[j] => i = j} :
          \E calls \in [1..n -> {x \in Calls : x[2] \in Targets(x[1])}] :
            LET steps == [i \in 1..n |-> Step(ids[i], calls[i][1], calls[i][2], data)] IN
            /\ Fresh({ids[i] : i \in 1..n})
            /\ \A i \in 1..n : \A r \in calls[i][2] : data[r] # "deleted"
            /\ used' = used \union {ids[i] : i \in 1..n}
            /\ Prepared(NewPlan(steps))
    BY DEF Propose
  <1>1. PICK ids \in {f \in [1..n -> CallIds] : \A i, j \in 1..n : f[i] = f[j] => i = j},
             calls \in [1..n -> {x \in Calls : x[2] \in Targets(x[1])}] :
          /\ Fresh({ids[i] : i \in 1..n})
          /\ used' = used \union {ids[i] : i \in 1..n}
          /\ Prepared(NewPlan([i \in 1..n |-> Step(ids[i], calls[i][1], calls[i][2], data)]))
    BY <1>0
  <1> DEFINE steps == [i \in 1..n |-> Step(ids[i], calls[i][1], calls[i][2], data)]
  <1>2. n \in Nat /\ n > 0
    BY BoundAssumption
  <1>3. ASSUME NEW i \in 1..n
        PROVE  /\ steps[i] \in StepRow /\ steps[i].id = ids[i] /\ steps[i].state = "previewed"
               /\ RecordSubset(steps[i].cap) => steps[i].recs # {}
               /\ steps[i].before \in [steps[i].recs -> Values]
    <2>1. calls[i] \in Calls /\ calls[i][2] \in Targets(calls[i][1])
      OBVIOUS
    <2>2. calls[i][1] \in Capabilities /\ calls[i][2] \in SUBSET Records
      BY <2>1 DEF Calls
    <2>3. Fingerprint(data, calls[i][2]) \in Befores /\ Fingerprint(data, calls[i][2]) \in [calls[i][2] -> Values]
      <3>1. Fingerprint(data, calls[i][2]) \in [calls[i][2] -> Values]
        BY <2>2 DEF Fingerprint, TypeOK
      <3> QED BY <2>2, <3>1 DEF Befores
    <2>4. RecordSubset(calls[i][1]) => calls[i][2] # {}
      BY <2>1 DEF RecordSubset, Targets
    <2>5. ids[i] \in CallIds
      OBVIOUS
    <2> DEFINE before == Fingerprint(data, calls[i][2])
    <2>6. steps[i] = [id |-> ids[i], cap |-> calls[i][1], recs |-> calls[i][2], before |-> before,
                      state |-> "previewed", outcome |-> "none"]
      BY DEF Step
    <2> HIDE DEF before
    <2>7. before \in Befores /\ before \in [calls[i][2] -> Values]
      BY <2>3 DEF before
    <2> HIDE DEF steps
    <2> QED BY <2>2, <2>4, <2>5, <2>6, <2>7 DEF StepRow, Outcomes
  <1>4. steps \in Seq(StepRow) /\ Len(steps) = n
    <2>1. steps \in [1..n -> StepRow]
      BY <1>3
    <2> HIDE DEF steps
    <2> QED BY <1>2, <2>1
  <1> HIDE DEF steps
  <1>5. \A i \in 1..n : steps[i].id \notin used /\ steps[i].id \in used'
    BY <1>1, <1>3 DEF Fresh
  <1>6. used' \subseteq CallIds /\ used \subseteq used'
    BY <1>1 DEF TypeOK
  <1>7. \A i, j \in 1..n : steps[i].id = steps[j].id => i = j
    BY <1>1, <1>3
  <1>8. Prepared(NewPlan(steps))
    BY <1>1 DEF steps
  <1> QED BY <1>2, <1>3, <1>4, <1>5, <1>6, <1>7, <1>8

\* The worker goes on to the next step of its unit or to the unit's end.
LEMMA NextStepFacts ==
    ASSUME job \in JobRow, NEW plan \in PlanRow, NEW copy \in [Records -> Values],
           NEW calls \in [Capabilities -> Nat], NextStep(plan, copy, calls)
    PROVE  /\ job' \in JobRow /\ job'.plan = plan /\ job'.copy = copy
           /\ job'.snap = job.snap /\ job'.unit = job.unit /\ job'.human = job.human
           /\ job'.step = job.step + 1 /\ job'.seen = job.seen
           /\ IF job.step + 1 \in StepsOf(plan, job.unit) THEN job'.pc = "running"
              ELSE job'.pc = "unit_done"
  <1> DEFINE pc == IF job.step + 1 \in StepsOf(plan, job.unit) THEN "running" ELSE "unit_done"
  <1>1. pc \in {"running", "unit_done"}
    OBVIOUS
  <1>2. job' = [job EXCEPT !.plan = plan, !.copy = copy, !.calls = calls, !.step = job.step + 1, !.pc = pc]
    BY DEF NextStep
  <1>3. copy \in Copies
    BY DEF Copies
  <1> HIDE DEF pc
  <1>4. /\ job' \in JobRow /\ job'.plan = plan /\ job'.copy = copy
        /\ job'.snap = job.snap /\ job'.unit = job.unit /\ job'.human = job.human
        /\ job'.step = job.step + 1 /\ job'.seen = job.seen /\ job'.pc = pc
    <2>1. job.step + 1 \in Nat
      BY DEF JobRow
    <2> DEFINE next == job.step + 1
    <2> HIDE DEF next
    <2>2. job' = [job EXCEPT !.plan = plan, !.copy = copy, !.calls = calls, !.step = next, !.pc = pc]
      BY <1>2 DEF next
    <2>3. /\ job' \in JobRow /\ job'.plan = plan /\ job'.copy = copy
          /\ job'.snap = job.snap /\ job'.unit = job.unit /\ job'.human = job.human
          /\ job'.step = next /\ job'.seen = job.seen /\ job'.pc = pc
      BY <1>1, <2>1, <2>2, <1>3 DEF JobRow, next
    <2> QED BY <2>3 DEF next
  <1> QED BY <1>4 DEF pc

-----------------------------------------------------------------------------
(* The shape of plan and worker *)

\* The records of a step that ran are replaced by values.
LEMMA AppliedTyped ==
    ASSUME NEW s \in StepRow, NEW kept, job.copy \in [Records -> Values]
    PROVE  Applied(s, kept) \in [Records -> Values]
  BY DEF Applied, StepRow, Values

\* Behind an approved preflight the unit is executing, in the worker's memory only.
LEMMA PreflightFacts ==
    ASSUME ShapeInv, Preflight
    PROVE  LET plan == [MarkUnit(job.plan, job.unit, "executing") EXCEPT !.state = "executing"] IN
           /\ plan \in PlanRow /\ plan.steps = job.plan.steps /\ plan.unitOf = job.plan.unitOf
           /\ plan.units = MarkUnit(job.plan, job.unit, "executing").units
           /\ Alike(job.plan, plan) /\ Wellformed(plan)
           /\ job' \in JobRow /\ job'.plan = plan /\ job'.pc = "before_unit" /\ job'.unit = job.unit
           /\ job'.human = job.human /\ job'.seen = data
  <1> DEFINE q == MarkUnit(job.plan, job.unit, "executing")
             plan == [q EXCEPT !.state = "executing"]
  <1>1. job \in JobRow /\ job.plan \in PlanRow /\ job.unit \in 1..Len(job.plan.units) /\ Wellformed(job.plan)
        /\ data \in Copies
    BY DEF ShapeInv, TypeOK, Shape, JobRow, Preflight, Copies
  <1>2. q \in PlanRow /\ Alike(job.plan, q) /\ q.steps = job.plan.steps /\ q.unitOf = job.plan.unitOf
    BY <1>1, UnitMarked DEF Alike
  <1>3. job' = [job EXCEPT !.pc = "before_unit", !.plan = plan, !.seen = data]
    BY <1>1 DEF Preflight, MarkUnit, JobRow, PlanRow
  <1> HIDE DEF q
  <1>4. plan \in PlanRow /\ plan.steps = q.steps /\ plan.unitOf = q.unitOf /\ plan.units = q.units
    BY <1>2, PlanMarked DEF PlanStates
  <1> HIDE DEF plan
  <1>5. Alike(job.plan, plan)
    BY <1>2, <1>4 DEF Alike
  <1>6. Wellformed(plan)
    BY <1>1, <1>5, AlikeGrouped
  <1>7. /\ job' \in JobRow /\ job'.plan = plan /\ job'.pc = "before_unit" /\ job'.unit = job.unit
        /\ job'.human = job.human /\ job'.seen = data
    BY <1>1, <1>3, <1>4 DEF JobRow
  <1> QED BY <1>2, <1>4, <1>5, <1>6, <1>7 DEF plan, q

\* The checkpoint before a unit publishes intent and barrier.
LEMMA BeginFacts ==
    ASSUME ShapeInv, BeforeUnit, ~stop, ~SyncRefused(job.plan), ~Collides(job.plan)
    PROVE  /\ rows' = SyncPlan(job.plan) /\ rows' \in [CallIds -> JournalRow]
           /\ turn' \in TurnRow /\ turn'.barrier = TRUE /\ turn'.plan = job.plan /\ turn'.human = job.human
           /\ turn'.state = turn.state /\ turn'.reversion = turn.reversion
           /\ job' \in JobRow /\ job'.pc = "running" /\ job'.plan = job.plan /\ job'.unit = job.unit
           /\ job'.snap = data /\ job'.copy = data /\ job'.human = job.human /\ job'.seen = job.seen
           /\ job'.step \in StepsOf(job.plan, job.unit)
           /\ \A i \in StepsOf(job.plan, job.unit) : job'.step <= i
           /\ UNCHANGED <<used, data, durable, stop>>
  <1>1. /\ job \in JobRow /\ job.plan \in PlanRow /\ job.unit \in 1..Len(job.plan.units)
        /\ Wellformed(job.plan) /\ data \in Copies /\ turn \in TurnRow /\ job.human \in BOOLEAN
        /\ job.plan.steps \in Seq(StepRow) /\ rows \in [CallIds -> JournalRow]
    BY DEF ShapeInv, TypeOK, Shape, JobRow, BeforeUnit, Copies, PlanRow
  <1>2. /\ rows' = SyncPlan(job.plan)
        /\ turn' = [turn EXCEPT !.barrier = TRUE, !.plan = job.plan, !.human = job.human]
        /\ job' = [job EXCEPT !.pc = "running", !.snap = data, !.copy = data,
                              !.step = Min(StepsOf(job.plan, job.unit))]
        /\ UNCHANGED <<used, data, durable, stop>>
    BY DEF BeforeUnit
  <1>3. StepsOf(job.plan, job.unit) # {} /\ StepsOf(job.plan, job.unit) \subseteq Nat
    <2>1. PICK i \in 1..Len(job.plan.steps) : job.plan.unitOf[i] = job.unit
      BY <1>1 DEF Wellformed, Grouped
    <2>2. DOMAIN job.plan.steps = 1..Len(job.plan.steps) /\ DOMAIN job.plan.steps \subseteq Nat
      BY <1>1
    <2> QED BY <2>1, <2>2, Zenon DEF StepsOf
  <1>4. /\ Min(StepsOf(job.plan, job.unit)) \in StepsOf(job.plan, job.unit)
        /\ \A i \in StepsOf(job.plan, job.unit) : Min(StepsOf(job.plan, job.unit)) <= i
    BY <1>3, MinLeast
  <1> DEFINE first == Min(StepsOf(job.plan, job.unit))
  <1>5. first \in Nat
    BY <1>3, <1>4
  <1> HIDE DEF first
  <1>6. /\ job' \in JobRow /\ job'.pc = "running" /\ job'.plan = job.plan /\ job'.unit = job.unit
        /\ job'.snap = data /\ job'.copy = data /\ job'.human = job.human /\ job'.step = first
        /\ job'.seen = job.seen
    BY <1>1, <1>2, <1>5 DEF JobRow, first
  <1>7. /\ turn' \in TurnRow /\ turn'.barrier = TRUE /\ turn'.plan = job.plan /\ turn'.human = job.human
        /\ turn'.state = turn.state /\ turn'.reversion = turn.reversion
    BY <1>1, <1>2 DEF TurnRow
  <1>8. rows' \in [CallIds -> JournalRow]
    BY <1>1, <1>2, SyncTyped
  <1> QED BY <1>2, <1>4, <1>6, <1>7, <1>8 DEF first

\* A step that is skipped because of its dependency.
LEMMA SkipFacts ==
    ASSUME ShapeInv, SkipStep
    PROVE  /\ job.step \in 1..Len(job.plan.steps) /\ job.plan.unitOf[job.step] = job.unit
           /\ job.plan \in PlanRow /\ Wellformed(job.plan)
           /\ job'.plan = MarkStep(job.plan, job.step, "skipped", "skipped")
           /\ job' \in JobRow /\ job'.snap = job.snap /\ job'.copy = job.copy /\ job'.seen = job.seen
           /\ job'.unit = job.unit /\ job'.human = job.human /\ job'.step = job.step + 1
           /\ job.copy \in [Records -> Values] /\ job.snap \in [Records -> Values]
           /\ IF job.step + 1 \in StepsOf(job'.plan, job.unit) THEN job'.pc = "running" ELSE job'.pc = "unit_done"
  <1>1. /\ job \in JobRow /\ job.plan \in PlanRow /\ Wellformed(job.plan) /\ job.step \in StepsOf(job.plan, job.unit)
        /\ job.copy \in [Records -> Values] /\ job.snap \in [Records -> Values]
        /\ job.calls \in [Capabilities -> Nat] /\ job.plan.steps \in Seq(StepRow)
    BY DEF ShapeInv, TypeOK, Shape, JobRow, SkipStep, PlanRow
  <1>2. job.step \in 1..Len(job.plan.steps) /\ job.plan.unitOf[job.step] = job.unit
    BY <1>1 DEF StepsOf
  <1> DEFINE q == MarkStep(job.plan, job.step, "skipped", "skipped")
  <1>3. q \in PlanRow
    BY <1>1, <1>2, StepMarked DEF Resolved
  <1>4. NextStep(q, job.copy, job.calls)
    BY DEF SkipStep, MarkStep
  <1> HIDE DEF q
  <1>5. /\ job' \in JobRow /\ job'.plan = q /\ job'.copy = job.copy /\ job'.seen = job.seen
        /\ job'.snap = job.snap /\ job'.unit = job.unit /\ job'.human = job.human
        /\ job'.step = job.step + 1
        /\ IF job.step + 1 \in StepsOf(q, job.unit) THEN job'.pc = "running" ELSE job'.pc = "unit_done"
    BY <1>1, <1>3, <1>4, NextStepFacts
  <1> QED BY <1>1, <1>2, <1>5 DEF q

\* A step that runs.
LEMMA RunFacts ==
    ASSUME ShapeInv, RunStep
    PROVE  /\ job.step \in 1..Len(job.plan.steps) /\ job.plan.unitOf[job.step] = job.unit
           /\ job.plan \in PlanRow /\ Wellformed(job.plan) /\ Current \in StepRow
           /\ \E outcome \in {"complete", "partial", "blocked"} :
                /\ job'.plan = MarkStep(job.plan, job.step, "completed", outcome)
                /\ outcome # "complete" => ContinueOnError(Current.cap)
           /\ job' \in JobRow /\ job'.snap = job.snap /\ job'.copy \in [Records -> Values]
           /\ job'.seen = job.seen /\ \A r \in Records \ Current.recs : job'.copy[r] = job.copy[r]
           /\ job'.unit = job.unit /\ job'.human = job.human /\ job'.step = job.step + 1
           /\ job.copy \in [Records -> Values] /\ job.snap \in [Records -> Values]
           /\ IF job.step + 1 \in StepsOf(job'.plan, job.unit) THEN job'.pc = "running" ELSE job'.pc = "unit_done"
  <1>1. /\ job \in JobRow /\ job.plan \in PlanRow /\ Wellformed(job.plan) /\ job.step \in StepsOf(job.plan, job.unit)
        /\ job.copy \in [Records -> Values] /\ job.snap \in [Records -> Values]
        /\ job.calls \in [Capabilities -> Nat] /\ job.plan.steps \in Seq(StepRow)
    BY DEF ShapeInv, TypeOK, Shape, JobRow, RunStep, PlanRow
  <1>2. job.step \in 1..Len(job.plan.steps) /\ job.plan.unitOf[job.step] = job.unit
    BY <1>1 DEF StepsOf
  <1>3. Current \in StepRow
    BY <1>1, <1>2 DEF Current
  <1>4. Counted \in [Capabilities -> Nat]
    BY <1>1, <1>3 DEF Counted, StepRow
  <1>5. PICK kept \in IF ContinueOnError(Current.cap) THEN SUBSET Current.recs ELSE {{}} :
          NextStep([job.plan EXCEPT !.steps[job.step].state = "completed",
                                    !.steps[job.step].outcome =
                                       IF kept = {} THEN "complete"
                                       ELSE IF kept = Current.recs THEN "blocked" ELSE "partial"],
                   Applied(Current, kept), Counted)
    BY Zenon DEF RunStep
  <1> DEFINE outcome == IF kept = {} THEN "complete" ELSE IF kept = Current.recs THEN "blocked" ELSE "partial"
             q == MarkStep(job.plan, job.step, "completed", outcome)
             copy == Applied(Current, kept)
  <1>6. outcome \in {"complete", "partial", "blocked"} /\ (outcome # "complete" => ContinueOnError(Current.cap))
    OBVIOUS
  <1>7. NextStep(q, copy, Counted)
    BY <1>5 DEF MarkStep
  <1> HIDE DEF outcome
  <1>8. q \in PlanRow
    BY <1>1, <1>2, <1>6, StepMarked DEF Resolved
  <1>9. copy \in [Records -> Values] /\ \A r \in Records \ Current.recs : copy[r] = job.copy[r]
    BY <1>1, <1>3, AppliedTyped DEF Applied
  <1> HIDE DEF q, copy
  <1>10. /\ job' \in JobRow /\ job'.plan = q /\ job'.copy = copy /\ job'.seen = job.seen
         /\ job'.snap = job.snap /\ job'.unit = job.unit /\ job'.human = job.human
         /\ job'.step = job.step + 1
         /\ IF job.step + 1 \in StepsOf(q, job.unit) THEN job'.pc = "running" ELSE job'.pc = "unit_done"
    BY <1>1, <1>4, <1>7, <1>8, <1>9, NextStepFacts
  <1>11. \E o \in {"complete", "partial", "blocked"} :
                /\ job'.plan = MarkStep(job.plan, job.step, "completed", o)
                /\ o # "complete" => ContinueOnError(Current.cap)
    BY <1>6, <1>10 DEF q
  <1> QED BY <1>1, <1>2, <1>3, <1>9, <1>10, <1>11

\* A step that fails: the journal is classified and the turn ends, or nothing
\* remained of a plan that is one Odoo-local unit and the model may repair it.
LEMMA FailFacts ==
    ASSUME ShapeInv, StepFails
    PROVE  /\ job.step \in 1..Len(job.plan.steps) /\ job.plan.unitOf[job.step] = job.unit
           /\ job.plan \in PlanRow /\ Wellformed(job.plan) /\ Current \in StepRow
           /\ \/ durable' = durable
              \/ durable' = durable \union {Current.id} /\ Mode(Current.cap) # "odoo_atomic"
           /\ ran' = ran \/ ran' = Ran(Current)
           /\ rows' = MarkTurnFailure(turn.plan) /\ rows' \in [CallIds -> JournalRow]
           /\ turn' \in TurnRow /\ job' \in JobRow /\ turn'.reversion = turn.reversion
           /\ \/ /\ turn'.state \in {"recovery_required", "cancelled"} /\ turn'.plan = turn.plan
                 /\ turn'.barrier = turn.barrier /\ job' = Idle
              \/ /\ turn'.barrier = FALSE /\ turn'.plan = NoPlan /\ job'.plan = NoPlan
                 /\ Len(job.plan.units) = 1 /\ job.plan.units[1].mode = "odoo_atomic"
                 /\ AllRolledBack(MarkTurnFailure(turn.plan))
                 /\ \/ job' = Idle /\ turn'.state = "completed"
                    \/ /\ job'.pc = "reasoning" /\ job'.source = job.plan /\ job'.human = job.human
                       /\ turn'.state = turn.state
  <1>1. /\ job \in JobRow /\ job.plan \in PlanRow /\ Wellformed(job.plan) /\ job.step \in StepsOf(job.plan, job.unit)
        /\ job.calls \in [Capabilities -> Nat] /\ job.plan.steps \in Seq(StepRow)
        /\ turn \in TurnRow /\ turn.plan \in PlanRow /\ rows \in [CallIds -> JournalRow]
    BY DEF ShapeInv, TypeOK, Shape, JobRow, TurnRow, StepFails, PlanRow
  <1>2. job.step \in 1..Len(job.plan.steps) /\ job.plan.unitOf[job.step] = job.unit
    BY <1>1 DEF StepsOf
  <1>3. Current \in StepRow
    BY <1>1, <1>2 DEF Current
  <1>4. Counted \in [Capabilities -> Nat]
    BY <1>1, <1>3 DEF Counted, StepRow
  <1>5. /\ \/ durable' = durable
           \/ durable' = durable \union {Current.id} /\ Mode(Current.cap) # "odoo_atomic"
        /\ ran' = ran \/ ran' = Ran(Current)
    BY DEF StepFails
  <1> DEFINE journal == MarkTurnFailure(turn.plan)
             repairable == Len(job.plan.units) = 1 /\ job.plan.units[1].mode = "odoo_atomic"
             calls == IF LimitReached THEN job.calls ELSE Counted
  <1>6. calls \in [Capabilities -> Nat]
    BY <1>1, <1>4
  <1>7. IF ~repairable \/ (~stop /\ ~AllRolledBack(journal))
        THEN turn' = [turn EXCEPT !.state = "recovery_required"] /\ rows' = journal /\ job' = Idle
        ELSE IF stop
        THEN turn' = [turn EXCEPT !.state = "cancelled"] /\ rows' = journal /\ job' = Idle
        ELSE Repaired(job.plan, calls) /\ rows' = journal
    BY DEF StepFails
  <1>8. journal \in [CallIds -> JournalRow]
    BY <1>1, FailureTyped
  <1> HIDE DEF journal, calls
  <1>9. rows' = journal
    BY <1>7
  <1> DEFINE Facts == \/ /\ turn'.state \in {"recovery_required", "cancelled"} /\ turn'.plan = turn.plan
                         /\ turn'.barrier = turn.barrier /\ job' = Idle
                      \/ /\ turn'.barrier = FALSE /\ turn'.plan = NoPlan /\ job'.plan = NoPlan
                         /\ Len(job.plan.units) = 1 /\ job.plan.units[1].mode = "odoo_atomic"
                         /\ AllRolledBack(journal)
                         /\ \/ job' = Idle /\ turn'.state = "completed"
                            \/ /\ job'.pc = "reasoning" /\ job'.source = job.plan /\ job'.human = job.human
                               /\ turn'.state = turn.state
  <1>10. turn' \in TurnRow /\ job' \in JobRow /\ Facts /\ turn'.reversion = turn.reversion
    <2>1. ASSUME NEW state \in {"recovery_required", "cancelled"}, turn' = [turn EXCEPT !.state = state], job' = Idle
          PROVE  turn' \in TurnRow /\ job' \in JobRow /\ Facts /\ turn'.reversion = turn.reversion
      <3>1. turn' \in TurnRow /\ turn'.state = state /\ turn'.plan = turn.plan /\ turn'.barrier = turn.barrier
              /\ turn'.reversion = turn.reversion
        BY <1>1, <2>1 DEF TurnRow, Terminal
      <3> QED BY <2>1, <3>1, NothingTyped
    <2>2. CASE repairable /\ ~stop /\ AllRolledBack(journal)
      <3>1. Repaired(job.plan, calls)
        BY <1>7, <2>2
      <3>2. /\ turn' \in TurnRow /\ turn'.barrier = FALSE /\ turn'.plan = NoPlan /\ turn'.reversion = turn.reversion
            /\ job' \in JobRow /\ job'.plan = NoPlan
            /\ \/ job' = Idle /\ turn'.state = "completed"
               \/ /\ job'.pc = "reasoning" /\ job'.source = job.plan /\ job'.human = job.human
                  /\ turn'.state = turn.state
        BY <1>1, <1>6, <3>1, RepairedFacts
      <3> QED BY <2>2, <3>2
    <2>3. CASE ~repairable \/ (~stop /\ ~AllRolledBack(journal))
      BY <1>7, <2>1, <2>3
    <2>4. CASE repairable /\ stop
      BY <1>7, <2>1, <2>4
    <2> QED BY <2>2, <2>3, <2>4
  <1> QED BY <1>1, <1>2, <1>3, <1>5, <1>8, <1>9, <1>10 DEF journal

Saved == [r \in Records |-> IF job.copy[r] # job.snap[r] THEN job.copy[r] ELSE data[r]]

\* The checkpoint after a unit, and the one that finishes the plan.
LEMMA DoneFacts ==
    ASSUME ShapeInv, job.pc = "unit_done"
    PROVE  /\ job.plan \in PlanRow /\ Wellformed(job.plan) /\ job.unit \in 1..Len(job.plan.units)
           /\ MarkUnit(job.plan, job.unit, "completed") \in PlanRow
           /\ Wellformed(MarkUnit(job.plan, job.unit, "completed"))
           /\ Saved \in [Records -> Values]
  <1>1. /\ job.plan \in PlanRow /\ Wellformed(job.plan) /\ job.unit \in 1..Len(job.plan.units)
        /\ job.copy \in [Records -> Values] /\ data \in [Records -> Values]
    BY DEF ShapeInv, TypeOK, Shape, JobRow
  <1>2. /\ MarkUnit(job.plan, job.unit, "completed") \in PlanRow
        /\ Alike(job.plan, MarkUnit(job.plan, job.unit, "completed"))
    BY <1>1, UnitMarked
  <1>3. Wellformed(MarkUnit(job.plan, job.unit, "completed"))
    BY <1>1, <1>2, AlikeGrouped
  <1>4. Saved \in [Records -> Values]
    BY <1>1 DEF Saved
  <1> QED BY <1>1, <1>2, <1>3, <1>4

\* A unit that is not the last one.
LEMMA AfterFacts ==
    ASSUME ShapeInv, AfterUnit
    PROVE  LET plan == MarkUnit(job.plan, job.unit, "completed") IN
           /\ rows' = SyncPlan(plan) /\ rows' \in [CallIds -> JournalRow]
           /\ turn' \in TurnRow /\ turn'.state = turn.state /\ turn'.barrier = turn.barrier
           /\ turn'.plan = plan /\ turn'.human = turn.human /\ turn'.reversion = turn.reversion
           /\ job' \in JobRow /\ job'.pc = "preflight" /\ job'.plan = plan /\ job'.unit = job.unit + 1
           /\ job'.human = job.human /\ job.unit + 1 \in 1..Len(plan.units)
           /\ data' = Saved /\ durable' = durable \union CompletedIds
           /\ UNCHANGED <<used, stop>>
  <1> DEFINE plan == MarkUnit(job.plan, job.unit, "completed")
  <1>1. /\ job \in JobRow /\ turn \in TurnRow /\ rows \in [CallIds -> JournalRow] /\ job.unit \in Nat
        /\ job.pc = "unit_done" /\ job.unit < Len(job.plan.units)
    BY DEF ShapeInv, TypeOK, JobRow, AfterUnit
  <1>2. /\ rows' = SyncPlan(plan) /\ turn' = [turn EXCEPT !.plan = plan] /\ data' = Saved
        /\ job' = [job EXCEPT !.pc = "preflight", !.plan = plan, !.unit = job.unit + 1]
        /\ durable' = durable \union CompletedIds /\ UNCHANGED <<used, stop>>
    BY DEF AfterUnit, MarkUnit, Saved
  <1>3. /\ job.plan \in PlanRow /\ job.unit \in 1..Len(job.plan.units)
        /\ plan \in PlanRow /\ Wellformed(plan) /\ Len(plan.units) = Len(job.plan.units)
    BY <1>1, DoneFacts, UnitMarked
  <1> HIDE DEF plan
  <1> DEFINE next == job.unit + 1
  <1>4. next \in Nat /\ next \in 1..Len(plan.units)
    BY <1>1, <1>3 DEF PlanRow
  <1> HIDE DEF next
  <1>5. /\ job' \in JobRow /\ job'.pc = "preflight" /\ job'.plan = plan /\ job'.unit = next
        /\ job'.human = job.human
    BY <1>1, <1>2, <1>3, <1>4 DEF JobRow, next
  <1>6. /\ turn' \in TurnRow /\ turn'.state = turn.state /\ turn'.barrier = turn.barrier
        /\ turn'.plan = plan /\ turn'.human = turn.human /\ turn'.reversion = turn.reversion
    BY <1>1, <1>2, <1>3 DEF TurnRow
  <1>7. rows' \in [CallIds -> JournalRow]
    BY <1>1, <1>2, <1>3, SyncTyped
  <1> QED BY <1>2, <1>4, <1>5, <1>6, <1>7 DEF plan, next

\* The last unit.
LEMMA FinishFacts ==
    ASSUME ShapeInv, FinishPlan
    PROVE  LET plan == [MarkUnit(job.plan, job.unit, "completed") EXCEPT !.state = "completed"] IN
           /\ plan \in PlanRow /\ Wellformed(plan) /\ plan.steps = job.plan.steps
           /\ plan.unitOf = job.plan.unitOf
           /\ plan.units = MarkUnit(job.plan, job.unit, "completed").units
           /\ rows' = SyncPlan(plan) /\ rows' \in [CallIds -> JournalRow]
           /\ turn' \in TurnRow /\ turn'.state = "completed" /\ turn'.barrier = turn.barrier
           /\ turn'.plan = plan /\ turn'.human = turn.human /\ turn'.reversion \in {"available", "unavailable"}
           /\ data' = Saved /\ durable' = durable \union CompletedIds /\ job' = Idle
           /\ UNCHANGED <<used, stop>>
  <1> DEFINE q == MarkUnit(job.plan, job.unit, "completed")
             plan == [q EXCEPT !.state = "completed"]
             rev == ReversionState(plan)
  <1>1. /\ turn \in TurnRow /\ rows \in [CallIds -> JournalRow] /\ job.pc = "unit_done"
    BY DEF ShapeInv, TypeOK, FinishPlan
  <1>2. /\ rows' = SyncPlan(plan) /\ data' = Saved
        /\ turn' = [turn EXCEPT !.plan = plan, !.state = "completed", !.reversion = rev]
        /\ durable' = durable \union CompletedIds /\ job' = Idle /\ UNCHANGED <<used, stop>>
    BY DEF FinishPlan, MarkUnit, Saved
  <1>3. /\ job.plan \in PlanRow /\ job.unit \in 1..Len(job.plan.units) /\ q \in PlanRow /\ Wellformed(q)
        /\ q.steps = job.plan.steps /\ q.unitOf = job.plan.unitOf
    BY <1>1, DoneFacts, UnitMarked DEF Alike
  <1> HIDE DEF q
  <1>4. plan \in PlanRow /\ plan.steps = q.steps /\ plan.unitOf = q.unitOf /\ plan.units = q.units
    BY <1>3, PlanMarked DEF PlanStates
  <1> HIDE DEF plan
  <1>5. rev \in {"available", "unavailable"}
    BY DEF ReversionState
  <1> HIDE DEF rev
  <1>6. Wellformed(plan)
    BY <1>3, <1>4 DEF Wellformed
  <1>7. /\ turn' \in TurnRow /\ turn'.state = "completed" /\ turn'.barrier = turn.barrier
        /\ turn'.plan = plan /\ turn'.human = turn.human /\ turn'.reversion \in {"available", "unavailable"}
    BY <1>1, <1>2, <1>4, <1>5 DEF TurnRow, Terminal
  <1>8. rows' \in [CallIds -> JournalRow]
    BY <1>1, <1>2, <1>4, <1>6, SyncTyped
  <1> QED BY <1>2, <1>3, <1>4, <1>6, <1>7, <1>8 DEF plan, q

\* One compensation, and the equation of the recursion in Compensated.
Undone(s, d) == [r \in Records |-> IF r \in s.recs THEN s.before[r] ELSE d[r]]

Undo(s, prev) ==
    IF prev.ok /\ MayRestore(prev.data, s) THEN [ok |-> TRUE, data |-> Undone(s, prev.data)]
    ELSE [ok |-> FALSE, data |-> data]

UndoEquation(plan, g) ==
    [k \in 0..Len(plan.steps) |-> IF k = 0 THEN [ok |-> TRUE, data |-> data]
                                  ELSE Undo(plan.steps[Len(plan.steps) + 1 - k], g[k - 1])]

\* The recursion of compensate defines a function.
LEMMA UndoExists ==
    ASSUME NEW plan \in PlanRow
    PROVE  \E g : g = UndoEquation(plan, g) /\ Compensated(plan) = g[Len(plan.steps)]
  <1> DEFINE n == Len(plan.steps)
             Row(k, prev) == Undo(plan.steps[n + 1 - k], prev)
             Eq(m, g) == g = [k \in 0..m |-> IF k = 0 THEN [ok |-> TRUE, data |-> data] ELSE Row(k, g[k - 1])]
             Bad == {m \in Nat : m <= n /\ ~(\E g : Eq(m, g))}
  <1>1. n \in Nat
    BY DEF PlanRow
  <1> HIDE DEF Row
  <1>2. Bad = {}
    <2> SUFFICES ASSUME Bad # {} PROVE FALSE
      OBVIOUS
    <2>1. PICK m \in Bad : \A y \in Bad : m <= y
      BY LeastNat
    <2>2. CASE m = 0
      <3>1. Eq(0, [k \in 0..0 |-> [ok |-> TRUE, data |-> data]])
        OBVIOUS
      <3> QED BY <3>1, <2>1, <2>2
    <2>3. CASE m # 0
      <3>1. m - 1 \in Nat /\ m - 1 \notin Bad /\ m - 1 <= n
        <4>1. m \in Nat /\ m <= n
          OBVIOUS
        <4> HIDE DEF Bad
        <4> QED BY <4>1, <2>1, <2>3, <1>1
      <3>2. PICK g : Eq(m - 1, g)
        BY <3>1
      <3> DEFINE h == [k \in 0..m |-> IF k = m THEN Row(m, g[m - 1]) ELSE g[k]]
      <3>3. ASSUME NEW k \in 0..m
            PROVE  h[k] = IF k = 0 THEN [ok |-> TRUE, data |-> data] ELSE Row(k, h[k - 1])
        <4>1. CASE k = m
          BY <4>1, <2>1, <2>3
        <4>2. CASE k # m
          <5>1. k \in 0..(m - 1) /\ h[k] = g[k] /\ (k # 0 => h[k - 1] = g[k - 1])
            BY <4>2, <2>1, <2>3
          <5>2. g[k] = IF k = 0 THEN [ok |-> TRUE, data |-> data] ELSE Row(k, g[k - 1])
            BY <3>2, <5>1
          <5> HIDE DEF h
          <5> QED BY <5>1, <5>2
        <4> QED BY <4>1, <4>2
      <3>4. h = [k \in 0..m |-> h[k]]
        OBVIOUS
      <3> HIDE DEF h
      <3>5. Eq(m, h)
        BY <3>3, <3>4
      <3> QED BY <3>5, <2>1
    <2> QED BY <2>2, <2>3
  <1>3. \E g : Eq(n, g)
    BY <1>1, <1>2
  <1>4. \E g : g = UndoEquation(plan, g)
    BY <1>3 DEF UndoEquation, Row
  <1> DEFINE after == CHOOSE g : g = UndoEquation(plan, g)
  <1>5. after = UndoEquation(plan, after)
    BY <1>4
  <1>6. Compensated(plan) = after[n]
    BY DEF Compensated, UndoEquation, Undo, Undone
  <1> QED BY <1>5, <1>6

\* All or nothing: when every compensator agreed, each record is back at the
\* value it had before the first step that wrote it.
LEMMA CompensatedFacts ==
    ASSUME NEW plan \in PlanRow, data \in [Records -> Values],
           \A i \in 1..Len(plan.steps) : plan.steps[i].before \in [plan.steps[i].recs -> Values]
    PROVE  /\ Compensated(plan).data \in [Records -> Values]
           /\ Compensated(plan).ok =>
                \A i \in 1..Len(plan.steps) : \A r \in plan.steps[i].recs :
                    (\A j \in 1..(i - 1) : r \notin plan.steps[j].recs)
                        => Compensated(plan).data[r] = plan.steps[i].before[r]
  <1> DEFINE n == Len(plan.steps)
             st(i) == plan.steps[i]
  <1>1. n \in Nat /\ \A i \in 1..n : st(i) \in StepRow
    BY DEF PlanRow
  <1>2. \A i \in 1..n : st(i).recs \subseteq Records /\ st(i).before \in [st(i).recs -> Values]
    BY <1>1 DEF StepRow
  <1>3. PICK g : g = UndoEquation(plan, g) /\ Compensated(plan) = g[n]
    BY UndoExists
  <1>4. /\ g[0] = [ok |-> TRUE, data |-> data]
        /\ \A k \in 1..n : g[k] = Undo(st(n + 1 - k), g[k - 1])
    <2>1. ASSUME NEW k \in 0..n
          PROVE  UndoEquation(plan, g)[k] = IF k = 0 THEN [ok |-> TRUE, data |-> data] ELSE Undo(st(n + 1 - k), g[k - 1])
      BY DEF UndoEquation
    <2>2. ASSUME NEW k \in 0..n PROVE g[k] = UndoEquation(plan, g)[k]
      BY <1>3
    <2>3. 0 \in 0..n /\ \A k \in 1..n : k \in 0..n /\ k # 0
      BY <1>1
    <2> HIDE DEF n, st
    <2> QED BY <2>1, <2>2, <2>3
  <1> HIDE DEF n, st
  <1> DEFINE Good(k) ==
                /\ g[k].data \in [Records -> Values]
                /\ g[k].ok =>
                    \A i \in 1..n : \A r \in st(i).recs :
                        (i >= n + 1 - k /\ \A j \in 1..n : (n + 1 - k <= j /\ j < i) => r \notin st(j).recs)
                            => g[k].data[r] = st(i).before[r]
             Bad == {k \in Nat : k <= n /\ ~Good(k)}
  <1>5. Bad = {}
    <2> SUFFICES ASSUME Bad # {} PROVE FALSE
      OBVIOUS
    <2>1. PICK k \in Bad : \A y \in Bad : k <= y
      BY LeastNat
    <2>2. k \in Nat /\ k <= n /\ ~Good(k)
      OBVIOUS
    <2>3. k # 0
      <3>1. g[0].data = data
        BY <1>4
      <3>2. ASSUME NEW i \in 1..n PROVE ~(i >= n + 1 - 0)
        BY <1>1
      <3>3. Good(0)
        BY <3>1, <3>2
      <3> QED BY <2>2, <3>3
    <2>4. k - 1 \in Nat /\ k - 1 \notin Bad /\ k - 1 <= n /\ k \in 1..n
      <3> HIDE DEF Bad
      <3> QED BY <2>1, <2>2, <2>3, <1>1
    <2>5. Good(k - 1)
      BY <2>4
    <2> DEFINE m == n + 1 - k
               d == g[k - 1].data
    <2>6. m \in 1..n /\ g[k] = Undo(st(m), g[k - 1]) /\ n + 1 - (k - 1) = m + 1
      BY <1>1, <1>4, <2>4
    <2>7. d \in [Records -> Values]
      BY <2>5
    <2>8. /\ Undone(st(m), d) \in [Records -> Values]
          /\ \A r \in Records : Undone(st(m), d)[r] = IF r \in st(m).recs THEN st(m).before[r] ELSE d[r]
      BY <1>2, <2>6, <2>7 DEF Undone
    <2>9. CASE g[k - 1].ok /\ MayRestore(d, st(m))
      <3>1. g[k].data = Undone(st(m), d)
        BY <2>6, <2>9 DEF Undo
      <3>2. ASSUME NEW i \in 1..n, NEW r \in st(i).recs, i >= m,
                   \A j \in 1..n : (m <= j /\ j < i) => r \notin st(j).recs
            PROVE  g[k].data[r] = st(i).before[r]
        <4>1. r \in Records
          BY <1>2
        <4>2. CASE i = m
          BY <2>8, <3>1, <4>1, <4>2
        <4>3. CASE i # m
          <5>1. i \in Int /\ m \in Int /\ m < i /\ i >= m + 1
            BY <1>1, <2>6, <3>2, <4>3
          <5>2. r \notin st(m).recs
            BY <2>6, <3>2, <5>1
          <5>3. \A j \in 1..n : (m + 1 <= j /\ j < i) => r \notin st(j).recs
            BY <2>6, <3>2
          <5>4. d[r] = st(i).before[r]
            <6> HIDE DEF m
            <6> QED BY <2>5, <2>6, <2>9, <5>1, <5>3
          <5> QED BY <2>8, <3>1, <4>1, <5>2, <5>4
        <4> QED BY <4>2, <4>3
      <3> HIDE DEF d
      <3>3. Good(k)
        BY <2>8, <3>1, <3>2
      <3> QED BY <3>3, <2>2
    <2>10. CASE ~(g[k - 1].ok /\ MayRestore(d, st(m)))
      <3>1. g[k] = [ok |-> FALSE, data |-> data]
        BY <2>6, <2>10 DEF Undo
      <3>2. Good(k)
        BY <3>1
      <3> QED BY <3>2, <2>2
    <2> QED BY <2>9, <2>10
  <1>6. Good(n)
    BY <1>1, <1>5
  <1>7. ASSUME g[n].ok, NEW i \in 1..n, NEW r \in st(i).recs, \A j \in 1..(i - 1) : r \notin st(j).recs
        PROVE  g[n].data[r] = st(i).before[r]
    <2>1. i >= n + 1 - n
      BY <1>1
    <2>2. \A j \in 1..n : (n + 1 - n <= j /\ j < i) => r \notin st(j).recs
      BY <1>1, <1>7
    <2> QED BY <1>6, <1>7, <2>1, <2>2
  <1> QED BY <1>3, <1>6, <1>7 DEF n, st

\* What the history records of a step.
LEMMA RanTyped ==
    ASSUME ShapeInv, job.pc = "running"
    PROVE  /\ Ran(Current) \in Seq(RanRow) /\ Len(Ran(Current)) = Len(ran) + 1
           /\ \A k \in 1..Len(ran) : Ran(Current)[k] = ran[k]
           /\ LET last == Ran(Current)[Len(ran) + 1] IN
              /\ last.cap = Current.cap /\ last.recs = Current.recs /\ last.human = job.human
              /\ last.dep = IF job.step = 1 THEN "none" ELSE job.plan.steps[job.step - 1].outcome
  <1>1. /\ job \in JobRow /\ job.plan.steps \in Seq(StepRow) /\ job.step \in 1..Len(job.plan.steps)
        /\ ran \in Seq(RanRow) /\ job.human \in BOOLEAN /\ job.seen \in Copies
    BY DEF ShapeInv, TypeOK, Shape, JobRow, PlanRow, StepsOf
  <1>2. Current \in StepRow
    BY <1>1 DEF Current
  <1> DEFINE dep == IF job.step = 1 THEN "none" ELSE job.plan.steps[job.step - 1].outcome
             last == [id |-> Current.id, cap |-> Current.cap, recs |-> Current.recs, human |-> job.human,
                      fresh |-> job.seen, before |-> Current.before, dep |-> dep]
  <1>3. dep \in Outcomes
    <2>1. CASE job.step = 1
      BY <2>1 DEF Outcomes
    <2>2. CASE job.step # 1
      <3>1. job.plan.steps[job.step - 1] \in StepRow
        BY <1>1, <2>2
      <3> QED BY <3>1, <2>2 DEF StepRow
    <2> QED BY <2>1, <2>2
  <1>4. Ran(Current) = Append(ran, last)
    BY DEF Ran
  <1> HIDE DEF dep
  <1>5. /\ last \in RanRow /\ last.cap = Current.cap /\ last.recs = Current.recs /\ last.human = job.human
        /\ last.dep = dep
    BY <1>1, <1>2, <1>3 DEF RanRow, StepRow
  <1> HIDE DEF last
  <1>6. /\ Append(ran, last) \in Seq(RanRow) /\ Len(Append(ran, last)) = Len(ran) + 1
        /\ Append(ran, last)[Len(ran) + 1] = last
        /\ \A k \in 1..Len(ran) : Append(ran, last)[k] = ran[k]
    BY <1>1, <1>5
  <1> QED BY <1>4, <1>5, <1>6 DEF dep

\* The turn starts with nothing prepared.
LEMMA ShapeInit ==
    Init => ShapeInv
  <1> SUFFICES ASSUME Init PROVE ShapeInv
    OBVIOUS
  <1>1. job = [Idle EXCEPT !.pc = "reasoning"]
    BY DEF Init
  <1>2. job \in JobRow /\ job.plan = NoPlan /\ job.pc = "reasoning"
    BY <1>1, NothingTyped DEF JobRow
  <1>3. turn \in TurnRow /\ turn.plan = NoPlan /\ turn.state = "running"
    BY NothingTyped DEF Init, TurnRow, Terminal
  <1>4. rows \in [CallIds -> JournalRow]
    BY DEF Init, NoRow, JournalRow
  <1>5. data \in [Records -> Values]
    BY DEF Init, Values
  <1>6. used = {} /\ durable = {} /\ stop = FALSE /\ ran = << >> /\ ran \in Seq(RanRow)
    BY DEF Init
  <1> QED BY <1>2, <1>3, <1>4, <1>5, <1>6 DEF ShapeInv, TypeOK, Shape

\* A well-formed plan has a first unit.
LEMMA FirstUnit ==
    ASSUME NEW p \in PlanRow, Wellformed(p)
    PROVE  1 \in 1..Len(p.units)
  <1>1. p.units \in Seq(UnitRow) /\ p.steps \in Seq(StepRow)
    BY DEF PlanRow
  <1>2. p.unitOf[1] \in 1..Len(p.units)
    BY <1>1 DEF Wellformed, Grouped
  <1> QED BY <1>1, <1>2

\* Whatever the step, a type-correct turn stays one, and the worker stays at a
\* step of a unit of a well-formed plan.
LEMMA ShapeStep ==
    ASSUME ShapeInv, [Next]_vars
    PROVE  ShapeInv'
  <1>0. /\ TypeOK /\ Shape /\ turn \in TurnRow /\ job \in JobRow /\ job.plan \in PlanRow /\ turn.plan \in PlanRow
        /\ job.source \in PlanRow /\ job.calls \in [Capabilities -> Nat] /\ rows \in [CallIds -> JournalRow]
        /\ ran \in Seq(RanRow) /\ durable \subseteq CallIds /\ used \subseteq CallIds
        /\ data \in [Records -> Values] /\ stop \in BOOLEAN
    BY DEF ShapeInv, TypeOK, JobRow, TurnRow
  <1>1. CASE UNCHANGED vars
    BY <1>0, <1>1 DEF ShapeInv, TypeOK, Shape, vars, StepsOf
  <1>2. CASE Answer
    <2>1. turn' = [turn EXCEPT !.state = "completed"] /\ job' = Idle /\ UNCHANGED <<used, rows, data, durable, stop, ran>>
      BY <1>2 DEF Answer, Fixed
    <2>2. turn' \in TurnRow /\ turn'.plan = turn.plan /\ turn'.state = "completed"
      BY <1>0, <2>1 DEF TurnRow, Terminal
    <2> QED BY <1>0, <2>1, <2>2, NothingTyped DEF ShapeInv, TypeOK, Shape
  <1>3. CASE Propose
    <2>1. PICK steps \in Seq(StepRow) :
            /\ Len(steps) > 0
            /\ \A i, j \in 1..Len(steps) : steps[i].id = steps[j].id => i = j
            /\ \A i \in 1..Len(steps) : steps[i].state = "previewed"
                                        /\ (RecordSubset(steps[i].cap) => steps[i].recs # {})
                                        /\ steps[i].before \in [steps[i].recs -> Values]
            /\ used' \subseteq CallIds
            /\ Prepared(NewPlan(steps))
      BY <1>0, <1>3, ProposedFacts
    <2> DEFINE plan == NewPlan(steps)
               auth == [plan EXCEPT !.state = "authorized"]
    <2>2. plan \in PlanRow /\ Wellformed(plan) /\ Prepared(plan)
      BY <2>1, NewPlanUnstarted DEF Unstarted
    <2> HIDE DEF plan
    <2>3. Wellformed(auth)
      <3>1. auth.steps = plan.steps /\ auth.unitOf = plan.unitOf /\ auth.units = plan.units
        BY <2>2, PlanMarked DEF PlanStates
      <3> QED BY <2>2, <3>1 DEF Wellformed
    <2>6. auth \in PlanRow
      BY <2>2, PlanMarked DEF PlanStates
    <2> HIDE DEF auth
    <2>4. /\ turn' \in TurnRow /\ job' \in JobRow
          /\ \/ turn' = turn /\ job'.pc = "preflight" /\ job'.unit = 1 /\ job'.plan = auth
             \/ turn'.plan = plan /\ job' = Idle /\ turn'.state = "awaiting"
             \/ turn' = turn /\ job'.pc = "preflight" /\ job'.unit = 1 /\ job'.plan = plan
      BY <1>0, <2>2, PreparedFacts DEF auth
    <2>5. 1 \in 1..Len(plan.units) /\ 1 \in 1..Len(auth.units)
      BY <2>2, <2>3, <2>6, FirstUnit
    <2>7. UNCHANGED <<rows, data, durable, stop, ran>>
      BY <1>3 DEF Propose, Fixed
    <2>8. TypeOK'
      BY <1>0, <2>1, <2>4, <2>7 DEF TypeOK
    <2>9. Shape'
      <3>1. turn.state = "running"
        BY <1>0, <1>3 DEF Shape, Propose
      <3> QED BY <3>1, <1>0, <2>2, <2>3, <2>4, <2>5, <2>6, NothingTyped DEF Shape
    <2> QED BY <2>8, <2>9 DEF ShapeInv
  <1>4. CASE PrepareFails
    <2>1. Repaired(job.source, job.calls) /\ UNCHANGED <<used, rows, data, durable, stop, ran>>
      BY <1>4 DEF PrepareFails, Fixed
    <2>2. /\ turn' \in TurnRow /\ turn'.plan = NoPlan /\ job' \in JobRow /\ job'.plan = NoPlan
          /\ \/ job'.pc = "idle" /\ turn'.state = "completed"
             \/ job'.pc = "reasoning" /\ turn'.state = turn.state
      BY <1>0, <2>1, RepairedFacts, NothingTyped
    <2>3. turn.state = "running"
      BY <1>0, <1>4 DEF Shape, PrepareFails
    <2> QED BY <1>0, <2>1, <2>2, <2>3 DEF ShapeInv, TypeOK, Shape
  <1>5. CASE Approve
    <2> DEFINE q == [turn.plan EXCEPT !.state = "authorized"]
    <2>1. turn' = [turn EXCEPT !.state = "queued", !.human = TRUE, !.plan = q]
          /\ UNCHANGED <<used, rows, data, durable, job, stop, ran>>
      BY <1>0, <1>5 DEF Approve, TurnRow
    <2>2. q \in PlanRow /\ q.steps = turn.plan.steps /\ q.unitOf = turn.plan.unitOf /\ q.units = turn.plan.units
      BY <1>0, PlanMarked DEF PlanStates
    <2> HIDE DEF q
    <2>3. turn' \in TurnRow /\ turn'.plan = q /\ turn'.state = "queued"
      BY <1>0, <2>1, <2>2 DEF TurnRow
    <2>4. job.pc = "idle" /\ Wellformed(turn.plan)
      BY <1>0, <1>5 DEF Approve, Shape
    <2> QED BY <2>4, <1>0, <2>1, <2>2, <2>3 DEF ShapeInv, TypeOK, Shape, Wellformed
  <1>6. CASE Reject
    <2> DEFINE q == [turn.plan EXCEPT !.state = "rejected"]
    <2>1. turn' = [turn EXCEPT !.state = "completed", !.plan = q]
          /\ UNCHANGED <<used, rows, data, durable, job, stop, ran>>
      BY <1>0, <1>6 DEF Reject, TurnRow, Fixed
    <2>2. q \in PlanRow /\ q.steps = turn.plan.steps /\ q.unitOf = turn.plan.unitOf /\ q.units = turn.plan.units
      BY <1>0, PlanMarked DEF PlanStates
    <2> HIDE DEF q
    <2>3. turn' \in TurnRow /\ turn'.plan = q /\ turn'.state = "completed"
      BY <1>0, <2>1, <2>2 DEF TurnRow, Terminal
    <2>4. job.pc = "idle" /\ Wellformed(turn.plan)
      BY <1>0, <1>6 DEF Reject, Shape
    <2> QED BY <2>4, <1>0, <2>1, <2>2, <2>3 DEF ShapeInv, TypeOK, Shape, Wellformed
  <1>7. CASE Resume
    <2>1. turn' = [turn EXCEPT !.state = "running"] /\ UNCHANGED <<used, rows, data, durable, stop, ran>>
      BY <1>7 DEF Resume, Fixed
    <2>2. turn' \in TurnRow /\ turn'.plan = turn.plan /\ turn'.state = "running"
      BY <1>0, <2>1 DEF TurnRow
    <2>3. CASE turn.plan = NoPlan
      <3>1. job' = [Idle EXCEPT !.pc = "reasoning"]
        BY <1>7, <2>3 DEF Resume
      <3>2. job' \in JobRow /\ job'.pc = "reasoning" /\ job'.plan = NoPlan
        BY <3>1, NothingTyped DEF JobRow
      <3> QED BY <1>0, <2>1, <2>2, <3>2 DEF ShapeInv, TypeOK, Shape
    <2>4. CASE turn.plan # NoPlan
      <3>1. job' = [Idle EXCEPT !.pc = "preflight", !.plan = turn.plan, !.human = turn.human, !.unit = 1]
        BY <1>7, <2>4 DEF Resume
      <3>2. job' \in JobRow /\ job'.pc = "preflight" /\ job'.plan = turn.plan /\ job'.unit = 1
        <4>1. turn.human \in BOOLEAN
          BY <1>0 DEF TurnRow
        <4> QED BY <1>0, <4>1, <3>1, NothingTyped DEF JobRow
      <3>3. Wellformed(turn.plan) /\ 1 \in 1..Len(turn.plan.units)
        BY <1>0, <2>4, FirstUnit DEF Shape
      <3> QED BY <1>0, <2>1, <2>2, <3>2, <3>3 DEF ShapeInv, TypeOK, Shape
    <2> QED BY <2>3, <2>4
  <1>8. ASSUME NEW state \in Terminal, EndFailed(state), ran' = ran PROVE ShapeInv'
    <2>1. /\ turn' \in TurnRow /\ turn'.state = state /\ turn'.plan = turn.plan
          /\ rows' \in [CallIds -> JournalRow] /\ job' = Idle /\ UNCHANGED <<used, data, durable, stop>>
      BY <1>0, <1>8, EndFacts
    <2>2. state # "awaiting"
      BY DEF Terminal
    <2> QED BY <1>0, <1>8, <2>1, <2>2, NothingTyped DEF ShapeInv, TypeOK, Shape
  <1>9. (Fail \/ Cancel) /\ UNCHANGED Fixed => ShapeInv'
    BY <1>8 DEF Fail, Cancel, Terminal, Fixed
  <1>10. CASE PreflightFails
    <2>1. CASE turn.barrier \/ stop
      BY <1>9, <1>10, <2>1 DEF PreflightFails
    <2>2. CASE ~turn.barrier /\ ~stop
      <3>1. Repaired(job.plan, job.calls) /\ UNCHANGED <<used, rows, data, durable, stop, ran>>
        BY <1>10, <2>2 DEF PreflightFails, Fixed
      <3>2. /\ turn' \in TurnRow /\ turn'.plan = NoPlan /\ job' \in JobRow /\ job'.plan = NoPlan
            /\ \/ job'.pc = "idle" /\ turn'.state = "completed"
               \/ job'.pc = "reasoning" /\ turn'.state = turn.state
        BY <1>0, <3>1, RepairedFacts, NothingTyped
      <3>3. turn.state = "running"
        BY <1>0, <1>10 DEF Shape, PreflightFails
      <3> QED BY <1>0, <3>1, <3>2, <3>3 DEF ShapeInv, TypeOK, Shape
    <2> QED BY <2>1, <2>2
  <1>11. CASE Preflight
    <2>1. /\ job' \in JobRow /\ job'.pc = "before_unit" /\ job'.unit = job.unit /\ Wellformed(job'.plan)
          /\ Alike(job.plan, job'.plan)
      BY <1>11, PreflightFacts
    <2>2. UNCHANGED <<turn, used, rows, data, durable, stop, ran>> /\ job.pc = "preflight"
      BY <1>11 DEF Preflight, Fixed
    <2> QED BY <1>0, <2>1, <2>2 DEF ShapeInv, TypeOK, Shape, Alike
  <1>12. CASE OverBudget
    BY <1>9, <1>12 DEF OverBudget
  <1>13. CASE BeforeUnit
    <2>1. CASE stop \/ SyncRefused(job.plan)
      BY <1>9, <1>13, <2>1 DEF BeforeUnit
    <2>2. CASE ~stop /\ ~SyncRefused(job.plan) /\ Collides(job.plan)
      <3>1. job' = [job EXCEPT !.pc = "integrity_error"] /\ UNCHANGED <<turn, used, rows, data, durable, stop, ran>>
            /\ job.pc = "before_unit"
        BY <1>13, <2>2 DEF BeforeUnit, Fixed
      <3>2. job' \in JobRow /\ job'.pc = "integrity_error" /\ job'.plan = job.plan /\ job'.unit = job.unit
        BY <1>0, <3>1 DEF JobRow
      <3> QED BY <1>0, <3>1, <3>2 DEF ShapeInv, TypeOK, Shape
    <2>3. CASE ~stop /\ ~SyncRefused(job.plan) /\ ~Collides(job.plan)
      <3>1. /\ rows' \in [CallIds -> JournalRow] /\ turn' \in TurnRow /\ turn'.plan = job.plan
            /\ turn'.state = turn.state
            /\ job' \in JobRow /\ job'.pc = "running" /\ job'.plan = job.plan /\ job'.unit = job.unit
            /\ job'.snap = data /\ job'.copy = data /\ job'.step \in StepsOf(job.plan, job.unit)
            /\ UNCHANGED <<used, data, durable, stop>>
        BY <1>13, <2>3, BeginFacts
      <3>2. UNCHANGED ran /\ job.pc = "before_unit"
        BY <1>13 DEF BeforeUnit, Fixed
      <3>3. TypeOK'
        BY <1>0, <3>1, <3>2 DEF TypeOK
      <3>4. Shape'
        BY <1>0, <3>1, <3>2 DEF Shape, StepsOf
      <3> QED BY <3>3, <3>4 DEF ShapeInv
    <2> QED BY <2>1, <2>2, <2>3
  <1>14. ASSUME NEW state \in Resolved, NEW outcome \in {"complete", "partial", "blocked", "skipped"},
                job.pc = "running", job.step \in 1..Len(job.plan.steps), Wellformed(job.plan),
                job'.plan = MarkStep(job.plan, job.step, state, outcome),
                job' \in JobRow, job'.snap = job.snap, job.snap \in [Records -> Values],
                job'.copy \in [Records -> Values], job'.unit = job.unit, job'.step = job.step + 1,
                IF job.step + 1 \in StepsOf(job'.plan, job.unit) THEN job'.pc = "running" ELSE job'.pc = "unit_done",
                UNCHANGED turn
         PROVE  Shape'
    <2>1. Alike(job.plan, job'.plan)
      BY <1>0, <1>14, StepMarked
    <2>2. Wellformed(job'.plan) /\ Len(job'.plan.units) = Len(job.plan.units)
      BY <1>14, <2>1, AlikeGrouped DEF Alike
    <2>3. job.unit \in 1..Len(job.plan.units) /\ turn.state = "running"
      BY <1>0, <1>14 DEF Shape
    <2> QED BY <1>0, <1>14, <2>2, <2>3 DEF Shape, StepsOf
  <1>15. CASE SkipStep
    <2>1. UNCHANGED <<turn, used, rows, data, durable, stop, ran>> /\ job.pc = "running"
      BY <1>15 DEF SkipStep, Fixed
    <2>2. job' \in JobRow /\ Shape'
      BY <1>14, <1>15, <2>1, SkipFacts DEF Resolved
    <2> QED BY <1>0, <2>1, <2>2 DEF ShapeInv, TypeOK
  <1>16. CASE RunStep
    <2>1. UNCHANGED <<turn, used, rows, data, stop>> /\ job.pc = "running" /\ ran' = Ran(Current)
          /\ (durable' = durable \/ durable' = durable \union {Current.id})
      BY <1>16 DEF RunStep
    <2>2. job' \in JobRow /\ Shape'
      BY <1>14, <1>16, <2>1, RunFacts DEF Resolved
    <2>3. Current.id \in CallIds
      BY <1>16, RunFacts DEF StepRow
    <2>4. ran' \in Seq(RanRow)
      BY <2>1, RanTyped
    <2> QED BY <1>0, <2>1, <2>2, <2>3, <2>4 DEF ShapeInv, TypeOK
  <1>17. CASE StepFails
    <2>1. /\ Current \in StepRow /\ (durable' = durable \/ durable' = durable \union {Current.id})
          /\ ran' = ran \/ ran' = Ran(Current)
          /\ rows' \in [CallIds -> JournalRow] /\ turn' \in TurnRow /\ job' \in JobRow
          /\ \/ turn'.state \in {"recovery_required", "cancelled"} /\ turn'.plan = turn.plan /\ job' = Idle
             \/ /\ turn'.plan = NoPlan /\ job'.plan = NoPlan
                /\ \/ job' = Idle /\ turn'.state = "completed"
                   \/ job'.pc = "reasoning" /\ turn'.state = turn.state
      BY <1>17, FailFacts
    <2>2. UNCHANGED <<used, data, stop>> /\ job.pc = "running"
      BY <1>17 DEF StepFails
    <2>3. Current.id \in CallIds
      BY <2>1 DEF StepRow
    <2>4. ran' \in Seq(RanRow)
      BY <1>0, <2>1, <2>2, RanTyped
    <2>5. turn.state = "running"
      BY <1>0, <2>2 DEF Shape
    <2>6. TypeOK'
      BY <1>0, <2>1, <2>2, <2>3, <2>4 DEF TypeOK
    <2>7. Shape'
      BY <1>0, <2>1, <2>5, NothingTyped DEF Shape
    <2> QED BY <2>6, <2>7 DEF ShapeInv
  <1>18. ASSUME job.pc = "unit_done", durable' = durable \union CompletedIds PROVE durable' \subseteq CallIds
    <2>1. CompletedIds \subseteq CallIds
      <3>1. job.plan.steps \in Seq(StepRow)
        BY <1>0 DEF PlanRow
      <3>2. \A i \in DOMAIN job.plan.steps : job.plan.steps[i] \in StepRow
        BY <3>1
      <3>3. \A i \in DOMAIN job.plan.steps : job.plan.steps[i].id \in CallIds
        BY <3>2 DEF StepRow
      <3> QED BY <3>3 DEF CompletedIds
    <2> QED BY <1>0, <1>18, <2>1
  <1>19. CASE AfterUnit
    <2> DEFINE plan == MarkUnit(job.plan, job.unit, "completed")
    <2>1. /\ rows' \in [CallIds -> JournalRow] /\ turn' \in TurnRow /\ turn'.state = turn.state /\ turn'.plan = plan
          /\ job' \in JobRow /\ job'.pc = "preflight" /\ job'.plan = plan /\ job'.unit = job.unit + 1
          /\ job.unit + 1 \in 1..Len(plan.units)
          /\ data' = Saved /\ durable' = durable \union CompletedIds /\ UNCHANGED <<used, stop>>
      BY <1>19, AfterFacts
    <2>2. job.pc = "unit_done" /\ UNCHANGED ran
      BY <1>19 DEF AfterUnit, Fixed
    <2>3. Wellformed(plan) /\ Saved \in [Records -> Values]
      BY <2>2, DoneFacts
    <2> HIDE DEF plan
    <2>4. TypeOK'
      BY <1>0, <1>18, <2>1, <2>2, <2>3 DEF TypeOK
    <2>5. Shape'
      BY <1>0, <2>1, <2>2, <2>3 DEF Shape
    <2> QED BY <2>4, <2>5 DEF ShapeInv
  <1>20. CASE FinishPlan
    <2>1. /\ Wellformed(turn'.plan) /\ rows' \in [CallIds -> JournalRow] /\ turn' \in TurnRow
          /\ turn'.state = "completed"
          /\ data' = Saved /\ durable' = durable \union CompletedIds /\ job' = Idle /\ UNCHANGED <<used, stop>>
      BY <1>20, FinishFacts
    <2>2. job.pc = "unit_done" /\ UNCHANGED ran
      BY <1>20 DEF FinishPlan, Fixed
    <2>3. Saved \in [Records -> Values]
      BY <2>2, DoneFacts
    <2>4. TypeOK'
      BY <1>0, <1>18, <2>1, <2>2, <2>3, NothingTyped DEF TypeOK
    <2>5. Shape'
      BY <2>1, NothingTyped DEF Shape
    <2> QED BY <2>4, <2>5 DEF ShapeInv
  <1>21. CASE Crash
    <2>1. job' = Idle /\ UNCHANGED <<turn, used, rows, data, stop, ran>>
          /\ (durable' = durable \/ (job.pc = "running" /\ durable' = durable \union {Current.id}))
      BY <1>21 DEF Crash
    <2>2. job.pc = "running" => Current.id \in CallIds
      <3>1. job.plan.steps \in Seq(StepRow)
        BY <1>0 DEF PlanRow
      <3>2. job.pc = "running" => job.step \in 1..Len(job.plan.steps)
        BY <1>0, <3>1 DEF Shape, StepsOf
      <3>3. job.pc = "running" => Current \in StepRow
        BY <3>1, <3>2 DEF Current
      <3> QED BY <3>3 DEF StepRow
    <2> QED BY <1>0, <2>1, <2>2, NothingTyped DEF ShapeInv, TypeOK, Shape
  <1>22. CASE Recover
    <2>1. CASE turn.barrier
      BY <1>9, <1>22, <2>1 DEF Recover
    <2>2. CASE ~turn.barrier
      <3>1. turn' = [turn EXCEPT !.state = "queued"] /\ UNCHANGED <<used, rows, data, durable, job, stop, ran>>
            /\ job.pc = "idle"
        BY <1>22, <2>2 DEF Recover, Fixed
      <3>2. turn' \in TurnRow /\ turn'.plan = turn.plan /\ turn'.state = "queued"
        BY <1>0, <3>1 DEF TurnRow
      <3> QED BY <1>0, <3>1, <3>2 DEF ShapeInv, TypeOK, Shape
    <2> QED BY <2>1, <2>2
  <1>23. CASE \E r \in Records : EditRecord(r)
    <2>1. PICK r \in Records : EditRecord(r)
      BY <1>23
    <2>2. data' = [data EXCEPT ![r] = "edited"] /\ UNCHANGED <<turn, used, rows, durable, job, stop, ran>>
      BY <2>1 DEF EditRecord
    <2>3. data' \in [Records -> Values]
      BY <1>0, <2>2 DEF Values
    <2> QED BY <1>0, <2>2, <2>3 DEF ShapeInv, TypeOK, Shape, StepsOf
  <1>24. CASE RequestStop
    BY <1>0, <1>24 DEF RequestStop, Fixed, ShapeInv, TypeOK, Shape, StepsOf
  <1>25. CASE Revert
    <2>1. turn' = [turn EXCEPT !.reversion = "completed"] /\ rows' = MarkReverted
          /\ data' = Compensated(turn.plan).data /\ UNCHANGED <<used, durable, job, stop, ran>>
      BY <1>25 DEF Revert, Fixed
    <2>2. turn' \in TurnRow /\ turn'.plan = turn.plan /\ turn'.state = turn.state
      BY <1>0, <2>1 DEF TurnRow
    <2>3. rows' \in [CallIds -> JournalRow]
      BY <1>0, <2>1 DEF MarkReverted, JournalRow
    <2>4. data' \in [Records -> Values]
      <3>1. \A i \in 1..Len(turn.plan.steps) : turn.plan.steps[i].before \in [turn.plan.steps[i].recs -> Values]
        <4>1. CASE turn.plan = NoPlan
          BY <4>1, NothingTyped
        <4>2. CASE Wellformed(turn.plan)
          BY <4>2 DEF Wellformed, Grouped
        <4> QED BY <1>0, <4>1, <4>2 DEF Shape
      <3> QED BY <1>0, <2>1, <3>1, CompensatedFacts
    <2> QED BY <1>0, <2>1, <2>2, <2>3, <2>4 DEF ShapeInv, TypeOK, Shape, StepsOf
  <1>26. CASE CleanupJournal
    <2>1. rows' = [s \in CallIds |-> NoRow] /\ UNCHANGED <<turn, used, data, durable, job, stop, ran>>
      BY <1>26 DEF CleanupJournal, Fixed
    <2>2. rows' \in [CallIds -> JournalRow]
      BY <2>1 DEF NoRow, JournalRow
    <2> QED BY <1>0, <2>1, <2>2 DEF ShapeInv, TypeOK, Shape, StepsOf
  <1> QED BY <1>1, <1>2, <1>3, <1>4, <1>5, <1>6, <1>7, <1>10, <1>11, <1>12, <1>13, <1>15, <1>16, <1>17,
             <1>19, <1>20, <1>21, <1>22, <1>23, <1>24, <1>25, <1>26 DEF Next

-----------------------------------------------------------------------------
(* Approval *)

\* A plan that stays within an approved one is approved.
LEMMA RefinementCleared ==
    ASSUME NEW source \in PlanRow, NEW plan \in PlanRow, NEW human, Wellformed(plan),
           ApprovalRefines(source, plan), Cleared(source, human)
    PROVE  Cleared(plan, human)
  <1>1. source.steps \in Seq(StepRow) /\ plan.steps \in Seq(StepRow)
    BY DEF PlanRow
  <1>2. DOMAIN source.steps = 1..Len(source.steps) /\ DOMAIN plan.steps = 1..Len(plan.steps)
    BY <1>1
  <1> SUFFICES ASSUME NEW i \in 1..Len(plan.steps), NeedsApproval(plan.steps[i].cap)
               PROVE  human /\ Pairs(plan.steps[i]) \subseteq granted
    BY DEF Cleared
  <1> DEFINE s == plan.steps[i]
  <1>3. IF RecordSubset(s.cap) THEN Scope(plan, s.cap) \subseteq Scope(source, s.cap)
        ELSE ExactCount(plan, s.cap, s.recs) <= ExactCount(source, s.cap, s.recs)
    BY <1>2 DEF ApprovalRefines
  <1>4. CASE RecordSubset(s.cap)
    <2>1. s.recs # {}
      BY <1>4 DEF Wellformed, Grouped
    <2>2. ASSUME NEW r \in s.recs PROVE human /\ <<s.cap, r>> \in granted /\ <<s.cap, "none">> \in granted
      <3>1. r \in Scope(plan, s.cap)
        BY <1>2 DEF Scope
      <3>2. r \in Scope(source, s.cap)
        BY <1>3, <1>4, <3>1
      <3>3. PICK j \in 1..Len(source.steps) : source.steps[j].cap = s.cap /\ r \in source.steps[j].recs
        BY <1>2, <3>2 DEF Scope
      <3>4. human /\ Pairs(source.steps[j]) \subseteq granted
        BY <3>3 DEF Cleared
      <3> QED BY <3>3, <3>4 DEF Pairs
    <2> HIDE DEF s
    <2>3. human /\ Pairs(s) \subseteq granted
      BY <2>1, <2>2 DEF Pairs
    <2> QED BY <2>3 DEF s
  <1>5. CASE ~RecordSubset(s.cap)
    <2> DEFINE P == {x \in DOMAIN plan.steps : plan.steps[x].cap = s.cap /\ plan.steps[x].recs = s.recs}
               S == {x \in DOMAIN source.steps : source.steps[x].cap = s.cap /\ source.steps[x].recs = s.recs}
    <2>1. Cardinality(P) <= Cardinality(S)
      BY <1>3, <1>5 DEF ExactCount
    <2>2. i \in P /\ IsFiniteSet(P)
      <3>1. IsFiniteSet(1..Len(plan.steps))
        BY <1>1, FS_Interval
      <3> QED BY <1>2, <3>1, FS_Subset
    <2>3. S # {}
      <3>1. P # {}
        BY <2>2
      <3> HIDE DEF P, S
      <3>2. Cardinality(P) # 0 /\ Cardinality(P) \in Nat
        BY <2>2, <3>1, FS_EmptySet, FS_CardinalityType
      <3>3. S = {} => Cardinality(S) = 0
        BY FS_EmptySet, Zenon
      <3>4. Cardinality(S) # 0
        BY <2>1, <3>2
      <3> QED BY <3>3, <3>4
    <2>4. PICK j \in 1..Len(source.steps) : source.steps[j].cap = s.cap /\ source.steps[j].recs = s.recs
      BY <1>2, <2>3
    <2>5. human /\ Pairs(source.steps[j]) \subseteq granted
      BY <2>4 DEF Cleared
    <2>6. Pairs(source.steps[j]) = Pairs(s)
      BY <2>4, Zenon DEF Pairs
    <2> QED BY <2>5, <2>6
  <1> QED BY <1>4, <1>5

\* Nothing to approve, nothing done.
LEMMA NothingCleared ==
    Done(NoPlan) /\ \A human : Cleared(NoPlan, human)
  <1>1. 1..Len(NoPlan.steps) = {}
    BY NothingTyped
  <1> QED BY <1>1 DEF Done, Cleared

\* A step that runs does so after a step done in full, over approved records.
LEMMA RanApproved ==
    ASSUME ShapeInv, ScopeInv, job.pc = "running", DependencyMet(job.plan, job.step), granted' = granted,
           ran' = ran \/ ran' = Ran(Current)
    PROVE  ApprovedScope'
  <1>1. CASE ran' = ran
    BY <1>1 DEF ScopeInv, ApprovedScope
  <1>2. CASE ran' = Ran(Current)
    <2>1. /\ ran' \in Seq(RanRow) /\ Len(ran') = Len(ran) + 1
          /\ \A k \in 1..Len(ran) : ran'[k] = ran[k]
          /\ ran'[Len(ran) + 1].cap = Current.cap /\ ran'[Len(ran) + 1].recs = Current.recs
          /\ ran'[Len(ran) + 1].human = job.human
          /\ ran'[Len(ran) + 1].dep = IF job.step = 1 THEN "none" ELSE job.plan.steps[job.step - 1].outcome
      BY <1>2, RanTyped
    <2>2. job.plan.steps \in Seq(StepRow) /\ job.step \in 1..Len(job.plan.steps) /\ ran \in Seq(RanRow)
      BY DEF ShapeInv, TypeOK, Shape, JobRow, PlanRow, StepsOf
    <2>3. ran'[Len(ran) + 1].dep \in {"none", "complete"}
      <3>1. CASE job.step = 1
        BY <2>1, <3>1
      <3>2. CASE job.step # 1
        <4>1. job.step - 1 \in 1..Len(job.plan.steps) /\ Satisfies(job.plan.steps[job.step - 1])
          BY <2>2, <3>2 DEF DependencyMet
        <4>2. job.plan.steps[job.step - 1].outcome = "complete"
          BY <4>1 DEF ScopeInv, Done, Satisfies
        <4> QED BY <2>1, <3>2, <4>2
      <3> QED BY <3>1, <3>2
    <2>4. NeedsApproval(Current.cap) => job.human /\ Pairs(Current) \subseteq granted
      BY <2>2 DEF ScopeInv, Cleared, Current
    <2> SUFFICES ASSUME NEW k \in DOMAIN ran'
                 PROVE  /\ ran'[k].dep \in {"none", "complete"}
                        /\ NeedsApproval(ran'[k].cap) =>
                            /\ ran'[k].human
                            /\ {<<ran'[k].cap, r>> : r \in ran'[k].recs \union {"none"}} \subseteq granted
      BY DEF ApprovedScope
    <2>5. k \in 1..Len(ran) \/ k = Len(ran) + 1
      BY <2>1, <2>2
    <2>6. CASE k \in 1..Len(ran)
      <3>1. k \in DOMAIN ran /\ ran'[k] = ran[k]
        BY <2>1, <2>2, <2>6
      <3> QED BY <3>1 DEF ScopeInv, ApprovedScope
    <2>7. CASE k = Len(ran) + 1
      BY <2>1, <2>3, <2>4, <2>7 DEF Pairs
    <2> QED BY <2>5, <2>6, <2>7
  <1> QED BY <1>1, <1>2

\* The turn starts without a plan.
LEMMA ScopeInit ==
    Init => ScopeInv
  <1> SUFFICES ASSUME Init PROVE ScopeInv
    OBVIOUS
  <1>1. job = [Idle EXCEPT !.pc = "reasoning"] /\ turn.plan = NoPlan /\ ran = << >>
    BY DEF Init
  <1>2. job.plan = NoPlan /\ job.source = NoPlan
    BY <1>1, NothingTyped DEF JobRow
  <1>3. DOMAIN ran = {}
    BY <1>1
  <1> QED BY <1>1, <1>2, <1>3, NothingCleared DEF ScopeInv, ApprovedScope

\* Approval and outcome survive every step.
LEMMA ScopeStep ==
    ASSUME ShapeInv, ScopeInv, [Next]_vars
    PROVE  ScopeInv'
  <1>0. /\ TypeOK /\ Shape /\ turn \in TurnRow /\ job \in JobRow /\ job.plan \in PlanRow /\ turn.plan \in PlanRow
        /\ job.source \in PlanRow /\ job.calls \in [Capabilities -> Nat] /\ rows \in [CallIds -> JournalRow]
    BY DEF ShapeInv, TypeOK, JobRow, TurnRow
  <1>1. CASE UNCHANGED vars
    BY <1>1 DEF ScopeInv, Done, Cleared, ApprovedScope, vars
  <1>B. ASSUME ran' = ran, granted' = granted PROVE ApprovedScope'
    BY <1>B DEF ScopeInv, ApprovedScope
  <1>C. ASSUME granted' = granted, ran' = ran \/ ApprovedScope', job' = Idle,
               turn'.plan \in {turn.plan, NoPlan},
               turn'.state \notin {"queued", "running"} \/ (turn'.plan = turn.plan /\ turn'.human = turn.human
                                                           /\ turn.state \in {"queued", "running"})
        PROVE  ScopeInv'
    <2>1. Done(job.plan)' /\ Cleared(job.plan, job.human)' /\ job'.pc = "idle"
      BY <1>C, NothingTyped, NothingCleared DEF Done, Cleared
    <2>2. Done(turn.plan)'
      BY <1>C, NothingCleared DEF ScopeInv, Done
    <2>3. (turn.state \in {"queued", "running"} => Cleared(turn.plan, turn.human))'
      BY <1>C DEF ScopeInv, Cleared
    <2>4. ApprovedScope'
      BY <1>B, <1>C
    <2> QED BY <2>1, <2>2, <2>3, <2>4 DEF ScopeInv
  <1>2. CASE Answer
    <2>1. turn' = [turn EXCEPT !.state = "completed"] /\ job' = Idle /\ UNCHANGED <<ran, granted>>
      BY <1>2 DEF Answer, Fixed
    <2>2. turn'.plan = turn.plan /\ turn'.state = "completed"
      BY <1>0, <2>1 DEF TurnRow
    <2> QED BY <1>C, <2>1, <2>2
  <1>3. CASE Propose
    <2>1. PICK steps \in Seq(StepRow) :
            /\ Len(steps) > 0
            /\ \A i, j \in 1..Len(steps) : steps[i].id = steps[j].id => i = j
            /\ \A i \in 1..Len(steps) : steps[i].state = "previewed"
                                        /\ (RecordSubset(steps[i].cap) => steps[i].recs # {})
                                        /\ steps[i].before \in [steps[i].recs -> Values]
            /\ Prepared(NewPlan(steps))
      BY <1>0, <1>3, ProposedFacts
    <2> DEFINE plan == NewPlan(steps)
               auth == [plan EXCEPT !.state = "authorized"]
    <2>2. /\ plan \in PlanRow /\ Wellformed(plan) /\ Prepared(plan) /\ plan.steps = steps
          /\ plan.state \in {"awaiting_confirmation", "authorized"}
          /\ plan.state = "authorized" => \A i \in 1..Len(steps) : ~NeedsApproval(steps[i].cap)
      BY <2>1, NewPlanUnstarted DEF Unstarted
    <2> HIDE DEF plan
    <2>3. auth.steps = plan.steps
      BY <2>2, PlanMarked DEF PlanStates
    <2>4. Done(plan) /\ Done(auth)
      BY <2>1, <2>2, <2>3 DEF Done
    <2> HIDE DEF auth
    <2>5. /\ \/ /\ job.source # NoPlan /\ ApprovalRefines(job.source, plan)
                /\ turn' = turn /\ job'.pc = "preflight" /\ job'.plan = auth /\ job'.human = job.human
             \/ turn'.state = "awaiting" /\ turn'.plan = plan /\ job' = Idle
             \/ /\ plan.state # "awaiting_confirmation" /\ turn' = turn
                /\ job'.pc = "preflight" /\ job'.plan = plan
      BY <1>0, <2>2, PreparedFacts DEF auth
    <2>6. UNCHANGED <<ran, granted>> /\ job.pc = "reasoning"
      BY <1>3 DEF Propose, Fixed
    <2>7. ApprovedScope'
      BY <1>B, <2>6
    <2>8. CASE /\ ApprovalRefines(job.source, plan)
               /\ turn' = turn /\ job'.pc = "preflight" /\ job'.plan = auth /\ job'.human = job.human
      <3>1. Cleared(plan, job.human)
        BY <1>0, <2>2, <2>6, <2>8, RefinementCleared DEF ScopeInv
      <3>2. Cleared(job.plan, job.human)'
        BY <2>3, <2>6, <2>8, <3>1 DEF Cleared
      <3>3. Done(job.plan)' /\ Done(turn.plan)'
        BY <2>4, <2>8 DEF Done, ScopeInv
      <3>4. (turn.state \in {"queued", "running"} => Cleared(turn.plan, turn.human))'
        BY <2>6, <2>8 DEF ScopeInv, Cleared
      <3> QED BY <2>7, <2>8, <3>2, <3>3, <3>4 DEF ScopeInv
    <2>9. CASE turn'.state = "awaiting" /\ turn'.plan = plan /\ job' = Idle
      <3>1. Done(job.plan)' /\ Cleared(job.plan, job.human)' /\ job'.pc = "idle"
        BY <2>9, NothingTyped, NothingCleared DEF Done, Cleared
      <3>2. Done(turn.plan)'
        BY <2>4, <2>9 DEF Done
      <3> QED BY <2>7, <2>9, <3>1, <3>2 DEF ScopeInv
    <2>10. CASE /\ plan.state # "awaiting_confirmation" /\ turn' = turn
                /\ job'.pc = "preflight" /\ job'.plan = plan
      <3>1. \A i \in 1..Len(plan.steps) : ~NeedsApproval(plan.steps[i].cap)
        BY <2>2, <2>10
      <3>2. Cleared(job.plan, job.human)'
        BY <2>10, <3>1 DEF Cleared
      <3>3. Done(job.plan)' /\ Done(turn.plan)'
        BY <2>4, <2>10 DEF Done, ScopeInv
      <3>4. (turn.state \in {"queued", "running"} => Cleared(turn.plan, turn.human))'
        BY <2>6, <2>10 DEF ScopeInv, Cleared
      <3> QED BY <2>7, <2>10, <3>2, <3>3, <3>4 DEF ScopeInv
    <2> QED BY <2>5, <2>8, <2>9, <2>10
  <1>D. ASSUME NEW source \in PlanRow, Cleared(source, job.human), granted' = granted, ApprovedScope',
               turn'.plan = NoPlan, job'.plan = NoPlan,
               \/ job' = Idle
               \/ job'.pc = "reasoning" /\ job'.source = source /\ job'.human = job.human
        PROVE  ScopeInv'
    <2>1. /\ Done(job.plan)' /\ Done(turn.plan)' /\ Cleared(job.plan, job.human)'
          /\ Cleared(turn.plan, turn.human)'
      BY <1>D, NothingCleared DEF Done, Cleared
    <2>2. (job.pc = "reasoning" => Cleared(job.source, job.human))' /\ job'.pc \in {"idle", "reasoning"}
      BY <1>D, NothingTyped DEF Cleared
    <2> QED BY <1>D, <2>1, <2>2 DEF ScopeInv
  <1>4. CASE PrepareFails
    <2>1. Repaired(job.source, job.calls) /\ UNCHANGED <<ran, granted>> /\ job.pc = "reasoning"
      BY <1>4 DEF PrepareFails, Fixed
    <2>2. Cleared(job.source, job.human) /\ ApprovedScope'
      BY <1>B, <2>1 DEF ScopeInv
    <2> QED BY <1>0, <1>D, <2>1, <2>2, RepairedFacts
  <1>5. CASE Approve
    <2> DEFINE q == [turn.plan EXCEPT !.state = "authorized"]
    <2>1. turn' = [turn EXCEPT !.state = "queued", !.human = TRUE, !.plan = q]
          /\ UNCHANGED <<job, ran>>
      BY <1>0, <1>5 DEF Approve, TurnRow
    <2>2. q \in PlanRow /\ q.steps = turn.plan.steps /\ turn.plan.steps \in Seq(StepRow)
      BY <1>0, PlanMarked DEF PlanStates, PlanRow
    <2> HIDE DEF q
    <2>3. turn'.plan = q /\ turn'.human = TRUE
      BY <1>0, <2>1, <2>2 DEF TurnRow
    <2>4. granted \subseteq granted' /\ \A i \in 1..Len(turn.plan.steps) : Pairs(turn.plan.steps[i]) \subseteq granted'
      <3>1. DOMAIN turn.plan.steps = 1..Len(turn.plan.steps)
        BY <2>2
      <3>2. granted' = granted \union UNION {Pairs(turn.plan.steps[i]) : i \in 1..Len(turn.plan.steps)}
        BY <1>5, <3>1 DEF Approve, Pairs
      <3> QED BY <3>2
    <2>5. job.pc = "idle" /\ job.plan = NoPlan
      BY <1>0, <1>5 DEF Approve, Shape
    <2>6. Cleared(turn.plan, turn.human)'
      BY <2>2, <2>3, <2>4 DEF Cleared
    <2>7. Done(turn.plan)' /\ Done(job.plan)'
      BY <2>1, <2>2, <2>3 DEF ScopeInv, Done
    <2>8. Cleared(job.plan, job.human)' /\ job'.pc = "idle"
      BY <2>1, <2>5, NothingCleared DEF Cleared
    <2>9. ApprovedScope'
      BY <2>1, <2>4 DEF ScopeInv, ApprovedScope
    <2> QED BY <2>6, <2>7, <2>8, <2>9 DEF ScopeInv
  <1>6. CASE Reject
    <2> DEFINE q == [turn.plan EXCEPT !.state = "rejected"]
    <2>1. turn' = [turn EXCEPT !.state = "completed", !.plan = q] /\ UNCHANGED <<job, ran, granted>>
      BY <1>0, <1>6 DEF Reject, TurnRow, Fixed
    <2>2. q \in PlanRow /\ q.steps = turn.plan.steps
      BY <1>0, PlanMarked DEF PlanStates
    <2> HIDE DEF q
    <2>3. turn'.plan = q /\ turn'.state = "completed"
      BY <1>0, <2>1, <2>2 DEF TurnRow
    <2>4. Done(turn.plan)' /\ Done(job.plan)'
      BY <2>1, <2>2, <2>3 DEF ScopeInv, Done
    <2>5. Cleared(job.plan, job.human)' /\ (job.pc = "reasoning" => Cleared(job.source, job.human))'
      BY <2>1 DEF ScopeInv, Cleared
    <2> QED BY <1>B, <2>1, <2>3, <2>4, <2>5 DEF ScopeInv
  <1>7. CASE Resume
    <2>1. turn' = [turn EXCEPT !.state = "running"] /\ UNCHANGED <<ran, granted>> /\ turn.state = "queued"
      BY <1>7 DEF Resume, Fixed
    <2>2. turn'.plan = turn.plan /\ turn'.state = "running" /\ turn'.human = turn.human /\ turn.human \in BOOLEAN
      BY <1>0, <2>1 DEF TurnRow
    <2>3. Done(turn.plan)' /\ Cleared(turn.plan, turn.human)' /\ Cleared(turn.plan, turn.human)
      BY <2>1, <2>2 DEF ScopeInv, Done, Cleared
    <2>4. CASE turn.plan = NoPlan
      <3>1. job' = [Idle EXCEPT !.pc = "reasoning"]
        BY <1>7, <2>4 DEF Resume
      <3>2. job'.source = NoPlan /\ job'.plan = NoPlan /\ job'.pc = "reasoning"
        BY <3>1, NothingTyped DEF JobRow
      <3>3. Done(job.plan)' /\ Cleared(job.plan, job.human)' /\ Cleared(job.source, job.human)'
        BY <3>2, NothingCleared DEF Done, Cleared
      <3> QED BY <1>B, <2>1, <2>3, <3>2, <3>3 DEF ScopeInv
    <2>5. CASE turn.plan # NoPlan
      <3>1. job' = [Idle EXCEPT !.pc = "preflight", !.plan = turn.plan, !.human = turn.human, !.unit = 1]
        BY <1>7, <2>5 DEF Resume
      <3>2. job'.pc = "preflight" /\ job'.plan = turn.plan /\ job'.human = turn.human
        BY <1>0, <2>2, <3>1, NothingTyped DEF JobRow
      <3>3. Done(job.plan)' /\ Cleared(job.plan, job.human)'
        BY <2>1, <2>3, <3>2 DEF Done, Cleared, ScopeInv
      <3> QED BY <1>B, <2>1, <2>3, <3>2, <3>3 DEF ScopeInv
    <2> QED BY <2>4, <2>5
  <1>8. ASSUME NEW state \in Terminal, EndFailed(state), UNCHANGED <<ran, granted>> PROVE ScopeInv'
    <2>1. turn'.state = state /\ turn'.plan = turn.plan /\ job' = Idle
      BY <1>0, <1>8, EndFacts
    <2>2. state \notin {"queued", "running"}
      BY DEF Terminal
    <2> QED BY <1>8, <1>C, <2>1, <2>2
  <1>9. (Fail \/ Cancel) /\ UNCHANGED Fixed => ScopeInv'
    BY <1>8 DEF Fail, Cancel, Terminal, Fixed
  <1>10. CASE PreflightFails
    <2>1. CASE turn.barrier \/ stop
      BY <1>9, <1>10, <2>1 DEF PreflightFails
    <2>2. CASE ~turn.barrier /\ ~stop
      <3>1. Repaired(job.plan, job.calls) /\ UNCHANGED <<ran, granted>>
        BY <1>10, <2>2 DEF PreflightFails, Fixed
      <3>2. Cleared(job.plan, job.human) /\ ApprovedScope'
        BY <1>B, <3>1 DEF ScopeInv
      <3> QED BY <1>0, <1>D, <3>1, <3>2, RepairedFacts
    <2> QED BY <2>1, <2>2
  <1>E. ASSUME granted' = granted, ApprovedScope', UNCHANGED turn, job'.pc # "reasoning",
               job'.pc \in {"running", "unit_done"} => turn.human = job.human,
               job'.human = job.human, Done(job'.plan), Len(job'.plan.steps) = Len(job.plan.steps),
               \A i \in 1..Len(job.plan.steps) : /\ job'.plan.steps[i].cap = job.plan.steps[i].cap
                                                 /\ job'.plan.steps[i].recs = job.plan.steps[i].recs
        PROVE  ScopeInv'
    <2>1. Cleared(job.plan, job.human)'
      <3>1. Cleared(job.plan, job.human)
        BY DEF ScopeInv
      <3>2. ASSUME NEW i \in 1..Len(job.plan.steps), NeedsApproval(job'.plan.steps[i].cap)
            PROVE  job.human /\ Pairs(job'.plan.steps[i]) \subseteq granted
        <4>1. job.human /\ Pairs(job.plan.steps[i]) \subseteq granted
          BY <1>E, <3>1, <3>2 DEF Cleared
        <4>2. Pairs(job'.plan.steps[i]) = Pairs(job.plan.steps[i])
          BY <1>E, Zenon DEF Pairs
        <4> QED BY <4>1, <4>2
      <3> QED BY <1>E, <3>2 DEF Cleared, Pairs
    <2>2. Done(job.plan)' /\ Done(turn.plan)'
      BY <1>E DEF Done, ScopeInv
    <2>3. (turn.state \in {"queued", "running"} => Cleared(turn.plan, turn.human))'
      BY <1>E DEF ScopeInv, Cleared
    <2> QED BY <1>E, <2>1, <2>2, <2>3 DEF ScopeInv
  <1>11. CASE Preflight
    <2>1. job'.pc = "before_unit" /\ job'.plan.steps = job.plan.steps /\ job'.human = job.human
      BY <1>11, PreflightFacts
    <2>2. UNCHANGED <<turn, ran, granted>>
      BY <1>11 DEF Preflight, Fixed
    <2>3. Done(job'.plan)
      BY <2>1 DEF ScopeInv, Done
    <2> QED BY <1>B, <1>E, <2>1, <2>2, <2>3
  <1>12. CASE OverBudget
    BY <1>9, <1>12 DEF OverBudget
  <1>13. CASE BeforeUnit
    <2>0. UNCHANGED <<ran, granted>>
      BY <1>13 DEF BeforeUnit, Fixed
    <2>1. CASE stop \/ SyncRefused(job.plan)
      BY <1>9, <1>13, <2>1 DEF BeforeUnit
    <2>2. CASE ~stop /\ ~SyncRefused(job.plan) /\ Collides(job.plan)
      <3>1. job' = [job EXCEPT !.pc = "integrity_error"] /\ UNCHANGED turn
        BY <1>13, <2>2 DEF BeforeUnit
      <3>2. job'.pc = "integrity_error" /\ job'.plan = job.plan /\ job'.human = job.human
        BY <1>0, <3>1 DEF JobRow
      <3>3. Done(job'.plan)
        BY <3>2 DEF ScopeInv
      <3> QED BY <1>B, <1>E, <2>0, <3>1, <3>2, <3>3
    <2>3. CASE ~stop /\ ~SyncRefused(job.plan) /\ ~Collides(job.plan)
      <3>1. /\ turn'.plan = job.plan /\ turn'.human = job.human
            /\ job'.pc = "running" /\ job'.plan = job.plan /\ job'.human = job.human
        BY <1>13, <2>3, BeginFacts
      <3>2. Done(job.plan)' /\ Done(turn.plan)'
        BY <3>1 DEF ScopeInv, Done
      <3>3. Cleared(job.plan, job.human)' /\ Cleared(turn.plan, turn.human)'
        BY <2>0, <3>1 DEF ScopeInv, Cleared
      <3> QED BY <1>B, <2>0, <3>1, <3>2, <3>3 DEF ScopeInv
    <2> QED BY <2>1, <2>2, <2>3
  <1>14. ASSUME NEW state \in Resolved, NEW outcome \in {"complete", "partial", "blocked", "skipped"},
                job.step \in 1..Len(job.plan.steps),
                job'.plan = MarkStep(job.plan, job.step, state, outcome),
                state = "completed" =>
                    (outcome = "complete" \/ (ContinueOnError(Current.cap) /\ outcome \in {"partial", "blocked"})),
                job'.human = job.human, job'.pc # "reasoning", job.pc = "running",
                UNCHANGED turn, granted' = granted, ApprovedScope'
         PROVE  ScopeInv'
    <2>1. /\ Alike(job.plan, job'.plan)
          /\ \A j \in 1..Len(job.plan.steps) : j # job.step => job'.plan.steps[j] = job.plan.steps[j]
          /\ job'.plan.steps[job.step].state = state
          /\ job'.plan.steps[job.step].outcome = outcome
      BY <1>0, <1>14, StepMarked
    <2>2. /\ Len(job'.plan.steps) = Len(job.plan.steps)
          /\ \A i \in 1..Len(job.plan.steps) : /\ job'.plan.steps[i].cap = job.plan.steps[i].cap
                                                /\ job'.plan.steps[i].recs = job.plan.steps[i].recs
      BY <2>1 DEF Alike
    <2>3. ASSUME NEW i \in 1..Len(job.plan.steps), job'.plan.steps[i].state = "completed"
          PROVE  \/ job'.plan.steps[i].outcome = "complete"
                 \/ /\ ContinueOnError(job'.plan.steps[i].cap)
                    /\ job'.plan.steps[i].outcome \in {"partial", "blocked"}
      <3>1. CASE i = job.step
        BY <1>14, <2>1, <2>2, <2>3, <3>1 DEF Current
      <3>2. CASE i # job.step
        BY <2>1, <2>3, <3>2 DEF ScopeInv, Done
      <3> QED BY <3>1, <3>2
    <2>4. Done(job'.plan)
      BY <2>2, <2>3 DEF Done
    <2>5. turn.human = job.human
      BY <1>14 DEF ScopeInv
    <2> QED BY <1>14, <1>E, <2>2, <2>4, <2>5
  <1>15. CASE SkipStep
    <2>1. UNCHANGED <<turn, ran, granted>> /\ job.pc = "running"
      BY <1>15 DEF SkipStep, Fixed
    <2>2. /\ job.step \in 1..Len(job.plan.steps) /\ job'.plan = MarkStep(job.plan, job.step, "skipped", "skipped")
          /\ job'.human = job.human /\ job'.pc # "reasoning"
      BY <1>15, SkipFacts
    <2> QED BY <1>B, <1>14, <2>1, <2>2 DEF Resolved
  <1>16. CASE RunStep
    <2>1. UNCHANGED <<turn, granted>> /\ job.pc = "running" /\ ran' = Ran(Current) /\ DependencyMet(job.plan, job.step)
      BY <1>16 DEF RunStep
    <2>2. ApprovedScope'
      BY <2>1, RanApproved
    <2>3. PICK outcome \in {"complete", "partial", "blocked"} :
            /\ job'.plan = MarkStep(job.plan, job.step, "completed", outcome)
            /\ outcome # "complete" => ContinueOnError(Current.cap)
      BY <1>16, RunFacts
    <2>4. job.step \in 1..Len(job.plan.steps) /\ job'.human = job.human /\ job'.pc # "reasoning"
      BY <1>16, RunFacts
    <2> QED BY <1>14, <2>1, <2>2, <2>3, <2>4 DEF Resolved
  <1>17. CASE StepFails
    <2>1. granted' = granted /\ job.pc = "running" /\ DependencyMet(job.plan, job.step)
      BY <1>17 DEF StepFails
    <2>2. /\ ran' = ran \/ ran' = Ran(Current)
          /\ \/ /\ turn'.state \in {"recovery_required", "cancelled"} /\ turn'.plan = turn.plan /\ job' = Idle
             \/ /\ turn'.plan = NoPlan /\ job'.plan = NoPlan
                /\ \/ job' = Idle
                   \/ job'.pc = "reasoning" /\ job'.source = job.plan /\ job'.human = job.human
      BY <1>17, FailFacts
    <2>3. ApprovedScope'
      BY <2>1, <2>2, RanApproved
    <2>4. Cleared(job.plan, job.human)
      BY DEF ScopeInv
    <2> QED BY <1>0, <1>C, <1>D, <2>1, <2>2, <2>3, <2>4
  <1>18. ASSUME job.pc = "unit_done"
         PROVE  /\ MarkUnit(job.plan, job.unit, "completed").steps = job.plan.steps
                /\ turn.human = job.human /\ turn.state = "running"
    <2>1. job.unit \in 1..Len(job.plan.units)
      BY <1>18, DoneFacts
    <2> QED BY <1>0, <1>18, <2>1, UnitMarked DEF ScopeInv, Shape
  <1>19. CASE AfterUnit
    <2>1. /\ turn'.plan = MarkUnit(job.plan, job.unit, "completed") /\ turn'.human = turn.human
          /\ job'.pc = "preflight" /\ job'.human = job.human
          /\ job'.plan = MarkUnit(job.plan, job.unit, "completed")
      BY <1>19, AfterFacts
    <2>2. job.pc = "unit_done" /\ UNCHANGED <<ran, granted>>
      BY <1>19 DEF AfterUnit, Fixed
    <2>3. turn'.plan.steps = job.plan.steps /\ job'.plan.steps = job.plan.steps /\ turn.human = job.human
      BY <1>18, <2>1, <2>2
    <2>4. Done(job.plan)' /\ Done(turn.plan)'
      BY <2>3 DEF ScopeInv, Done
    <2>5. Cleared(job.plan, job.human)' /\ Cleared(turn.plan, turn.human)'
      BY <2>1, <2>2, <2>3 DEF ScopeInv, Cleared
    <2> QED BY <1>B, <2>1, <2>2, <2>4, <2>5 DEF ScopeInv
  <1>20. CASE FinishPlan
    <2>1. turn'.plan.steps = job.plan.steps /\ turn'.state = "completed" /\ job' = Idle
      BY <1>20, FinishFacts
    <2>2. UNCHANGED <<ran, granted>>
      BY <1>20 DEF FinishPlan, Fixed
    <2>3. Done(turn.plan)'
      BY <2>1 DEF ScopeInv, Done
    <2>4. Done(job.plan)' /\ Cleared(job.plan, job.human)' /\ job'.pc = "idle"
      BY <2>1, NothingTyped, NothingCleared DEF Done, Cleared
    <2> QED BY <1>B, <2>1, <2>2, <2>3, <2>4 DEF ScopeInv
  <1>21. CASE Crash
    <2>1. job' = Idle /\ UNCHANGED <<turn, ran, granted>> /\ job.pc # "idle"
      BY <1>21 DEF Crash
    <2>2. turn.state = "running"
      BY <1>0, <2>1 DEF Shape
    <2> QED BY <1>C, <2>1, <2>2
  <1>22. CASE Recover
    <2>1. CASE turn.barrier
      BY <1>9, <1>22, <2>1 DEF Recover
    <2>2. CASE ~turn.barrier
      <3>1. turn' = [turn EXCEPT !.state = "queued"] /\ UNCHANGED <<job, ran, granted>>
            /\ job.pc = "idle" /\ turn.state = "running"
        BY <1>22, <2>2 DEF Recover, Fixed
      <3>2. turn'.plan = turn.plan /\ turn'.state = "queued" /\ turn'.human = turn.human
        BY <1>0, <3>1 DEF TurnRow
      <3>3. Done(job.plan)' /\ Done(turn.plan)' /\ Cleared(job.plan, job.human)' /\ Cleared(turn.plan, turn.human)'
        BY <3>1, <3>2 DEF ScopeInv, Done, Cleared
      <3> QED BY <1>B, <3>1, <3>3 DEF ScopeInv
    <2> QED BY <2>1, <2>2
  <1>F. ASSUME UNCHANGED <<job, ran, granted>>, turn'.plan = turn.plan, turn'.state = turn.state, turn'.human = turn.human
        PROVE  ScopeInv'
    <2>1. Done(job.plan)' /\ Done(turn.plan)' /\ Cleared(job.plan, job.human)'
      BY <1>F DEF ScopeInv, Done, Cleared
    <2>2. (job.pc = "reasoning" => Cleared(job.source, job.human))'
      BY <1>F DEF ScopeInv, Cleared
    <2>3. (turn.state \in {"queued", "running"} => Cleared(turn.plan, turn.human))'
      BY <1>F DEF ScopeInv, Cleared
    <2>4. (job.pc \in {"running", "unit_done"} => turn.human = job.human)'
      BY <1>F DEF ScopeInv
    <2> QED BY <1>B, <1>F, <2>1, <2>2, <2>3, <2>4 DEF ScopeInv
  <1>23. CASE \E r \in Records : EditRecord(r)
    BY <1>F, <1>23 DEF EditRecord
  <1>24. CASE RequestStop
    BY <1>F, <1>24 DEF RequestStop, Fixed
  <1>25. CASE Revert
    <2>1. turn' = [turn EXCEPT !.reversion = "completed"] /\ UNCHANGED <<job, ran, granted>>
      BY <1>25 DEF Revert, Fixed
    <2>2. turn'.plan = turn.plan /\ turn'.state = turn.state /\ turn'.human = turn.human
      BY <1>0, <2>1 DEF TurnRow
    <2> QED BY <1>F, <2>1, <2>2
  <1>26. CASE CleanupJournal
    BY <1>F, <1>26 DEF CleanupJournal, Fixed
  <1> QED BY <1>1, <1>2, <1>3, <1>4, <1>5, <1>6, <1>7, <1>10, <1>11, <1>12, <1>13, <1>15, <1>16, <1>17,
             <1>19, <1>20, <1>21, <1>22, <1>23, <1>24, <1>25, <1>26 DEF Next

\* The shape and the approvals are invariants.
LEMMA ScopeAlways ==
    Spec => [](ShapeInv /\ ScopeInv)
  <1>1. Init => ShapeInv /\ ScopeInv
    BY ShapeInit, ScopeInit
  <1>2. ShapeInv /\ ScopeInv /\ [Next]_vars => (ShapeInv /\ ScopeInv)'
    BY ShapeStep, ScopeStep
  <1> QED BY <1>1, <1>2, PTL DEF Spec

\* Whatever repairs, crashes and stops happened before, a step that needs a
\* person's approval runs only over records approved for that operation, and no
\* step runs after one that was partly done, blocked or skipped
\* (approval_refines, _step_satisfies_dependencies).
THEOREM ApprovalHolds ==
    Spec => []ApprovedScope
  <1>1. ScopeInv => ApprovedScope
    BY DEF ScopeInv
  <1> QED BY <1>1, ScopeAlways, PTL

-----------------------------------------------------------------------------
(* Reversion *)

\* One step of ReversionIsWhole.
Whole ==
    turn'.reversion = "completed" /\ turn.reversion # "completed" =>
        \A i \in DOMAIN turn.plan.steps : \A r \in turn.plan.steps[i].recs :
            (\A j \in 1..(i - 1) : r \notin turn.plan.steps[j].recs) =>
                data'[r] = turn.plan.steps[i].before[r]

\* Only a reversion reports one, and it is whole.
LEMMA RevertStep ==
    ASSUME ShapeInv, [Next]_vars
    PROVE  Whole
  <1>0. /\ TypeOK /\ turn \in TurnRow /\ job \in JobRow /\ job.plan \in PlanRow /\ turn.plan \in PlanRow
        /\ job.source \in PlanRow /\ job.calls \in [Capabilities -> Nat] /\ rows \in [CallIds -> JournalRow]
        /\ turn.plan.steps \in Seq(StepRow) /\ data \in [Records -> Values]
    BY DEF ShapeInv, TypeOK, JobRow, TurnRow, PlanRow
  <1>1. ASSUME turn'.reversion = turn.reversion \/ turn'.reversion \in {"available", "unavailable"} PROVE Whole
    BY <1>1 DEF Whole
  <1>2. ASSUME NEW state \in Terminal, EndFailed(state) PROVE Whole
    BY <1>0, <1>1, <1>2, EndFacts
  <1>3. Fail \/ Cancel => Whole
    BY <1>2 DEF Fail, Cancel, Terminal
  <1>4. CASE UNCHANGED vars
    BY <1>1, <1>4 DEF vars
  <1>5. CASE Answer \/ Approve \/ Reject \/ Resume
    <2>1. turn'.reversion = turn.reversion
      BY <1>0, <1>5 DEF Answer, Approve, Reject, Resume, TurnRow
    <2> QED BY <1>1, <2>1
  <1>6. CASE Propose
    <2>1. PICK steps \in Seq(StepRow) :
            /\ Len(steps) > 0
            /\ \A i, j \in 1..Len(steps) : steps[i].id = steps[j].id => i = j
            /\ \A i \in 1..Len(steps) : steps[i].state = "previewed"
                                        /\ (RecordSubset(steps[i].cap) => steps[i].recs # {})
                                        /\ steps[i].before \in [steps[i].recs -> Values]
            /\ Prepared(NewPlan(steps))
      BY <1>0, <1>6, ProposedFacts
    <2>2. NewPlan(steps) \in PlanRow /\ Prepared(NewPlan(steps))
      BY <2>1, NewPlanUnstarted
    <2> QED BY <1>0, <1>1, <2>2, PreparedFacts
  <1>7. CASE PrepareFails
    BY <1>0, <1>1, <1>7, RepairedFacts DEF PrepareFails
  <1>8. CASE PreflightFails
    <2>1. CASE turn.barrier \/ stop
      BY <1>3, <1>8, <2>1 DEF PreflightFails
    <2>2. CASE ~turn.barrier /\ ~stop
      BY <1>0, <1>1, <1>8, <2>2, RepairedFacts DEF PreflightFails
    <2> QED BY <2>1, <2>2
  <1>9. CASE Preflight \/ SkipStep \/ RunStep \/ Crash \/ RequestStop \/ CleanupJournal
             \/ \E r \in Records : EditRecord(r)
    <2>1. Preflight \/ SkipStep \/ RunStep => turn' = turn
      BY Zenon DEF Preflight, SkipStep, RunStep
    <2>2. Crash \/ RequestStop \/ CleanupJournal => turn' = turn
      BY Zenon DEF Crash, RequestStop, CleanupJournal
    <2>3. (\E r \in Records : EditRecord(r)) => turn' = turn
      BY Zenon DEF EditRecord
    <2>4. turn' = turn
      BY <1>9, <2>1, <2>2, <2>3, Zenon
    <2> QED BY <1>1, <2>4
  <1>10. CASE OverBudget
    BY <1>3, <1>10 DEF OverBudget
  <1>11. CASE BeforeUnit
    <2>1. CASE stop \/ SyncRefused(job.plan)
      BY <1>3, <1>11, <2>1 DEF BeforeUnit
    <2>2. CASE ~stop /\ ~SyncRefused(job.plan) /\ Collides(job.plan)
      BY <1>1, <1>11, <2>2 DEF BeforeUnit
    <2>3. CASE ~stop /\ ~SyncRefused(job.plan) /\ ~Collides(job.plan)
      BY <1>1, <1>11, <2>3, BeginFacts
    <2> QED BY <2>1, <2>2, <2>3
  <1>12. CASE StepFails
    BY <1>1, <1>12, FailFacts
  <1>13. CASE AfterUnit
    BY <1>1, <1>13, AfterFacts
  <1>14. CASE FinishPlan
    BY <1>1, <1>14, FinishFacts
  <1>15. CASE Recover
    <2>1. CASE turn.barrier
      BY <1>3, <1>15, <2>1 DEF Recover
    <2>2. CASE ~turn.barrier
      <3>1. turn'.reversion = turn.reversion
        BY <1>0, <1>15, <2>2 DEF Recover, TurnRow
      <3> QED BY <1>1, <3>1
    <2> QED BY <2>1, <2>2
  <1>16. CASE Revert
    <2>1. data' = Compensated(turn.plan).data /\ Compensated(turn.plan).ok
      BY <1>16 DEF Revert
    <2>2. \A i \in 1..Len(turn.plan.steps) : turn.plan.steps[i].before \in [turn.plan.steps[i].recs -> Values]
      <3>1. CASE turn.plan = NoPlan
        BY <3>1, NothingTyped
      <3>2. CASE Wellformed(turn.plan)
        BY <3>2 DEF Wellformed, Grouped
      <3> QED BY <3>1, <3>2 DEF ShapeInv, Shape
    <2>3. \A i \in 1..Len(turn.plan.steps) : \A r \in turn.plan.steps[i].recs :
            (\A j \in 1..(i - 1) : r \notin turn.plan.steps[j].recs)
                => data'[r] = turn.plan.steps[i].before[r]
      <3>1. \A i \in 1..Len(turn.plan.steps) : \A r \in turn.plan.steps[i].recs :
              (\A j \in 1..(i - 1) : r \notin turn.plan.steps[j].recs)
                  => Compensated(turn.plan).data[r] = turn.plan.steps[i].before[r]
        BY <1>0, <2>1, <2>2, CompensatedFacts
      <3> QED BY <2>1, <3>1
    <2>4. DOMAIN turn.plan.steps = 1..Len(turn.plan.steps)
      BY <1>0
    <2> QED BY <2>3, <2>4 DEF Whole
  <1> QED BY <1>4, <1>5, <1>6, <1>7, <1>8, <1>9, <1>10, <1>11, <1>12, <1>13, <1>14, <1>15, <1>16 DEF Next

\* A reversion that is reported as completed undid every step of the plan
\* (CapabilityCompensationService.compensate).
THEOREM ReversionHolds ==
    Spec => ReversionIsWhole
  <1>1. ShapeInv /\ [Next]_vars => [Whole]_vars
    BY RevertStep
  <1>2. [][Whole]_vars => ReversionIsWhole
    BY PTL DEF Whole, ReversionIsWhole
  <1>3. Spec => []ShapeInv
    BY ScopeAlways, PTL
  <1> QED BY <1>1, <1>2, <1>3, PTL DEF Spec

-----------------------------------------------------------------------------
(* The journal *)

\* Where nothing happened the journal is true.
LEMMA StillTrue ==
    ASSUME Still, job.pc # "integrity_error"
    PROVE  JournalTruth
  BY DEF Still, JournalTruth, AtomicTogether

\* A journal that is about a plan tells the truth about it.
LEMMA RecordedTrue ==
    ASSUME NEW plan \in PlanRow, Wellformed(plan), NEW journal, NEW dur, Recorded(plan, journal, dur)
    PROVE  /\ \A s \in CallIds :
                /\ journal[s].state \in {"verified", "reverted"} => s \in dur
                /\ journal[s].state \in {"prepared", "skipped", "rolled_back"} => s \notin dur
                /\ (\A k \in 1..Len(plan.units) : plan.units[k].state = "completed")
                       => journal[s].state # "executing"
           /\ \A i \in 1..Len(plan.steps) :
                /\ i + 1 \in 1..Len(plan.steps)
                /\ Mode(plan.steps[i].cap) = "odoo_atomic" /\ Mode(plan.steps[i + 1].cap) = "odoo_atomic"
                /\ "skipped" \notin {plan.steps[i].state, plan.steps[i + 1].state}
                => (plan.steps[i].id \in dur <=> plan.steps[i + 1].id \in dur)
  <1> DEFINE n == Len(plan.steps)
             st(i) == plan.steps[i]
             u(i) == plan.unitOf[i]
             un == plan.units
             over == \A k \in 1..Len(un) : un[k].state = "completed"
  <1>1. un \in Seq(UnitRow)
    BY DEF PlanRow
  <1>2. ASSUME NEW i \in 1..n
        PROVE  /\ Entry(st(i), u(i), un, journal, dur) /\ u(i) \in 1..Len(un)
               /\ un[u(i)].state \in {"prepared", "executing", "completed"}
    <2>1. u(i) \in 1..Len(un)
      BY DEF Wellformed, Grouped
    <2>2. un[u(i)] \in UnitRow
      BY <1>1, <2>1
    <2> QED BY <2>1, <2>2 DEF Recorded, UnitRow
  <1>3. ASSUME NEW s \in CallIds
        PROVE  /\ journal[s].state \in {"verified", "reverted"} => s \in dur
               /\ journal[s].state \in {"prepared", "skipped", "rolled_back"} => s \notin dur
               /\ over => journal[s].state # "executing"
    <2>1. CASE \A i \in 1..n : st(i).id # s
      <3>1. s \notin dur /\ journal[s].state \in {"none", "rolled_back"}
        BY <2>1 DEF Recorded
      <3> QED BY <3>1
    <2>2. ASSUME NEW i \in 1..n, st(i).id = s
          PROVE  /\ journal[s].state \in {"verified", "reverted"} => s \in dur
                 /\ journal[s].state \in {"prepared", "skipped", "rolled_back"} => s \notin dur
                 /\ over => journal[s].state # "executing"
      <3>1. /\ Entry(st(i), u(i), un, journal, dur) /\ u(i) \in 1..Len(un)
            /\ un[u(i)].state \in {"prepared", "executing", "completed"}
        BY <1>2
      <3>2. over => un[u(i)].state = "completed"
        BY <3>1
      <3> HIDE DEF st, u, un, over
      <3> QED BY <2>2, <3>1, <3>2 DEF Entry
    <2> QED BY <2>1, <2>2
  <1>4. ASSUME NEW i \in 1..n, i + 1 \in 1..n, Mode(st(i).cap) = "odoo_atomic", Mode(st(i + 1).cap) = "odoo_atomic",
               "skipped" \notin {st(i).state, st(i + 1).state}
        PROVE  st(i).id \in dur <=> st(i + 1).id \in dur
    <2>1. u(i) = u(i + 1)
      BY <1>4 DEF Wellformed, Grouped
    <2>2. /\ Entry(st(i), u(i), un, journal, dur) /\ Entry(st(i + 1), u(i), un, journal, dur)
          /\ un[u(i)].state \in {"prepared", "executing", "completed"}
      BY <1>2, <1>4, <2>1
    <2> HIDE DEF st, u, un
    <2> QED BY <1>4, <2>2 DEF Entry
  <1> QED BY <1>3, <1>4

\* What reaches the outside from an external unit that is running leaves the
\* journal true: its rows say only that it runs.
LEMMA LateRecorded ==
    ASSUME NEW plan \in PlanRow, Wellformed(plan), NEW journal, NEW dur, Recorded(plan, journal, dur), NEW late,
           \A s \in late : \E i \in 1..Len(plan.steps) :
               /\ plan.steps[i].id = s /\ Mode(plan.steps[i].cap) # "odoo_atomic"
               /\ plan.units[plan.unitOf[i]].state = "executing"
    PROVE  Recorded(plan, journal, dur \union late)
  <1>1. ASSUME NEW i \in 1..Len(plan.steps)
        PROVE  Entry(plan.steps[i], plan.unitOf[i], plan.units, journal, dur \union late)
    <2> DEFINE s == plan.steps[i]  k == plan.unitOf[i]
    <2>1. Entry(s, k, plan.units, journal, dur)
      BY DEF Recorded
    <2>2. ASSUME s.id \in late PROVE Mode(s.cap) # "odoo_atomic" /\ plan.units[k].state = "executing"
      <3>1. PICK j \in 1..Len(plan.steps) :
              /\ plan.steps[j].id = s.id /\ Mode(plan.steps[j].cap) # "odoo_atomic"
              /\ plan.units[plan.unitOf[j]].state = "executing"
        BY <2>2
      <3>2. j = i
        BY <3>1 DEF Wellformed, Grouped
      <3> QED BY <3>1, <3>2
    <2>3. Entry(s, k, plan.units, journal, dur \union late)
      <3> HIDE DEF s, k
      <3> QED BY <2>1, <2>2 DEF Entry
    <2> QED BY <2>3
  <1>2. ASSUME NEW s \in CallIds, \A i \in 1..Len(plan.steps) : plan.steps[i].id # s
        PROVE  s \notin dur \union late /\ journal[s].state \in {"none", "rolled_back"}
    BY <1>2 DEF Recorded
  <1> QED BY <1>1, <1>2 DEF Recorded

\* The classification of a failure keeps the journal true, whatever of the step
\* that was running reached the outside; a workspace is not among the units.
LEMMA FailureTrue ==
    ASSUME ShapeInv, Wellformed(turn.plan), Recorded(turn.plan, rows, durable), Transactional,
           rows' = MarkTurnFailure(turn.plan), turn'.plan = turn.plan, job' = Idle,
           NEW late \in SUBSET CallIds, durable' = durable \union late,
           \A s \in late : \E i \in 1..Len(turn.plan.steps) :
               /\ turn.plan.steps[i].id = s /\ Mode(turn.plan.steps[i].cap) # "odoo_atomic"
               /\ turn.plan.units[turn.plan.unitOf[i]].state = "executing"
    PROVE  JournalTruth'
  <1> DEFINE n == Len(turn.plan.steps)
             st(i) == turn.plan.steps[i]
             u(i) == turn.plan.unitOf[i]
             un == turn.plan.units
  <1>1. /\ turn.plan \in PlanRow /\ turn.plan.steps \in Seq(StepRow) /\ un \in Seq(UnitRow)
        /\ DOMAIN turn.plan.steps = 1..n /\ n \in Nat /\ DOMAIN un = 1..Len(un)
        /\ rows \in [CallIds -> JournalRow]
    BY DEF ShapeInv, TypeOK, TurnRow, PlanRow
  <1>2. ASSUME NEW i \in 1..n
        PROVE  /\ Entry(st(i), u(i), un, rows, durable) /\ u(i) \in DOMAIN un
               /\ un[u(i)].state \in {"prepared", "executing", "completed"}
               /\ un[u(i)].mode = Mode(st(i).cap) /\ st(i).id \in CallIds
               /\ Mode(st(i).cap) \in {"odoo_atomic", "external"}
    <2>1. u(i) \in 1..Len(un) /\ un[u(i)].mode = Mode(st(i).cap)
      BY DEF Wellformed, Grouped
    <2>2. un[u(i)] \in UnitRow /\ st(i) \in StepRow
      BY <1>1, <2>1
    <2>3. st(i).id \in CallIds /\ st(i).cap \in Capabilities
      BY <2>2 DEF StepRow
    <2>4. Mode(st(i).cap) \in {"odoo_atomic", "external"}
      BY <2>3 DEF Mode, Transactional
    <2> QED BY <1>1, <2>1, <2>2, <2>3, <2>4 DEF Recorded, UnitRow
  <1>3. ASSUME NEW s \in CallIds PROVE rows'[s].state = FailedRow(rows[s], turn.plan)
    BY <1>1, FailureTyped
  <1>4. ASSUME NEW i \in 1..n, NEW j \in 1..n, st(i).id = st(j).id PROVE i = j
    BY <1>4 DEF Wellformed, Grouped
  <1>5. ASSUME NEW i \in 1..n
        PROVE  st(i).id \in late => Mode(st(i).cap) = "external" /\ un[u(i)].state = "executing"
    BY <1>2, <1>4
  <1>6. ASSUME NEW s \in CallIds
        PROVE  /\ rows'[s].state \in {"verified", "reverted"} => s \in durable'
               /\ rows'[s].state \in {"prepared", "skipped", "rolled_back"} => s \notin durable'
               /\ rows'[s].state # "executing"
    <2>1. CASE \A i \in 1..n : st(i).id # s
      <3>1. s \notin durable /\ rows[s].state \in {"none", "rolled_back"}
        BY <2>1 DEF Recorded
      <3>2. s \notin durable'
        BY <2>1, <3>1
      <3>3. rows'[s].state \notin {"verified", "reverted", "executing"}
        BY <1>3, <3>1 DEF FailedRow
      <3> QED BY <3>2, <3>3
    <2>2. ASSUME NEW i \in 1..n, st(i).id = s
          PROVE  /\ rows'[s].state \in {"verified", "reverted"} => s \in durable'
                 /\ rows'[s].state \in {"prepared", "skipped", "rolled_back"} => s \notin durable'
                 /\ rows'[s].state # "executing"
      <3> DEFINE k == u(i)
                 row == rows[s]
      <3>1. /\ rows[s].unit = k /\ k \in DOMAIN un
            /\ un[k].state = "completed" =>
                 \/ row.state = "verified" /\ s \in durable
                 \/ row.state = "skipped" /\ s \notin durable
            /\ un[k].state = "executing" =>
                 row.state = "executing" /\ (Mode(st(i).cap) = "odoo_atomic" => s \notin durable)
            /\ un[k].state = "prepared" => row.state = "prepared" /\ s \notin durable
            /\ un[k].state \in {"prepared", "executing", "completed"}
            /\ un[k].mode = Mode(st(i).cap)
            /\ Mode(st(i).cap) \in {"odoo_atomic", "external"}
        BY <1>2, <2>2 DEF Entry
      <3>2. rows'[s].state =
              IF row.state \in {"none", "verified", "skipped", "reverted"} THEN row.state
              ELSE IF un[k].state = "completed" THEN "uncertain"
              ELSE IF un[k].state = "executing" \/ row.state = "executing"
                   THEN IF un[k].mode = "external" THEN "uncertain" ELSE "rolled_back"
              ELSE row.state
        BY <1>3, <3>1 DEF FailedRow
      <3>3. s \in late => Mode(st(i).cap) = "external" /\ un[k].state = "executing"
        BY <1>5, <2>2
      <3>4. s \in durable' <=> s \in durable \/ s \in late
        OBVIOUS
      <3> HIDE DEF st, u, un, k, row
      <3> QED BY <3>1, <3>2, <3>3, <3>4
    <2> QED BY <2>1, <2>2
  <1>7. ASSUME NEW i \in 1..n, i + 1 \in 1..n, Mode(st(i).cap) = "odoo_atomic", Mode(st(i + 1).cap) = "odoo_atomic",
               "skipped" \notin {st(i).state, st(i + 1).state}
        PROVE  st(i).id \in durable' <=> st(i + 1).id \in durable'
    <2>1. u(i) = u(i + 1)
      BY <1>7 DEF Wellformed, Grouped
    <2>2. /\ Entry(st(i), u(i), un, rows, durable) /\ Entry(st(i + 1), u(i), un, rows, durable)
          /\ un[u(i)].state \in {"prepared", "executing", "completed"}
      BY <1>2, <1>7, <2>1
    <2>3. st(i).id \notin late /\ st(i + 1).id \notin late
      BY <1>5, <1>7
    <2>4. st(i).id \in durable <=> st(i + 1).id \in durable
      <3> HIDE DEF st, u, un
      <3> QED BY <1>7, <2>2 DEF Entry
    <2> QED BY <2>3, <2>4
  <1>8. AtomicTogether'
    <2>1. turn'.plan.steps = turn.plan.steps
      OBVIOUS
    <2> QED BY <1>1, <1>7, <2>1 DEF AtomicTogether
  <1>9. job'.pc # "integrity_error"
    BY NothingTyped
  <1> QED BY <1>6, <1>8, <1>9 DEF JournalTruth

Written(step, unit) ==
    IF step.state = "completed" THEN "verified"
    ELSE IF step.state = "skipped" THEN "skipped"
    ELSE IF unit.state = "executing" THEN "executing" ELSE "prepared"

\* What a checkpoint writes into the row of a step.
LEMMA SyncRow ==
    ASSUME NEW plan \in PlanRow, Wellformed(plan), rows \in [CallIds -> JournalRow],
           NEW i \in 1..Len(plan.steps)
    PROVE  LET s == plan.steps[i].id
               w == Written(plan.steps[i], plan.units[plan.unitOf[i]])
           IN  /\ rows[s].state = "none" => SyncPlan(plan)[s].unit = plan.unitOf[i] /\ SyncPlan(plan)[s].state = w
               /\ rows[s].state \in {"verified", "skipped"} => SyncPlan(plan)[s] = rows[s]
               /\ rows[s].state \in {"prepared", "executing"} =>
                    SyncPlan(plan)[s].unit = rows[s].unit /\ SyncPlan(plan)[s].state = w
  <1> DEFINE s == plan.steps[i].id
             w == Written(plan.steps[i], plan.units[plan.unitOf[i]])
  <1>1. plan.steps[i] \in StepRow
    BY DEF PlanRow
  <1>2. s \in CallIds /\ rows[s] \in JournalRow
    BY <1>1 DEF StepRow
  <1>3. SyncPlan(plan)[s] = IF s \in Existing THEN RowUpdates(rows[s], RowValues(plan, i)) ELSE RowValues(plan, i)
    BY SyncTyped
  <1>4. RowValues(plan, i).unit = plan.unitOf[i] /\ RowValues(plan, i).state = w
    <2> DEFINE ps == plan.steps[i].state
               us == plan.units[plan.unitOf[i]].state
               st == CASE ps = "completed" -> "verified" [] ps = "skipped" -> "skipped"
                       [] ps = "previewed" /\ us = "executing" -> "executing" [] OTHER -> "prepared"
    <2>1. RowValues(plan, i) = [state |-> st, unit |-> plan.unitOf[i], cap |-> plan.steps[i].cap,
                                before |-> plan.steps[i].before]
      BY DEF RowValues
    <2>2. RowValues(plan, i).unit = plan.unitOf[i] /\ RowValues(plan, i).state = st
      <3> HIDE DEF st
      <3> QED BY <2>1
    <2>3. w = IF ps = "completed" THEN "verified" ELSE IF ps = "skipped" THEN "skipped"
              ELSE IF us = "executing" THEN "executing" ELSE "prepared"
      BY DEF Written
    <2>4. ps \in {"previewed", "completed", "skipped"}
      BY <1>1 DEF StepRow
    <2>5. st = w
      <3> HIDE DEF w, ps, us
      <3> QED BY <2>3, <2>4
    <2> QED BY <2>2, <2>5
  <1>5. s \in Existing <=> rows[s].state \notin {"none", "rolled_back", "reverted"}
    BY <1>2 DEF Existing
  <1> HIDE DEF s, w
  <1>6. RowUpdates(rows[s], RowValues(plan, i)) =
          IF rows[s].state \in {"verified", "skipped"} THEN rows[s] ELSE [rows[s] EXCEPT !.state = w]
    BY <1>4 DEF RowUpdates
  <1>7. [rows[s] EXCEPT !.state = w].state = w /\ [rows[s] EXCEPT !.state = w].unit = rows[s].unit
    BY <1>2 DEF JournalRow
  <1>8. rows[s].state = "none" => SyncPlan(plan)[s].unit = plan.unitOf[i] /\ SyncPlan(plan)[s].state = w
    BY <1>3, <1>4, <1>5
  <1>9. rows[s].state \in {"verified", "skipped"} => SyncPlan(plan)[s] = rows[s]
    BY <1>3, <1>5, <1>6
  <1>10. rows[s].state \in {"prepared", "executing"} =>
            SyncPlan(plan)[s].unit = rows[s].unit /\ SyncPlan(plan)[s].state = w
    BY <1>3, <1>5, <1>6, <1>7
  <1> QED BY <1>8, <1>9, <1>10 DEF s, w

\* A row whose step is not in the plan is left alone.
LEMMA SyncOther ==
    ASSUME NEW plan \in PlanRow, NEW s \in CallIds, \A i \in 1..Len(plan.steps) : plan.steps[i].id # s
    PROVE  SyncPlan(plan)[s] = rows[s]
  <1>1. plan.steps \in Seq(StepRow)
    BY DEF PlanRow
  <1>2. DOMAIN plan.steps = 1..Len(plan.steps)
    BY <1>1
  <1> QED BY <1>2 DEF SyncPlan

\* Behind the checkpoint that begins a unit the journal is about the plan.
LEMMA BeginRecorded ==
    ASSUME ShapeInv, JournalInv, BeforeUnit, ~stop, ~SyncRefused(job.plan), ~Collides(job.plan)
    PROVE  Recorded(job.plan, rows', durable')
  <1> DEFINE plan == job.plan
             n == Len(plan.steps)
             st(i) == plan.steps[i]
             u(i) == plan.unitOf[i]
             un == plan.units
  <1>1. /\ plan \in PlanRow /\ plan.steps \in Seq(StepRow) /\ un \in Seq(UnitRow) /\ plan.unitOf \in Seq(Nat)
        /\ DOMAIN plan.steps = 1..n /\ n \in Nat /\ job.unit \in 1..Len(un) /\ Wellformed(plan)
        /\ rows \in [CallIds -> JournalRow] /\ turn.barrier \in BOOLEAN
        /\ AtCheckpoint /\ turn.state = "running" /\ job.unit \in Nat
    BY DEF ShapeInv, TypeOK, JobRow, PlanRow, Shape, BeforeUnit, JournalInv, JobInv, TurnRow
  <1>2. rows' = SyncPlan(plan) /\ durable' = durable
    BY BeginFacts
  <1>3. ASSUME NEW i \in 1..n
        PROVE  /\ u(i) \in 1..Len(un) /\ u(i) \in Nat /\ st(i).id \in CallIds
               /\ un[u(i)].state = IF u(i) < job.unit THEN "completed" ELSE IF u(i) = job.unit THEN "executing" ELSE "prepared"
               /\ IF u(i) < job.unit THEN st(i).state \in Resolved ELSE st(i).state = "previewed"
    <2>1. u(i) \in 1..Len(un)
      BY <1>1 DEF Wellformed, Grouped
    <2>2. st(i) \in StepRow
      BY <1>1
    <2>3. un[u(i)].state = IF u(i) < job.unit THEN "completed" ELSE IF u(i) = job.unit THEN "executing" ELSE "prepared"
      BY <1>1, <2>1 DEF AtCheckpoint, Phase
    <2>4. IF u(i) < job.unit THEN st(i).state \in Resolved ELSE st(i).state = "previewed"
      BY <1>1 DEF AtCheckpoint, StepsAt
    <2>5. st(i).id \in CallIds
      BY <2>2 DEF StepRow
    <2> QED BY <2>1, <2>3, <2>4, <2>5
  <1>4. ASSUME NEW i \in 1..n PROVE Entry(st(i), u(i), un, rows', durable')
    <2> DEFINE s == st(i).id
               w == Written(st(i), un[u(i)])
    <2>1. /\ rows[s].state = "none" => rows'[s].unit = u(i) /\ rows'[s].state = w
          /\ rows[s].state \in {"verified", "skipped"} => rows'[s] = rows[s]
          /\ rows[s].state \in {"prepared", "executing"} => rows'[s].unit = rows[s].unit /\ rows'[s].state = w
      BY <1>1, <1>2, SyncRow
    <2>2. CASE ~turn.barrier
      <3>1. rows[s].state = "none" /\ s \notin durable /\ job.unit = 1
        BY <1>1, <2>2 DEF JournalInv, QuietInv, Still, Blank, AtCheckpoint
      <3>2. un[u(i)].state = (IF u(i) = job.unit THEN "executing" ELSE "prepared") /\ st(i).state = "previewed"
        <4>1. u(i) >= 1
          BY <1>3
        <4> QED BY <1>3, <3>1, <4>1
      <3>3. w = un[u(i)].state
        BY <3>2 DEF Written
      <3> HIDE DEF st, u, un, w
      <3> QED BY <1>2, <2>1, <3>1, <3>2, <3>3 DEF Entry, s
    <2>3. CASE turn.barrier
      <3>1. /\ Recorded(turn.plan, rows, durable) /\ turn.plan.steps = plan.steps /\ turn.plan.unitOf = plan.unitOf
            /\ Len(turn.plan.units) = Len(un) /\ Phase(turn.plan, job.unit, "prepared")
        BY <1>1, <2>3 DEF JournalInv, CommittedInv, AtCheckpoint, Alike
      <3>2. Entry(st(i), u(i), turn.plan.units, rows, durable)
        BY <3>1 DEF Recorded
      <3>3. turn.plan.units[u(i)].state = IF u(i) < job.unit THEN "completed" ELSE "prepared"
        BY <1>3, <3>1 DEF Phase
      <3>4. CASE u(i) < job.unit
        <4>1. un[u(i)].state = "completed" /\ rows[s].state \in {"verified", "skipped"}
          BY <1>3, <3>2, <3>3, <3>4 DEF Entry
        <4>2. rows'[s] = rows[s]
          BY <2>1, <4>1
        <4> HIDE DEF st, u, un
        <4> QED BY <1>2, <3>2, <3>3, <3>4, <4>1, <4>2 DEF Entry, s
      <3>5. CASE ~(u(i) < job.unit)
        <4>1. rows[s].state = "prepared" /\ s \notin durable /\ rows[s].unit = u(i)
          BY <3>2, <3>3, <3>5 DEF Entry
        <4>2. un[u(i)].state = (IF u(i) = job.unit THEN "executing" ELSE "prepared") /\ st(i).state = "previewed"
          BY <1>3, <3>5
        <4>3. w = un[u(i)].state
          BY <4>2 DEF Written
        <4> HIDE DEF st, u, un, w
        <4> QED BY <1>2, <2>1, <4>1, <4>2, <4>3 DEF Entry, s
      <3> QED BY <3>4, <3>5
    <2> QED BY <1>1, <2>2, <2>3
  <1>5. ASSUME NEW s \in CallIds, \A i \in 1..n : st(i).id # s
        PROVE  s \notin durable' /\ rows'[s].state \in {"none", "rolled_back"}
    <2>1. rows'[s] = rows[s]
      BY <1>1, <1>2, <1>5, SyncOther
    <2>2. CASE ~turn.barrier
      <3>1. s \notin durable /\ rows[s].state \in {"none", "rolled_back", "skipped"}
        BY <2>2 DEF JournalInv, QuietInv, Still
      <3>2. s \notin Ids(plan)
        BY <1>1, <1>5 DEF Ids
      <3>3. s \notin Existing
        BY <3>2 DEF SyncRefused
      <3>4. rows[s].state # "skipped"
        BY <3>3 DEF Existing
      <3> QED BY <1>2, <2>1, <3>1, <3>4
    <2>3. CASE turn.barrier
      <3>1. Recorded(turn.plan, rows, durable) /\ turn.plan.steps = plan.steps
        BY <1>1, <2>3 DEF JournalInv, CommittedInv, AtCheckpoint, Alike
      <3> QED BY <1>2, <1>5, <2>1, <3>1 DEF Recorded
    <2> QED BY <1>1, <2>2, <2>3
  <1> QED BY <1>4, <1>5 DEF Recorded

\* Behind the checkpoint that ends a unit it is about the plan again, and the
\* worker stands before the next unit.
LEMMA AfterRecorded ==
    ASSUME ShapeInv, JournalInv, job.pc = "unit_done", NEW plan \in PlanRow, Wellformed(plan),
           plan.steps = job.plan.steps, plan.unitOf = job.plan.unitOf,
           Len(plan.units) = Len(job.plan.units), plan.units[job.unit].state = "completed",
           \A m \in 1..Len(plan.units) : m # job.unit => plan.units[m] = job.plan.units[m]
    PROVE  /\ Recorded(plan, SyncPlan(plan), durable \union CompletedIds)
           /\ Phase(plan, job.unit + 1, "prepared") /\ StepsAt(plan, job.unit + 1)
  <1> DEFINE n == Len(plan.steps)
             st(i) == plan.steps[i]
             u(i) == plan.unitOf[i]
             un == plan.units
             old(i) == turn.plan.steps[i]
             was == turn.plan.units
             dur == durable \union CompletedIds
             journal == SyncPlan(plan)
  <1>1. /\ plan.steps \in Seq(StepRow) /\ un \in Seq(UnitRow) /\ plan.unitOf \in Seq(Nat)
        /\ DOMAIN plan.steps = 1..n /\ n \in Nat /\ job.unit \in 1..Len(un) /\ job.unit \in Nat
        /\ rows \in [CallIds -> JournalRow] /\ InUnit /\ turn.state = "running"
    BY DEF ShapeInv, TypeOK, JobRow, PlanRow, Shape, JournalInv, JobInv
  <1>2. /\ Recorded(turn.plan, rows, durable) /\ Len(turn.plan.steps) = n /\ turn.plan.unitOf = plan.unitOf
        /\ Len(was) = Len(un) /\ Phase(job.plan, job.unit, "executing") /\ Phase(turn.plan, job.unit, "executing")
        /\ StepsAt(turn.plan, job.unit)
    BY <1>1 DEF JournalInv, CommittedInv, InUnit, Alike
  <1>3. ASSUME NEW m \in 1..Len(un)
        PROVE  un[m].state = IF m < job.unit + 1 THEN "completed" ELSE "prepared"
    <2>1. CASE m = job.unit
      BY <1>1, <2>1
    <2>2. CASE m # job.unit
      <3>1. un[m].state = IF m < job.unit THEN "completed" ELSE "prepared"
        BY <1>2, <2>2 DEF Phase
      <3> QED BY <1>1, <2>2, <3>1
    <2> QED BY <2>1, <2>2
  <1>4. Phase(plan, job.unit + 1, "prepared")
    BY <1>3 DEF Phase
  <1>5. ASSUME NEW i \in 1..n
        PROVE  /\ u(i) \in 1..Len(un) /\ u(i) \in Nat /\ st(i).id \in CallIds
               /\ st(i).id = old(i).id /\ st(i).cap = old(i).cap
               /\ was[u(i)].state = IF u(i) < job.unit THEN "completed" ELSE IF u(i) = job.unit THEN "executing" ELSE "prepared"
               /\ un[u(i)].state = IF u(i) <= job.unit THEN "completed" ELSE "prepared"
               /\ u(i) # job.unit => st(i).state = old(i).state
               /\ u(i) < job.unit => old(i).state \in Resolved
               /\ u(i) > job.unit => old(i).state = "previewed"
               /\ u(i) = job.unit => st(i).state \in Resolved /\ (st(i).state # "completed" => st(i).id \notin durable)
               /\ Entry(old(i), u(i), was, rows, durable)
    <2>1. u(i) \in 1..Len(un) /\ u(i) \in Nat
      BY <1>1 DEF Wellformed, Grouped
    <2>2. st(i) \in StepRow
      BY <1>1
    <2>3. st(i).id \in CallIds
      BY <2>2 DEF StepRow
    <2>4. st(i).id = old(i).id /\ st(i).cap = old(i).cap
      BY <1>1, <1>2 DEF InUnit, Alike
    <2>5. was[u(i)].state = IF u(i) < job.unit THEN "completed" ELSE IF u(i) = job.unit THEN "executing" ELSE "prepared"
      BY <1>2, <2>1 DEF Phase
    <2>6. un[u(i)].state = IF u(i) <= job.unit THEN "completed" ELSE "prepared"
      <3>1. un[u(i)].state = IF u(i) < job.unit + 1 THEN "completed" ELSE "prepared"
        BY <1>3, <2>1
      <3>2. u(i) < job.unit + 1 <=> u(i) <= job.unit
        BY <1>1, <2>1
      <3> QED BY <3>1, <3>2
    <2>7. IF u(i) # job.unit THEN st(i).state = old(i).state
          ELSE st(i).state \in Resolved /\ (st(i).state # "completed" => st(i).id \notin durable)
      BY <1>1 DEF InUnit
    <2>8. IF u(i) < job.unit THEN old(i).state \in Resolved ELSE old(i).state = "previewed"
      BY <1>2 DEF StepsAt
    <2>9. Entry(old(i), u(i), was, rows, durable)
      BY <1>2 DEF Recorded
    <2> HIDE DEF st, u, un, old, was
    <2> QED BY <1>1, <2>1, <2>3, <2>4, <2>5, <2>6, <2>7, <2>8, <2>9
  <1>6. StepsAt(plan, job.unit + 1)
    <2> SUFFICES ASSUME NEW i \in 1..n
                 PROVE  IF u(i) < job.unit + 1 THEN st(i).state \in Resolved ELSE st(i).state = "previewed"
      BY DEF StepsAt
    <2>1. u(i) < job.unit \/ u(i) = job.unit \/ u(i) > job.unit
      BY <1>1, <1>5
    <2> HIDE DEF n, st, u, un, old, was
    <2> QED BY <1>1, <1>5, <2>1
  <1>7. ASSUME NEW i \in 1..n PROVE st(i).id \in CompletedIds <=> st(i).state = "completed"
    <2>1. \A j \in 1..n : st(j).id = st(i).id => j = i
      BY DEF Wellformed, Grouped
    <2> QED BY <1>1, <2>1 DEF CompletedIds
  <1>8. ASSUME NEW i \in 1..n PROVE Entry(st(i), u(i), un, journal, dur)
    <2> DEFINE s == st(i).id
               w == Written(st(i), un[u(i)])
    <2>1. /\ rows[s].state \in {"verified", "skipped"} => journal[s] = rows[s]
          /\ rows[s].state \in {"prepared", "executing"} => journal[s].unit = rows[s].unit /\ journal[s].state = w
      BY <1>1, SyncRow
    <2>2. s \in dur <=> (s \in durable \/ st(i).state = "completed")
      BY <1>7
    <2>3. Entry(old(i), u(i), was, rows, durable) /\ s = old(i).id /\ u(i) \in Nat
      BY <1>5
    <2>8. /\ was[u(i)].state = IF u(i) < job.unit THEN "completed" ELSE IF u(i) = job.unit THEN "executing" ELSE "prepared"
          /\ un[u(i)].state = IF u(i) <= job.unit THEN "completed" ELSE "prepared"
          /\ u(i) # job.unit => st(i).state = old(i).state
          /\ u(i) > job.unit => old(i).state = "previewed"
      BY <1>5
    <2>4. CASE u(i) < job.unit
      <3>1. was[u(i)].state = "completed" /\ un[u(i)].state = "completed" /\ st(i).state = old(i).state
        <4> HIDE DEF st, u, un, old, was
        <4> QED BY <1>1, <2>3, <2>4, <2>8
      <3> HIDE DEF st, u, un, old, was, s, w, dur, journal
      <3>2. /\ rows[s].unit = u(i)
            /\ \/ st(i).state = "completed" /\ rows[s].state = "verified" /\ s \in durable
               \/ st(i).state = "skipped" /\ rows[s].state = "skipped" /\ s \notin durable
        BY <2>3, <3>1 DEF Entry
      <3> QED BY <2>1, <2>2, <3>1, <3>2 DEF Entry, s
    <2>5. CASE u(i) = job.unit
      <3>1. was[u(i)].state = "executing" /\ un[u(i)].state = "completed" /\ st(i).state \in Resolved
            /\ (st(i).state # "completed" => st(i).id \notin durable)
        BY <1>1, <1>5, <2>5
      <3>2. w = IF st(i).state = "completed" THEN "verified" ELSE "skipped"
        BY <3>1 DEF Written, Resolved
      <3> HIDE DEF st, u, un, old, was, w, dur, journal
      <3>3. rows[s].unit = u(i) /\ rows[s].state = "executing"
        BY <2>3, <3>1 DEF Entry
      <3> QED BY <2>1, <2>2, <3>1, <3>2, <3>3 DEF Entry, Resolved
    <2>6. CASE u(i) > job.unit
      <3>1. was[u(i)].state = "prepared" /\ un[u(i)].state = "prepared" /\ st(i).state = "previewed"
        <4> HIDE DEF st, u, un, old, was
        <4> QED BY <1>1, <2>3, <2>6, <2>8
      <3>2. w = "prepared"
        BY <3>1 DEF Written
      <3> HIDE DEF st, u, un, old, was, w, dur, journal
      <3>3. rows[s].unit = u(i) /\ rows[s].state = "prepared" /\ s \notin durable
        BY <2>3, <3>1 DEF Entry
      <3> QED BY <2>1, <2>2, <3>1, <3>2, <3>3 DEF Entry
    <2>7. u(i) < job.unit \/ u(i) = job.unit \/ u(i) > job.unit
      BY <1>1, <1>5
    <2> QED BY <2>4, <2>5, <2>6, <2>7
  <1>9. ASSUME NEW s \in CallIds, \A i \in 1..n : st(i).id # s
        PROVE  s \notin dur /\ journal[s].state \in {"none", "rolled_back"}
    <2>1. journal[s] = rows[s]
      BY <1>9, SyncOther
    <2>2. \A i \in 1..n : old(i).id # s
      <3>1. \A i \in 1..n : st(i).id = old(i).id
        BY <1>5
      <3> QED BY <1>9, <3>1
    <2>3. s \notin durable /\ rows[s].state \in {"none", "rolled_back"}
      BY <1>2, <2>2 DEF Recorded
    <2>4. s \notin CompletedIds
      BY <1>1, <1>9 DEF CompletedIds
    <2> QED BY <2>1, <2>3, <2>4
  <1>10. Recorded(plan, journal, dur)
    BY <1>8, <1>9 DEF Recorded
  <1> QED BY <1>4, <1>6, <1>10

\* No row that an earlier plan left has the id of a step that is about to be recorded.
LEMMA NoCollision ==
    ASSUME ShapeInv, JournalInv, job.pc = "before_unit"
    PROVE  ~Collides(job.plan)
  <1>1. /\ job.plan.steps \in Seq(StepRow) /\ DOMAIN job.plan.steps = 1..Len(job.plan.steps)
        /\ turn.state = "running" /\ AtCheckpoint /\ turn.barrier \in BOOLEAN
        /\ Wellformed(job.plan)
    BY DEF ShapeInv, TypeOK, JobRow, TurnRow, PlanRow, Shape, JournalInv, JobInv
  <1>2. ASSUME NEW i \in 1..Len(job.plan.steps)
        PROVE  rows[job.plan.steps[i].id].state = "none" \/ job.plan.steps[i].id \in Existing
    <2> DEFINE s == job.plan.steps[i].id
               k == job.plan.unitOf[i]
    <2>1. CASE ~turn.barrier
      BY <2>1 DEF JournalInv, QuietInv, Blank
    <2>2. CASE turn.barrier
      <3>1. /\ Recorded(turn.plan, rows, durable) /\ turn.plan.steps = job.plan.steps
            /\ turn.plan.unitOf = job.plan.unitOf /\ Len(turn.plan.units) = Len(job.plan.units)
            /\ Phase(turn.plan, job.unit, "prepared")
        BY <1>1, <2>2 DEF JournalInv, CommittedInv, AtCheckpoint, Alike
      <3>2. Entry(job.plan.steps[i], k, turn.plan.units, rows, durable)
        BY <3>1 DEF Recorded
      <3>3. k \in 1..Len(job.plan.units)
        BY <1>1 DEF Wellformed, Grouped
      <3>4. turn.plan.units[k].state \in {"completed", "prepared"}
        BY <3>1, <3>3 DEF Phase
      <3>5. rows[s].state \in {"verified", "skipped", "prepared"}
        BY <3>2, <3>4 DEF Entry
      <3>6. job.plan.steps[i] \in StepRow
        BY <1>1
      <3>7. s \in CallIds
        BY <3>6 DEF StepRow
      <3> QED BY <3>5, <3>7 DEF Existing
    <2> QED BY <1>1, <2>1, <2>2
  <1> QED BY <1>1, <1>2 DEF Collides, Ids

\* A turn without write barrier, before and after a step.
LEMMA QuietNext ==
    ASSUME Still', turn'.barrier = FALSE, Blank(job.plan)', UsedInv',
           \/ job'.pc \in {"idle", "reasoning"}
           \/ job'.pc = "preflight" /\ job'.unit = 1 /\ Unstarted(job'.plan),
           \/ turn'.state \in Terminal
           \/ Blank(turn.plan)' /\ (turn'.plan = NoPlan \/ Unstarted(turn'.plan))
    PROVE  JournalInv'
  <1>1. QuietInv'
    BY DEF QuietInv
  <1>2. CommittedInv'
    BY DEF CommittedInv
  <1>3. JobInv'
    BY DEF JobInv, AtPreflight, Unstarted
  <1>4. JournalTruth'
    BY DEF Still, JournalTruth, AtomicTogether
  <1>5. EndInv'
    BY <1>4 DEF EndInv
  <1> QED BY <1>1, <1>2, <1>3, <1>5 DEF JournalInv

\* A failure, a stop or a recovery ends the turn with a true journal.
LEMMA FailureNext ==
    ASSUME ShapeInv, JournalInv, turn.state = "running",
           NEW state \in Terminal, EndFailed(state)
    PROVE  JournalInv'
  <1>0. turn \in TurnRow /\ rows \in [CallIds -> JournalRow] /\ turn.barrier \in BOOLEAN /\ turn.plan \in PlanRow
    BY DEF ShapeInv, TypeOK, TurnRow
  <1>1. /\ turn'.state = state /\ turn'.barrier = turn.barrier /\ turn'.plan = turn.plan
        /\ turn.barrier => rows' = MarkTurnFailure(turn.plan)
        /\ ~turn.barrier => rows' = rows
        /\ job' = Idle /\ UNCHANGED <<used, durable>>
    BY <1>0, EndFacts
  <1>2. job'.pc = "idle" /\ job'.plan = NoPlan /\ Len(job'.plan.steps) = 0
    BY <1>1, NothingTyped
  <1>3. ASSUME NEW s \in CallIds PROVE rows'[s].state # "none" => rows[s].state # "none"
    <2>1. CASE ~turn.barrier
      BY <1>1, <2>1
    <2>2. CASE turn.barrier
      <3>1. rows'[s].state = FailedRow(rows[s], turn.plan)
        BY <1>0, <1>1, <2>2, FailureTyped
      <3> QED BY <3>1 DEF FailedRow
    <2> QED BY <1>0, <2>1, <2>2
  <1>4. UsedInv'
    BY <1>1, <1>2, <1>3 DEF JournalInv, UsedInv, Known
  <1>5. CASE ~turn.barrier
    <2>1. Still'
      BY <1>1, <1>5 DEF JournalInv, QuietInv, Still
    <2>2. Blank(job.plan)'
      BY <1>2 DEF Blank
    <2> QED BY <1>0, <1>1, <1>2, <1>4, <1>5, <2>1, <2>2, QuietNext
  <1>6. CASE turn.barrier
    <2>1. Wellformed(turn.plan) /\ Recorded(turn.plan, rows, durable)
      BY <1>6 DEF JournalInv, CommittedInv
    <2>2. ASSUME Transactional PROVE JournalTruth'
      <3>1. durable' = durable \union {} /\ {} \in SUBSET CallIds
        BY <1>1
      <3> QED BY <1>1, <1>6, <2>1, <2>2, <3>1, FailureTrue
    <2>3. turn'.barrier /\ turn'.state \in Terminal /\ turn'.state \notin {"running", "awaiting", "queued"}
      BY <1>1, <1>6 DEF Terminal
    <2> QED BY <1>2, <1>4, <2>2, <2>3 DEF JournalInv, QuietInv, CommittedInv, JobInv, EndInv
  <1> QED BY <1>0, <1>5, <1>6

\* Two states of a plan and a third.
LEMMA AlikeMore ==
    ASSUME NEW p, NEW q, NEW r, Alike(p, q), Alike(q, r)
    PROVE  Alike(p, r)
  BY DEF Alike

\* A step that ran or was skipped inside its unit.
LEMMA MarkedNext ==
    ASSUME ShapeInv, JournalInv, job.pc = "running",
           NEW state \in Resolved, NEW outcome \in {"complete", "partial", "blocked", "skipped"},
           job'.plan = MarkStep(job.plan, job.step, state, outcome),
           job'.unit = job.unit, job'.step = job.step + 1,
           IF job.step + 1 \in StepsOf(job'.plan, job.unit) THEN job'.pc = "running" ELSE job'.pc = "unit_done",
           UNCHANGED <<turn, used, rows>>, NEW late, late \subseteq {Current.id}, durable' = durable \union late,
           late # {} => state = "completed" /\ Mode(Current.cap) # "odoo_atomic"
    PROVE  JournalInv'
  <1> DEFINE n == Len(job.plan.steps)
             st(i) == job.plan.steps[i]
             u(i) == job.plan.unitOf[i]
             nw(i) == job'.plan.steps[i]
             old(i) == turn.plan.steps[i]
             here == job.step
  <1>1. /\ job.plan \in PlanRow /\ turn.plan \in PlanRow /\ job.plan.steps \in Seq(StepRow)
        /\ DOMAIN job.plan.steps = 1..n /\ n \in Nat
        /\ Wellformed(job.plan) /\ job.unit \in 1..Len(job.plan.units) /\ job.unit \in Nat
        /\ InUnit /\ turn.state = "running" /\ job.plan.unitOf \in Seq(Nat)
        /\ here \in StepsOf(job.plan, job.unit)
    BY DEF ShapeInv, TypeOK, JobRow, TurnRow, PlanRow, Shape, JournalInv, JobInv
  <1>2. here \in 1..n /\ u(here) = job.unit /\ here \in Nat /\ n \in Nat /\ job.unit \in Nat
    <2>1. here \in 1..n /\ u(here) = job.unit
      BY <1>1 DEF StepsOf
    <2>2. n \in Nat /\ job.unit \in Nat
      BY <1>1
    <2> HIDE DEF n, here, u
    <2> QED BY <2>1, <2>2
  <1>3. /\ Alike(job.plan, job'.plan) /\ job'.plan.units = job.plan.units
        /\ \A j \in 1..n : j # here => nw(j) = st(j)
        /\ nw(here).state = state
    <2>1. job.plan \in PlanRow /\ job.step \in 1..Len(job.plan.steps)
      BY <1>1, <1>2
    <2>2. LET q == MarkStep(job.plan, job.step, state, outcome) IN
          /\ Alike(job.plan, q) /\ q.units = job.plan.units
          /\ \A j \in 1..Len(job.plan.steps) : j # job.step => q.steps[j] = job.plan.steps[j]
          /\ q.steps[job.step].state = state
      BY <2>1, StepMarked
    <2> QED BY <2>2
  <1>4. /\ Len(job'.plan.steps) = n /\ job'.plan.unitOf = job.plan.unitOf
        /\ \A j \in 1..n : nw(j).id = st(j).id
    BY <1>3 DEF Alike
  <1>5. \A i, j \in 1..n : st(i).id = st(j).id => i = j
    BY <1>1 DEF Wellformed, Grouped
  <1>6. \A i, j \in 1..n : i <= j => u(i) <= u(j)
    BY <1>1 DEF Wellformed, Grouped
  <1>7. \A i \in 1..n : u(i) \in Nat
    BY <1>1 DEF Wellformed, Grouped
  <1>8. ASSUME NEW i \in 1..n, u(i) = job.unit, i > here PROVE job'.pc = "running"
    <2>1. here + 1 \in 1..n /\ here <= here + 1 /\ here + 1 <= i
      <3> HIDE DEF n, here
      <3> QED BY <1>2, <1>8
    <2>2. u(here) <= u(here + 1) /\ u(here + 1) <= u(i)
      BY <1>2, <1>6, <2>1
    <2>3. u(here + 1) = job.unit
      <3>1. u(here + 1) \in Nat
        BY <1>7, <2>1
      <3> HIDE DEF u
      <3> QED BY <1>2, <1>8, <2>2, <3>1
    <2>4. DOMAIN job'.plan.steps = 1..n
      <3>1. job'.plan \in PlanRow
        BY <1>1, <1>2, StepMarked
      <3>2. job'.plan.steps \in Seq(StepRow)
        BY <3>1 DEF PlanRow
      <3> QED BY <1>4, <3>2
    <2>5. here + 1 \in StepsOf(job'.plan, job.unit)
      BY <1>4, <2>1, <2>3, <2>4 DEF StepsOf
    <2> QED BY <2>5
  <1>9. ASSUME NEW i \in 1..n
        PROVE  IF u(i) # job.unit THEN nw(i).state = old(i).state
               ELSE /\ (job'.pc = "unit_done" \/ i < job'.step) => nw(i).state \in Resolved
                    /\ (job'.pc = "running" /\ i >= job'.step) => nw(i).state = "previewed"
                    /\ nw(i).state # "completed" => nw(i).id \notin durable'
    <2>0. IF u(i) # job.unit THEN st(i).state = old(i).state
          ELSE /\ i < here => st(i).state \in Resolved
               /\ i >= here => st(i).state = "previewed"
               /\ st(i).state # "completed" => st(i).id \notin durable
      BY <1>1 DEF InUnit
    <2>1. CASE i = here
      <3>1. u(i) = job.unit /\ nw(i).state = state /\ nw(i).id = st(i).id /\ i < job'.step
        BY <1>2, <1>3, <1>4, <2>1
      <3>2. st(i).id \notin durable
        BY <2>0, <2>1, <3>1, <1>2
      <3>3. state # "completed" => late = {}
        OBVIOUS
      <3>4. ~(i >= job'.step)
        BY <3>1, <1>2, <2>1
      <3> HIDE DEF nw, st, u
      <3> QED BY <3>1, <3>2, <3>3, <3>4
    <2>2. CASE i # here
      <3>1. nw(i) = st(i)
        BY <1>3, <2>2
      <3>2. CASE u(i) # job.unit
        BY <2>0, <3>1, <3>2
      <3>3. CASE u(i) = job.unit
        <4>1. st(i).id # Current.id
          BY <1>2, <1>5, <2>2 DEF Current
        <4>2. st(i).id \notin late
          BY <4>1
        <4>3. i < here + 1 => i < here
          BY <1>2, <2>2
        <4>4. i > here => job'.pc = "running"
          BY <1>8, <3>3
        <4>5. i < here \/ i > here
          BY <1>2, <2>2
        <4>6. i >= here + 1 => i >= here
          BY <1>2
        <4>7. job'.pc = "unit_done" => i < here
          BY <4>4, <4>5
        <4> HIDE DEF nw, st, u
        <4> QED BY <2>0, <3>1, <3>3, <4>2, <4>3, <4>6, <4>7
      <3> QED BY <3>2, <3>3
    <2> QED BY <2>1, <2>2
  <1>10. InUnit'
    <2>1. Alike(turn.plan, job'.plan)
      BY <1>1, <1>3, AlikeMore DEF InUnit
    <2>2. Phase(job'.plan, job.unit, "executing")
      BY <1>1, <1>3 DEF InUnit, Phase
    <2>3. turn.barrier /\ Phase(turn.plan, job.unit, "executing") /\ StepsAt(turn.plan, job.unit)
      BY <1>1 DEF InUnit
    <2> QED BY <1>4, <1>9, <2>1, <2>2, <2>3 DEF InUnit
  <1>11. Recorded(turn.plan, rows, durable \union late) /\ Wellformed(turn.plan)
    <2>1. /\ Alike(turn.plan, job.plan) /\ turn.barrier /\ Phase(turn.plan, job.unit, "executing")
          /\ Wellformed(turn.plan) /\ Recorded(turn.plan, rows, durable)
      BY <1>1 DEF InUnit, JournalInv, CommittedInv
    <2>2. /\ Len(turn.plan.steps) = n /\ turn.plan.unitOf = job.plan.unitOf
          /\ Len(turn.plan.units) = Len(job.plan.units)
          /\ old(here).id = Current.id /\ old(here).cap = Current.cap
      BY <1>2, <2>1 DEF Alike, Current
    <2>3. turn.plan.units[turn.plan.unitOf[here]].state = "executing"
      <3>1. job.unit \in 1..Len(turn.plan.units)
        BY <1>1, <2>2
      <3>2. turn.plan.units[job.unit].state = "executing"
        BY <1>2, <2>1, <3>1 DEF Phase
      <3> QED BY <1>2, <2>2, <3>2
    <2>4. \A s \in late : \E i \in 1..Len(turn.plan.steps) :
               /\ turn.plan.steps[i].id = s /\ Mode(turn.plan.steps[i].cap) # "odoo_atomic"
               /\ turn.plan.units[turn.plan.unitOf[i]].state = "executing"
      BY <1>2, <2>2, <2>3
    <2> QED BY <1>1, <2>1, <2>4, LateRecorded
  <1>12. UsedInv'
    <2>1. Known(job.plan)'
      BY <1>4 DEF JournalInv, UsedInv, Known
    <2> QED BY <2>1 DEF JournalInv, UsedInv, Known
  <1>13. turn.barrier
    BY <1>1 DEF InUnit
  <1>14. QuietInv' /\ CommittedInv' /\ EndInv'
    <2>1. "running" \notin Terminal
      BY DEF Terminal
    <2> QED BY <1>1, <1>11, <1>13, <2>1 DEF QuietInv, CommittedInv, EndInv
  <1>15. JobInv'
    BY <1>10 DEF JobInv
  <1> QED BY <1>12, <1>14, <1>15 DEF JournalInv

\* A failed step of the running unit: the turn ends with a true journal, or, for
\* a single Odoo-local unit that left nothing, the plan goes back to the model.
LEMMA FailedNext ==
    ASSUME ShapeInv, JournalInv, StepFails
    PROVE  JournalInv'
  <1>0. /\ job.pc = "running" /\ UNCHANGED used /\ turn.plan \in PlanRow /\ rows \in [CallIds -> JournalRow]
        /\ durable \subseteq CallIds
    BY DEF StepFails, ShapeInv, TypeOK, TurnRow
  <1>1. /\ job.step \in 1..Len(job.plan.steps) /\ job.plan.unitOf[job.step] = job.unit
        /\ Wellformed(job.plan) /\ Current \in StepRow
        /\ \/ durable' = durable
           \/ durable' = durable \union {Current.id} /\ Mode(Current.cap) # "odoo_atomic"
        /\ rows' = MarkTurnFailure(turn.plan)
    BY FailFacts
  <1>2. /\ InUnit /\ turn.state = "running" /\ job.unit \in 1..Len(job.plan.units) /\ turn.barrier
        /\ Wellformed(turn.plan) /\ Recorded(turn.plan, rows, durable)
    BY <1>0 DEF JournalInv, JobInv, InUnit, CommittedInv, ShapeInv, Shape
  <1>3. /\ Len(turn.plan.steps) = Len(job.plan.steps) /\ turn.plan.unitOf = job.plan.unitOf
        /\ Len(turn.plan.units) = Len(job.plan.units)
        /\ turn.plan.steps[job.step].id = Current.id /\ turn.plan.steps[job.step].cap = Current.cap
        /\ \A k \in 1..Len(turn.plan.units) : turn.plan.units[k].mode = job.plan.units[k].mode
        /\ turn.plan.units[job.unit].state = "executing"
    <2>1. Alike(turn.plan, job.plan) /\ Phase(turn.plan, job.unit, "executing")
      BY <1>2 DEF InUnit
    <2>2. Len(turn.plan.units) = Len(job.plan.units)
      BY <2>1 DEF Alike
    <2>3. turn.plan.units[job.unit].state = "executing"
      BY <1>2, <2>1, <2>2 DEF Phase
    <2> QED BY <1>1, <2>1, <2>3 DEF Alike, Current
  <1>4. ASSUME NEW s \in CallIds PROVE rows'[s].state # "none" => s \in used
    <2>1. rows'[s].state = FailedRow(rows[s], turn.plan)
      BY <1>0, <1>1, FailureTyped
    <2>2. rows[s].state = "none" => rows'[s].state = "none"
      BY <2>1 DEF FailedRow
    <2> QED BY <2>2 DEF JournalInv, UsedInv
  <1>5. ASSUME turn'.state \in {"recovery_required", "cancelled"}, turn'.plan = turn.plan,
               turn'.barrier = turn.barrier, job' = Idle
        PROVE  JournalInv'
    <2>1. PICK late \in SUBSET CallIds :
            durable' = durable \union late /\ late \subseteq {Current.id}
            /\ (late # {} => Mode(Current.cap) # "odoo_atomic")
      <3>1. Current.id \in CallIds
        BY <1>1 DEF StepRow
      <3>2. CASE durable' = durable
        <4>1. {} \in SUBSET CallIds /\ durable' = durable \union {}
          BY <3>2
        <4> QED BY <4>1
      <3>3. CASE durable' = durable \union {Current.id} /\ Mode(Current.cap) # "odoo_atomic"
        <4>1. {Current.id} \in SUBSET CallIds
          BY <3>1
        <4> QED BY <3>3, <4>1
      <3> QED BY <1>1, <3>2, <3>3
    <2>2. \A s \in late : \E i \in 1..Len(turn.plan.steps) :
               /\ turn.plan.steps[i].id = s /\ Mode(turn.plan.steps[i].cap) # "odoo_atomic"
               /\ turn.plan.units[turn.plan.unitOf[i]].state = "executing"
      BY <1>1, <1>3, <2>1
    <2>3. ASSUME Transactional PROVE JournalTruth'
      BY <1>1, <1>2, <1>5, <2>1, <2>2, <2>3, FailureTrue
    <2>4. job'.pc = "idle" /\ job'.plan = NoPlan /\ Len(job'.plan.steps) = 0
      BY <1>5, NothingTyped
    <2>5. UsedInv'
      BY <1>0, <1>4, <1>5, <2>4 DEF JournalInv, UsedInv, Known
    <2>6. turn'.state \notin {"running", "awaiting", "queued"} /\ turn'.barrier
      BY <1>2, <1>5
    <2> QED BY <2>3, <2>4, <2>5, <2>6 DEF JournalInv, QuietInv, CommittedInv, JobInv, EndInv
  <1>6. ASSUME turn'.barrier = FALSE, turn'.plan = NoPlan, job'.plan = NoPlan,
               Len(job.plan.units) = 1, job.plan.units[1].mode = "odoo_atomic",
               AllRolledBack(MarkTurnFailure(turn.plan)), job'.pc \in {"idle", "reasoning"}
        PROVE  JournalInv'
    <2>1. job.unit = 1
      BY <1>2, <1>6
    <2>2. ASSUME NEW i \in 1..Len(turn.plan.steps) PROVE Mode(turn.plan.steps[i].cap) = "odoo_atomic" /\ turn.plan.unitOf[i] = 1
      <3>1. turn.plan.unitOf[i] \in 1..Len(turn.plan.units)
            /\ turn.plan.units[turn.plan.unitOf[i]].mode = Mode(turn.plan.steps[i].cap)
        BY <1>2 DEF Wellformed, Grouped
      <3>2. turn.plan.unitOf[i] = 1 /\ 1 \in 1..Len(turn.plan.units)
        BY <1>3, <1>6, <3>1
      <3> QED BY <1>3, <1>6, <3>1, <3>2
    <2>3. durable' = durable
      BY <1>1, <1>3, <2>2
    <2>4. durable = {}
      <3> SUFFICES ASSUME NEW s \in durable PROVE FALSE
        OBVIOUS
      <3>1. PICK i \in 1..Len(turn.plan.steps) : turn.plan.steps[i].id = s
        BY <1>0, <1>2 DEF Recorded
      <3>2. Entry(turn.plan.steps[i], turn.plan.unitOf[i], turn.plan.units, rows, durable)
        BY <1>2 DEF Recorded
      <3>3. turn.plan.units[turn.plan.unitOf[i]].state = "executing" /\ Mode(turn.plan.steps[i].cap) = "odoo_atomic"
        BY <1>3, <2>1, <2>2
      <3> QED BY <3>1, <3>2, <3>3 DEF Entry
    <2>5. Still'
      <3>1. \A s \in CallIds : rows'[s].state \in {"none", "rolled_back", "skipped"}
        BY <1>1, <1>6 DEF AllRolledBack
      <3> QED BY <2>3, <2>4, <3>1 DEF Still
    <2>6. Len(NoPlan.steps) = 0
      BY NothingTyped
    <2>7. UsedInv' /\ Blank(job.plan)' /\ Blank(turn.plan)'
      BY <1>0, <1>4, <1>6, <2>6 DEF UsedInv, Known, Blank
    <2> QED BY <1>6, <2>5, <2>7, QuietNext
  <1>7. \/ /\ turn'.state \in {"recovery_required", "cancelled"} /\ turn'.plan = turn.plan
           /\ turn'.barrier = turn.barrier /\ job' = Idle
        \/ /\ turn'.barrier = FALSE /\ turn'.plan = NoPlan /\ job'.plan = NoPlan
           /\ Len(job.plan.units) = 1 /\ job.plan.units[1].mode = "odoo_atomic"
           /\ AllRolledBack(MarkTurnFailure(turn.plan))
           /\ job' = Idle \/ job'.pc = "reasoning"
    BY FailFacts
  <1> QED BY <1>5, <1>6, <1>7, NothingTyped

\* The checkpoint that begins a unit.
LEMMA BegunNext ==
    ASSUME ShapeInv, JournalInv, BeforeUnit, ~stop, ~SyncRefused(job.plan)
    PROVE  JournalInv'
  <1> DEFINE n == Len(job.plan.steps)
  <1>0. job.pc = "before_unit" /\ ~Collides(job.plan)
    BY NoCollision DEF BeforeUnit
  <1>1. /\ rows' = SyncPlan(job.plan)
        /\ turn'.barrier = TRUE /\ turn'.plan = job.plan /\ turn'.state = turn.state
        /\ job'.pc = "running" /\ job'.plan = job.plan /\ job'.unit = job.unit
        /\ job'.step \in StepsOf(job.plan, job.unit)
        /\ \A i \in StepsOf(job.plan, job.unit) : job'.step <= i
        /\ UNCHANGED <<used, durable>>
    BY <1>0, BeginFacts
  <1>2. /\ job.plan \in PlanRow /\ job.plan.steps \in Seq(StepRow) /\ Wellformed(job.plan) /\ job.unit \in Nat
        /\ DOMAIN job.plan.steps = 1..n /\ AtCheckpoint /\ turn.state = "running" /\ turn.barrier \in BOOLEAN
    BY <1>0 DEF ShapeInv, TypeOK, JobRow, TurnRow, PlanRow, Shape, JournalInv, JobInv
  <1>3. Recorded(job.plan, rows', durable')
    BY <1>0, BeginRecorded
  <1>4. Phase(job.plan, job.unit, "executing") /\ StepsAt(job.plan, job.unit)
    BY <1>2 DEF AtCheckpoint
  <1>5. ASSUME NEW i \in 1..n, job.plan.unitOf[i] = job.unit
        PROVE  /\ job.plan.steps[i].state = "previewed" /\ ~(i < job'.step)
               /\ job.plan.steps[i].id \notin durable'
    <2>1. job.plan.steps[i].state = "previewed"
      BY <1>2, <1>4, <1>5 DEF StepsAt
    <2>2. i \in StepsOf(job.plan, job.unit) /\ job'.step \in Nat
      BY <1>1, <1>2, <1>5 DEF StepsOf
    <2>3. ~(i < job'.step)
      BY <1>1, <2>2
    <2>4. CASE ~turn.barrier
      <3>1. durable = {}
        BY <2>4 DEF JournalInv, QuietInv, Still
      <3> QED BY <1>1, <2>1, <2>3, <3>1
    <2>5. CASE turn.barrier
      <3>1. /\ Recorded(turn.plan, rows, durable) /\ turn.plan.steps = job.plan.steps
            /\ turn.plan.unitOf = job.plan.unitOf /\ Len(turn.plan.units) = Len(job.plan.units)
            /\ Phase(turn.plan, job.unit, "prepared")
        BY <1>2, <2>5 DEF JournalInv, CommittedInv, AtCheckpoint, Alike
      <3>2. Entry(job.plan.steps[i], job.unit, turn.plan.units, rows, durable)
        BY <1>5, <3>1 DEF Recorded
      <3>3. job.unit \in 1..Len(turn.plan.units)
        BY <1>0, <3>1 DEF ShapeInv, Shape
      <3>4. turn.plan.units[job.unit].state = "prepared"
        BY <1>2, <3>1, <3>3 DEF Phase
      <3>5. job.plan.steps[i].id \notin durable
        BY <3>2, <3>4 DEF Entry
      <3> QED BY <1>1, <2>1, <2>3, <3>5
    <2> QED BY <1>2, <2>4, <2>5
  <1>6. ASSUME NEW i \in 1..n
        PROVE  IF job.plan.unitOf[i] # job.unit THEN job.plan.steps[i].state = job.plan.steps[i].state
               ELSE /\ (job'.pc = "unit_done" \/ i < job'.step) => job.plan.steps[i].state \in Resolved
                    /\ (job'.pc = "running" /\ i >= job'.step) => job.plan.steps[i].state = "previewed"
                    /\ job.plan.steps[i].state # "completed" => job.plan.steps[i].id \notin durable'
    BY <1>1, <1>5
  <1>7. Alike(job.plan, job.plan)
    BY DEF Alike
  <1>8. InUnit'
    BY <1>1, <1>4, <1>6, <1>7 DEF InUnit
  <1>9. ASSUME NEW s \in CallIds PROVE rows'[s].state # "none" => s \in used'
    <2>1. CASE \E i \in 1..n : job.plan.steps[i].id = s
      BY <1>1, <2>1 DEF JournalInv, UsedInv, Known
    <2>2. CASE \A i \in 1..n : job.plan.steps[i].id # s
      <3>1. rows'[s] = rows[s]
        BY <1>1, <1>2, <2>2, SyncOther
      <3> QED BY <1>1, <3>1 DEF JournalInv, UsedInv
    <2> QED BY <2>1, <2>2
  <1>10. UsedInv'
    BY <1>1, <1>9 DEF JournalInv, UsedInv, Known
  <1>11. QuietInv' /\ CommittedInv' /\ EndInv'
    <2>1. "running" \notin Terminal
      BY DEF Terminal
    <2> QED BY <1>1, <1>2, <1>3, <2>1 DEF QuietInv, CommittedInv, EndInv
  <1>12. JobInv'
    BY <1>1, <1>8 DEF JobInv
  <1> QED BY <1>10, <1>11, <1>12 DEF JournalInv

\* The checkpoint that ends a unit, and the commit that ends the plan.
LEMMA DoneNext ==
    ASSUME ShapeInv, JournalInv, AfterUnit \/ FinishPlan
    PROVE  JournalInv'
  <1> DEFINE mark == MarkUnit(job.plan, job.unit, "completed")
  <1>0. job.pc = "unit_done" /\ UNCHANGED used
    BY DEF AfterUnit, FinishPlan
  <1>1. /\ job.plan \in PlanRow /\ job.unit \in 1..Len(job.plan.units) /\ Wellformed(job.plan)
        /\ mark \in PlanRow /\ Wellformed(mark)
    BY <1>0, DoneFacts
  <1>2. /\ mark.steps = job.plan.steps /\ mark.unitOf = job.plan.unitOf
        /\ Len(mark.units) = Len(job.plan.units) /\ mark.units[job.unit].state = "completed"
        /\ \A m \in 1..Len(mark.units) : m # job.unit => mark.units[m] = job.plan.units[m]
    <2>1. /\ Alike(job.plan, mark) /\ mark.steps = job.plan.steps
          /\ Len(mark.units) = Len(job.plan.units) /\ mark.units[job.unit].state = "completed"
          /\ \A m \in 1..Len(job.plan.units) : m # job.unit => mark.units[m] = job.plan.units[m]
      BY <1>1, UnitMarked
    <2> QED BY <2>1 DEF Alike
  <1>3. InUnit /\ turn.barrier /\ turn.state = "running"
    BY <1>0 DEF JournalInv, JobInv, InUnit, ShapeInv, Shape
  <1>4. PICK plan \in PlanRow :
          /\ Wellformed(plan) /\ plan.steps = job.plan.steps /\ plan.unitOf = job.plan.unitOf
          /\ plan.units = mark.units /\ turn'.plan = plan /\ rows' = SyncPlan(plan)
          /\ durable' = durable \union CompletedIds /\ turn'.barrier = turn.barrier
          /\ \/ turn'.state = turn.state /\ job'.pc = "preflight" /\ job'.plan = plan /\ job'.unit = job.unit + 1
             \/ turn'.state = "completed" /\ job' = Idle /\ job.unit = Len(job.plan.units)
    <2>1. CASE AfterUnit
      <3>1. /\ rows' = SyncPlan(mark) /\ turn'.state = turn.state /\ turn'.barrier = turn.barrier
            /\ turn'.plan = mark /\ job'.pc = "preflight" /\ job'.plan = mark /\ job'.unit = job.unit + 1
            /\ durable' = durable \union CompletedIds
        BY <2>1, AfterFacts
      <3> HIDE DEF mark
      <3> QED BY <1>1, <1>2, <3>1
    <2>2. CASE FinishPlan
      <3> DEFINE q == [mark EXCEPT !.state = "completed"]
      <3>1. /\ q \in PlanRow /\ Wellformed(q) /\ q.steps = job.plan.steps /\ q.unitOf = job.plan.unitOf
            /\ q.units = mark.units /\ rows' = SyncPlan(q) /\ turn'.state = "completed"
            /\ turn'.barrier = turn.barrier /\ turn'.plan = q
            /\ durable' = durable \union CompletedIds /\ job' = Idle
        BY <2>2, FinishFacts
      <3>2. job.unit = Len(job.plan.units)
        BY <2>2 DEF FinishPlan
      <3> HIDE DEF q, mark
      <3> QED BY <3>1, <3>2
    <2> QED BY <2>1, <2>2
  <1>5. /\ Recorded(plan, rows', durable')
        /\ Phase(plan, job.unit + 1, "prepared") /\ StepsAt(plan, job.unit + 1)
    <2> HIDE DEF mark
    <2> QED BY <1>0, <1>2, <1>4, AfterRecorded
  <1>6. ASSUME NEW s \in CallIds PROVE rows'[s].state # "none" => s \in used'
    <2>1. CASE \E i \in 1..Len(plan.steps) : plan.steps[i].id = s
      BY <1>0, <1>4, <2>1 DEF JournalInv, UsedInv, Known
    <2>2. CASE \A i \in 1..Len(plan.steps) : plan.steps[i].id # s
      <3>1. rows'[s] = rows[s]
        BY <1>4, <2>2, SyncOther
      <3> QED BY <1>0, <3>1 DEF JournalInv, UsedInv
    <2> QED BY <2>1, <2>2
  <1>7. \A i \in 1..Len(plan.steps) : plan.steps[i].id \in used'
    BY <1>0, <1>4 DEF JournalInv, UsedInv, Known
  <1>8. CASE turn'.state = turn.state /\ job'.pc = "preflight" /\ job'.plan = plan /\ job'.unit = job.unit + 1
    <2>1. UsedInv'
      BY <1>4, <1>6, <1>7, <1>8 DEF UsedInv, Known
    <2>2. "running" \notin Terminal
      BY DEF Terminal
    <2>3. QuietInv' /\ CommittedInv' /\ EndInv'
      BY <1>3, <1>4, <1>5, <1>8, <2>2 DEF QuietInv, CommittedInv, EndInv
    <2>4. JobInv'
      BY <1>3, <1>4, <1>5, <1>8 DEF JobInv, AtPreflight
    <2> QED BY <2>1, <2>3, <2>4 DEF JournalInv
  <1>9. CASE turn'.state = "completed" /\ job' = Idle /\ job.unit = Len(job.plan.units)
    <2>1. job'.pc = "idle" /\ job'.plan = NoPlan /\ Len(job'.plan.steps) = 0
      BY <1>9, NothingTyped
    <2>2. UsedInv'
      BY <1>4, <1>6, <1>7, <2>1 DEF UsedInv, Known
    <2>3. \A k \in 1..Len(plan.units) : plan.units[k].state = "completed"
      <3>1. Len(plan.units) = job.unit /\ job.unit \in Nat
        BY <1>1, <1>2, <1>4, <1>9 DEF PlanRow
      <3> QED BY <1>5, <3>1 DEF Phase
    <2>4. plan.steps \in Seq(StepRow)
      BY DEF PlanRow
    <2>5. DOMAIN plan.steps = 1..Len(plan.steps)
      BY <2>4
    <2>6. /\ \A s \in CallIds :
               /\ rows'[s].state \in {"verified", "reverted"} => s \in durable'
               /\ rows'[s].state \in {"prepared", "skipped", "rolled_back"} => s \notin durable'
               /\ rows'[s].state # "executing"
          /\ \A i \in 1..Len(plan.steps) :
               /\ i + 1 \in 1..Len(plan.steps)
               /\ Mode(plan.steps[i].cap) = "odoo_atomic" /\ Mode(plan.steps[i + 1].cap) = "odoo_atomic"
               /\ "skipped" \notin {plan.steps[i].state, plan.steps[i + 1].state}
               => (plan.steps[i].id \in durable' <=> plan.steps[i + 1].id \in durable')
      BY <1>4, <1>5, <2>3, RecordedTrue
    <2>7. AtomicTogether'
      BY <1>4, <2>5, <2>6 DEF AtomicTogether
    <2>8. JournalTruth'
      BY <2>1, <2>6, <2>7 DEF JournalTruth
    <2> QED BY <1>3, <1>4, <1>9, <2>1, <2>2, <2>8 DEF JournalInv, QuietInv, CommittedInv, JobInv, EndInv
  <1> QED BY <1>4, <1>8, <1>9

\* A worker that dies leaves what reached the outside, and the committed journal.
LEMMA CrashNext ==
    ASSUME ShapeInv, JournalInv, Crash
    PROVE  JournalInv'
  <1> DEFINE danger == job.pc = "running" /\ Mode(Current.cap) # "odoo_atomic"
  <1>1. /\ job.pc # "idle" /\ job' = Idle /\ UNCHANGED <<turn, used, rows>>
        /\ durable' = durable \/ (danger /\ durable' = durable \union {Current.id})
    BY DEF Crash
  <1>2. /\ turn.state = "running" /\ turn.barrier \in BOOLEAN /\ turn.plan \in PlanRow
    BY <1>1 DEF ShapeInv, Shape, TypeOK, TurnRow
  <1>3. job'.pc = "idle" /\ job'.plan = NoPlan /\ Len(job'.plan.steps) = 0
    BY <1>1, NothingTyped
  <1>4. UsedInv'
    BY <1>1, <1>3 DEF JournalInv, UsedInv, Known
  <1>5. CASE ~turn.barrier
    <2>1. job.pc # "running"
      BY <1>5 DEF JournalInv, JobInv, InUnit
    <2>2. Still'
      BY <1>1, <1>5, <2>1 DEF JournalInv, QuietInv, Still
    <2>3. turn.state \notin Terminal
      BY <1>2 DEF Terminal
    <2>4. Blank(job.plan)' /\ Blank(turn.plan)' /\ (turn.plan = NoPlan \/ Unstarted(turn.plan))
      BY <1>1, <1>3, <1>5, <2>3 DEF JournalInv, QuietInv, Blank
    <2> QED BY <1>1, <1>2, <1>3, <1>4, <1>5, <2>2, <2>4, QuietNext
  <1>6. CASE turn.barrier
    <2>1. Wellformed(turn.plan) /\ Recorded(turn.plan, rows, durable)
      BY <1>2, <1>6 DEF JournalInv, CommittedInv
    <2>2. Recorded(turn.plan, rows, durable')
      <3>1. CASE durable' = durable
        BY <2>1, <3>1
      <3>2. CASE danger /\ durable' = durable \union {Current.id}
        <4>1. /\ InUnit /\ job.step \in StepsOf(job.plan, job.unit) /\ job.plan \in PlanRow
              /\ job.unit \in 1..Len(job.plan.units) /\ job.unit \in Nat
          BY <3>2 DEF JournalInv, JobInv, ShapeInv, Shape, TypeOK, JobRow
        <4>2. job.step \in 1..Len(job.plan.steps) /\ job.plan.unitOf[job.step] = job.unit
          <5>1. job.plan.steps \in Seq(StepRow)
            BY <4>1 DEF PlanRow
          <5> QED BY <4>1, <5>1 DEF StepsOf
        <4>3. Alike(turn.plan, job.plan) /\ Phase(turn.plan, job.unit, "executing")
          BY <4>1 DEF InUnit
        <4>4. /\ Len(turn.plan.steps) = Len(job.plan.steps) /\ turn.plan.unitOf = job.plan.unitOf
              /\ Len(turn.plan.units) = Len(job.plan.units)
              /\ turn.plan.steps[job.step].id = Current.id /\ turn.plan.steps[job.step].cap = Current.cap
          BY <4>2, <4>3 DEF Alike, Current
        <4>5. turn.plan.units[job.unit].state = "executing"
          BY <4>1, <4>3, <4>4 DEF Phase
        <4>6. \A s \in {Current.id} : \E i \in 1..Len(turn.plan.steps) :
               /\ turn.plan.steps[i].id = s /\ Mode(turn.plan.steps[i].cap) # "odoo_atomic"
               /\ turn.plan.units[turn.plan.unitOf[i]].state = "executing"
          BY <3>2, <4>2, <4>4, <4>5
        <4> QED BY <1>2, <2>1, <3>2, <4>6, LateRecorded
      <3> QED BY <1>1, <3>1, <3>2
    <2>3. "running" \notin Terminal
      BY DEF Terminal
    <2>4. QuietInv' /\ CommittedInv' /\ EndInv'
      BY <1>1, <1>2, <1>6, <2>1, <2>2, <2>3 DEF QuietInv, CommittedInv, EndInv
    <2>5. JobInv'
      BY <1>3 DEF JobInv
    <2> QED BY <1>4, <2>4, <2>5 DEF JournalInv
  <1> QED BY <1>2, <1>5, <1>6

\* At the start nothing is recorded.
LEMMA JournalInit ==
    ASSUME Init
    PROVE  JournalInv
  <1>1. /\ turn = [state |-> "running", barrier |-> FALSE, plan |-> NoPlan, human |-> FALSE, reversion |-> "none"]
        /\ used = {} /\ durable = {} /\ job = [Idle EXCEPT !.pc = "reasoning"]
        /\ rows = [s \in CallIds |-> NoRow]
    BY DEF Init
  <1>2. turn.state = "running" /\ turn.barrier = FALSE /\ turn.plan = NoPlan
    BY <1>1
  <1>3. job.pc = "reasoning" /\ job.plan = NoPlan
    BY <1>1, NothingTyped DEF JobRow
  <1>4. \A s \in CallIds : rows[s].state = "none"
    BY <1>1 DEF NoRow
  <1>5. Len(NoPlan.steps) = 0
    BY NothingTyped
  <1>6. Still /\ Blank(job.plan) /\ Blank(turn.plan) /\ UsedInv
    BY <1>1, <1>2, <1>3, <1>4, <1>5 DEF Still, Blank, UsedInv, Known
  <1>7. "running" \notin Terminal
    BY DEF Terminal
  <1> QED BY <1>2, <1>3, <1>6, <1>7 DEF JournalInv, QuietInv, CommittedInv, JobInv, EndInv

\* A plan in another plan state is as far as it was.
LEMMA RelabelledUnstarted ==
    ASSUME NEW plan \in PlanRow, Unstarted(plan), NEW q, q.steps = plan.steps, q.unitOf = plan.unitOf,
           q.units = plan.units
    PROVE  Unstarted(q)
  BY DEF Unstarted, Wellformed, Phase, StepsAt

\* A proposed plan has new step ids: no row has one of them.
LEMMA ProposedNext ==
    ASSUME ShapeInv, JournalInv, Propose
    PROVE  JournalInv'
  <1>0. /\ TypeOK /\ turn \in TurnRow /\ job \in JobRow /\ job.pc = "reasoning" /\ turn.state = "running"
        /\ UNCHANGED <<rows, durable>> /\ turn.plan \in PlanRow
    BY DEF ShapeInv, TypeOK, Shape, Propose, TurnRow
  <1>1. turn.barrier = FALSE
    BY <1>0 DEF JournalInv, JobInv, TurnRow
  <1>2. Still /\ Blank(turn.plan) /\ (turn.plan = NoPlan \/ Unstarted(turn.plan))
    BY <1>0, <1>1 DEF JournalInv, QuietInv, Terminal
  <1>3. Still'
    BY <1>0, <1>2 DEF Still
  <1>4. PICK steps \in Seq(StepRow) :
          /\ Len(steps) > 0
          /\ \A i, j \in 1..Len(steps) : steps[i].id = steps[j].id => i = j
          /\ \A i \in 1..Len(steps) : steps[i].state = "previewed"
                                      /\ (RecordSubset(steps[i].cap) => steps[i].recs # {})
                                      /\ steps[i].before \in [steps[i].recs -> Values]
          /\ \A i \in 1..Len(steps) : steps[i].id \notin used /\ steps[i].id \in used'
          /\ used' \subseteq CallIds /\ used \subseteq used'
          /\ Prepared(NewPlan(steps))
    BY <1>0, ProposedFacts
  <1> DEFINE plan == NewPlan(steps)
             auth == [plan EXCEPT !.state = "authorized"]
  <1>5. plan \in PlanRow /\ Unstarted(plan) /\ plan.steps = steps /\ Prepared(plan)
    BY <1>4, NewPlanUnstarted
  <1> HIDE DEF plan
  <1>6. auth.steps = plan.steps /\ auth.unitOf = plan.unitOf /\ auth.units = plan.units
    BY <1>5, PlanMarked DEF PlanStates
  <1> HIDE DEF auth
  <1>7. Unstarted(auth)
    BY <1>5, <1>6, RelabelledUnstarted
  <1>8. ASSUME NEW i \in 1..Len(plan.steps) PROVE rows[plan.steps[i].id].state = "none" /\ plan.steps[i].id \in used'
    <2>1. steps[i].id \notin used /\ steps[i].id \in used' /\ steps[i] \in StepRow
      BY <1>4, <1>5
    <2>2. steps[i].id \in CallIds
      BY <2>1 DEF StepRow
    <2> QED BY <1>5, <2>1, <2>2 DEF JournalInv, UsedInv
  <1>9. /\ turn'.barrier = turn.barrier
        /\ \/ turn' = turn /\ job'.pc = "preflight" /\ job'.unit = 1 /\ job'.plan = auth
           \/ turn'.plan = plan /\ job' = Idle /\ turn'.state = "awaiting"
           \/ turn' = turn /\ job'.pc = "preflight" /\ job'.unit = 1 /\ job'.plan = plan
    BY <1>0, <1>5, PreparedFacts DEF auth
  <1>10. /\ \A s \in CallIds : rows'[s].state # "none" => s \in used'
         /\ \A i \in 1..Len(turn.plan.steps) : turn.plan.steps[i].id \in used'
    BY <1>0, <1>4 DEF JournalInv, UsedInv, Known
  <1>11. CASE turn' = turn /\ job'.pc = "preflight" /\ job'.unit = 1 /\ job'.plan \in {plan, auth}
    <2>1. Unstarted(job'.plan) /\ job'.plan.steps = plan.steps
      BY <1>5, <1>6, <1>7, <1>11
    <2>2. Blank(job.plan)' /\ Blank(turn.plan)'
      BY <1>0, <1>2, <1>8, <1>11, <2>1 DEF Blank
    <2>3. UsedInv'
      BY <1>8, <1>10, <1>11, <2>1 DEF UsedInv, Known
    <2> QED BY <1>1, <1>2, <1>3, <1>11, <2>1, <2>2, <2>3, QuietNext
  <1>12. CASE turn'.plan = plan /\ job' = Idle /\ turn'.state = "awaiting"
    <2>1. job'.pc = "idle" /\ job'.plan = NoPlan /\ Len(job'.plan.steps) = 0
      BY <1>12, NothingTyped
    <2>2. Blank(job.plan)' /\ Blank(turn.plan)'
      BY <1>0, <1>8, <1>12, <2>1 DEF Blank
    <2>3. UsedInv'
      BY <1>8, <1>10, <1>12, <2>1 DEF UsedInv, Known
    <2> QED BY <1>1, <1>3, <1>5, <1>9, <1>12, <2>1, <2>2, <2>3, QuietNext
  <1> QED BY <1>9, <1>11, <1>12

\* Whatever the step, the journal stays about what happened.
LEMMA JournalStep ==
    ASSUME ShapeInv, JournalInv, [Next]_vars
    PROVE  JournalInv'
  <1>0. /\ TypeOK /\ turn \in TurnRow /\ job \in JobRow /\ job.plan \in PlanRow /\ turn.plan \in PlanRow
        /\ job.source \in PlanRow /\ job.calls \in [Capabilities -> Nat] /\ rows \in [CallIds -> JournalRow]
        /\ turn.barrier \in BOOLEAN /\ turn.state \in {"running", "awaiting", "queued"} \union Terminal
    BY DEF ShapeInv, TypeOK, JobRow, TurnRow
  <1>A. job.pc # "idle" => turn.state = "running"
    BY DEF ShapeInv, Shape
  <1>B. /\ job.pc = "reasoning" => ~turn.barrier
        /\ turn.state \in {"awaiting", "queued"} => ~turn.barrier
        /\ Len(NoPlan.steps) = 0
    BY NothingTyped DEF JournalInv, JobInv, EndInv
  <1>Q. /\ ~turn.barrier => Still /\ Blank(job.plan)
        /\ ~turn.barrier /\ turn.state \notin Terminal =>
              Blank(turn.plan) /\ (turn.plan = NoPlan \/ Unstarted(turn.plan))
    BY DEF JournalInv, QuietInv
  <1>U. /\ \A s \in CallIds : rows[s].state # "none" => s \in used
        /\ \A i \in 1..Len(turn.plan.steps) : turn.plan.steps[i].id \in used
        /\ \A i \in 1..Len(job.plan.steps) : job.plan.steps[i].id \in used
    BY DEF JournalInv, UsedInv, Known
  <1>T. {"running", "awaiting", "queued"} \cap Terminal = {}
    BY DEF Terminal
  <1>1. ASSUME UNCHANGED <<turn, used, rows, durable, job>> PROVE JournalInv'
    <2>1. QuietInv' /\ UsedInv'
      BY <1>1 DEF JournalInv, QuietInv, UsedInv, Still, Blank, Known
    <2>2. CommittedInv'
      BY <1>1 DEF JournalInv, CommittedInv
    <2>3. JobInv'
      <3>1. AtPreflight => AtPreflight'
        BY <1>1 DEF AtPreflight
      <3>2. AtCheckpoint => AtCheckpoint'
        BY <1>1 DEF AtCheckpoint
      <3>3. InUnit => InUnit'
        BY <1>1 DEF InUnit
      <3> QED BY <1>1, <3>1, <3>2, <3>3 DEF JournalInv, JobInv
    <2>4. EndInv'
      BY <1>1 DEF JournalInv, EndInv, JournalTruth, AtomicTogether
    <2> QED BY <2>1, <2>2, <2>3, <2>4 DEF JournalInv
  <1>2. CASE UNCHANGED vars
    BY <1>1, <1>2 DEF vars
  <1>3. ASSUME ~turn.barrier, turn'.barrier = FALSE, UNCHANGED <<used, rows, durable>>,
               job'.plan = NoPlan, job'.pc \in {"idle", "reasoning"},
               \/ turn'.plan = NoPlan
               \/ turn'.state \in Terminal /\ turn'.plan.steps = turn.plan.steps
               \/ /\ turn.state \notin Terminal /\ turn'.plan.steps = turn.plan.steps
                  /\ turn'.plan.unitOf = turn.plan.unitOf /\ turn'.plan.units = turn.plan.units
                  /\ turn.plan # NoPlan \/ turn'.plan = NoPlan
        PROVE  JournalInv'
    <2>1. Still' /\ Blank(job.plan)'
      BY <1>3, <1>B, <1>Q DEF Still, Blank
    <2>2. UsedInv'
      BY <1>3, <1>B, <1>U DEF UsedInv, Known
    <2>3. CASE turn'.plan = NoPlan
      <3>1. Blank(turn.plan)'
        BY <1>B, <2>3 DEF Blank
      <3> QED BY <1>3, <2>1, <2>2, <2>3, <3>1, QuietNext
    <2>4. CASE turn'.state \in Terminal
      BY <1>3, <2>1, <2>2, <2>4, QuietNext
    <2>5. CASE /\ turn.state \notin Terminal /\ turn'.plan.steps = turn.plan.steps
               /\ turn'.plan.unitOf = turn.plan.unitOf /\ turn'.plan.units = turn.plan.units
               /\ turn.plan # NoPlan
      <3>1. Unstarted(turn'.plan)
        BY <1>0, <1>3, <1>Q, <2>5, RelabelledUnstarted
      <3>2. Blank(turn.plan)'
        BY <1>3, <1>Q, <2>5 DEF Blank
      <3> QED BY <1>3, <2>1, <2>2, <3>1, <3>2, QuietNext
    <2> QED BY <1>3, <2>3, <2>4, <2>5
  <1>4. CASE Answer
    <2>1. turn' = [turn EXCEPT !.state = "completed"] /\ job' = Idle /\ UNCHANGED <<used, rows, durable>>
          /\ job.pc = "reasoning"
      BY <1>4 DEF Answer
    <2>2. turn'.state \in Terminal /\ turn'.plan = turn.plan /\ turn'.barrier = turn.barrier
      BY <1>0, <2>1 DEF TurnRow, Terminal
    <2> QED BY <1>0, <1>3, <1>B, <2>1, <2>2, NothingTyped
  <1>5. CASE Propose
    BY <1>5, ProposedNext
  <1>6. CASE PrepareFails
    <2>1. Repaired(job.source, job.calls) /\ UNCHANGED <<used, rows, durable>> /\ ~turn.barrier
      BY <1>6 DEF PrepareFails
    <2>2. turn'.barrier = FALSE /\ turn'.plan = NoPlan /\ job'.plan = NoPlan /\ job'.pc \in {"idle", "reasoning"}
      BY <1>0, <2>1, RepairedFacts, NothingTyped
    <2> QED BY <1>3, <2>1, <2>2
  <1>7. CASE Approve \/ Reject
    <2>1. PICK state \in {"authorized", "rejected"} :
            /\ turn'.plan = [turn.plan EXCEPT !.state = state]
            /\ turn'.barrier = turn.barrier
      BY <1>0, <1>7 DEF Approve, Reject, TurnRow
    <2>2. UNCHANGED <<used, rows, durable, job>> /\ turn.state = "awaiting"
      BY <1>7 DEF Approve, Reject
    <2>3. /\ turn'.plan.steps = turn.plan.steps /\ turn'.plan.unitOf = turn.plan.unitOf
          /\ turn'.plan.units = turn.plan.units
      BY <1>0, <2>1, PlanMarked DEF PlanStates
    <2>4. job.pc = "idle" /\ job.plan = NoPlan /\ Wellformed(turn.plan)
      BY <1>A, <2>2 DEF ShapeInv, Shape
    <2>5. turn.plan # NoPlan
      BY <2>4, <1>B DEF Wellformed, Grouped
    <2> QED BY <1>0, <1>3, <1>B, <1>T, <2>1, <2>2, <2>3, <2>4, <2>5
  <1>8. CASE Resume
    <2>1. /\ turn' = [turn EXCEPT !.state = "running"] /\ UNCHANGED <<used, rows, durable>> /\ turn.state = "queued"
      BY <1>8 DEF Resume
    <2>2. turn'.plan = turn.plan /\ turn'.state = "running" /\ turn'.barrier = turn.barrier
      BY <1>0, <2>1 DEF TurnRow
    <2>3. turn.state \notin Terminal /\ turn.barrier = FALSE
      BY <1>0, <1>B, <1>T, <2>1
    <2>4. CASE turn.plan = NoPlan
      <3>1. job' = [Idle EXCEPT !.pc = "reasoning"]
        BY <1>8, <2>4 DEF Resume
      <3>2. job'.pc = "reasoning" /\ job'.plan = NoPlan
        BY <3>1, NothingTyped DEF JobRow
      <3> QED BY <1>3, <2>1, <2>2, <2>3, <2>4, <3>2
    <2>5. CASE turn.plan # NoPlan
      <3>1. job' = [Idle EXCEPT !.pc = "preflight", !.plan = turn.plan, !.human = turn.human, !.unit = 1]
        BY <1>8, <2>5 DEF Resume
      <3>2. job'.pc = "preflight" /\ job'.plan = turn.plan /\ job'.unit = 1
        BY <3>1, NothingTyped DEF JobRow
      <3>3. Unstarted(turn.plan) /\ Still /\ Blank(turn.plan)
        BY <1>Q, <2>3, <2>5
      <3>4. Still' /\ Blank(job.plan)' /\ Blank(turn.plan)'
        BY <2>1, <2>2, <3>2, <3>3 DEF Still, Blank
      <3>5. UsedInv'
        BY <1>U, <2>1, <2>2, <3>2 DEF UsedInv, Known
      <3> QED BY <2>2, <2>3, <3>2, <3>3, <3>4, <3>5, QuietNext
    <2> QED BY <2>4, <2>5
  <1>9. (Fail \/ Cancel) /\ turn.state = "running" => JournalInv'
    <2>1. {"recovery_required", "failed", "cancelled"} \subseteq Terminal
      BY DEF Terminal
    <2> QED BY <2>1, FailureNext DEF Fail, Cancel
  <1>10. CASE PreflightFails
    <2>1. CASE turn.barrier \/ stop
      BY <1>9, <1>10, <1>A, <2>1 DEF PreflightFails
    <2>2. CASE ~turn.barrier /\ ~stop
      <3>1. Repaired(job.plan, job.calls) /\ UNCHANGED <<used, rows, durable>>
        BY <1>10, <2>2 DEF PreflightFails
      <3>2. turn'.barrier = FALSE /\ turn'.plan = NoPlan /\ job'.plan = NoPlan /\ job'.pc \in {"idle", "reasoning"}
        BY <1>0, <3>1, RepairedFacts, NothingTyped
      <3> QED BY <1>3, <2>2, <3>1, <3>2
    <2> QED BY <2>1, <2>2
  <1>11. CASE Preflight
    <2> DEFINE mark == MarkUnit(job.plan, job.unit, "executing")
    <2>1. /\ job'.plan.steps = job.plan.steps /\ job'.plan.unitOf = job.plan.unitOf
          /\ job'.plan.units = mark.units
          /\ Alike(job.plan, job'.plan) /\ job'.pc = "before_unit" /\ job'.unit = job.unit
      BY <1>11, PreflightFacts
    <2>2. UNCHANGED <<turn, used, rows, durable>> /\ job.pc = "preflight"
      BY <1>11 DEF Preflight
    <2>3. AtPreflight /\ job.unit \in 1..Len(job.plan.units) /\ turn.state = "running"
      BY <2>2 DEF JournalInv, JobInv, ShapeInv, Shape
    <2>4. /\ Len(mark.units) = Len(job.plan.units) /\ mark.units[job.unit].state = "executing"
          /\ \A m \in 1..Len(job.plan.units) : m # job.unit => mark.units[m] = job.plan.units[m]
      BY <1>0, <2>3, UnitMarked
    <2> HIDE DEF mark
    <2>5. Phase(job.plan, job.unit, "executing")'
      <3> SUFFICES ASSUME NEW m \in 1..Len(job.plan.units)
                   PROVE  mark.units[m].state = IF m < job.unit THEN "completed" ELSE IF m = job.unit THEN "executing" ELSE "prepared"
        BY <2>1, <2>4 DEF Phase
      <3>1. job.plan.units[m].state = IF m < job.unit THEN "completed" ELSE "prepared"
        BY <2>3 DEF AtPreflight, Phase
      <3>2. job.unit \in Nat /\ m \in Nat
        BY <1>0, <2>3 DEF JobRow
      <3> QED BY <2>4, <3>1, <3>2
    <2>6. StepsAt(job.plan, job.unit)'
      BY <2>1, <2>3 DEF AtPreflight, StepsAt
    <2>7. AtCheckpoint'
      <3>1. turn.barrier => /\ Alike(turn.plan, job'.plan) /\ turn.plan.steps = job'.plan.steps
                            /\ Phase(turn.plan, job.unit, "prepared")
        BY <2>1, <2>3 DEF AtPreflight
      <3>2. ~turn.barrier => job.unit = 1
        BY <2>3 DEF AtPreflight
      <3> QED BY <1>0, <2>1, <2>2, <2>5, <2>6, <3>1, <3>2 DEF AtCheckpoint
    <2>8. QuietInv' /\ UsedInv'
      BY <2>1, <2>2 DEF JournalInv, QuietInv, UsedInv, Still, Blank, Known
    <2>9. CommittedInv' /\ EndInv'
      BY <1>T, <2>2, <2>3 DEF JournalInv, CommittedInv, EndInv
    <2>10. JobInv'
      BY <2>1, <2>7 DEF JobInv
    <2> QED BY <2>8, <2>9, <2>10 DEF JournalInv
  <1>12. CASE OverBudget
    BY <1>9, <1>12, <1>A DEF OverBudget
  <1>13. CASE BeforeUnit
    <2>1. CASE stop \/ SyncRefused(job.plan)
      BY <1>9, <1>13, <1>A, <2>1 DEF BeforeUnit
    <2>2. CASE ~stop /\ ~SyncRefused(job.plan)
      BY <1>13, <2>2, BegunNext
    <2> QED BY <2>1, <2>2
  <1>14. CASE SkipStep
    <2>1. UNCHANGED <<turn, used, rows, durable>> /\ job.pc = "running"
      BY <1>14 DEF SkipStep
    <2>2. durable' = durable \union {}
      BY <2>1
    <2> QED BY <1>14, <2>1, <2>2, SkipFacts, MarkedNext DEF Resolved
  <1>15. CASE RunStep
    <2>1. /\ UNCHANGED <<turn, used, rows>> /\ job.pc = "running"
          /\ durable' = IF Mode(Current.cap) = "odoo_atomic" THEN durable ELSE durable \union {Current.id}
      BY <1>15 DEF RunStep
    <2>2. PICK late \in SUBSET {Current.id} :
            durable' = durable \union late /\ (late # {} => Mode(Current.cap) # "odoo_atomic")
      <3>1. CASE Mode(Current.cap) = "odoo_atomic"
        <4>1. {} \in SUBSET {Current.id} /\ durable' = durable \union {}
          BY <2>1, <3>1
        <4> QED BY <4>1
      <3>2. CASE Mode(Current.cap) # "odoo_atomic"
        BY <2>1, <3>2
      <3> QED BY <3>1, <3>2
    <2>3. PICK outcome \in {"complete", "partial", "blocked"} : job'.plan = MarkStep(job.plan, job.step, "completed", outcome)
      BY <1>15, RunFacts
    <2>4. /\ job'.unit = job.unit /\ job'.step = job.step + 1
          /\ IF job.step + 1 \in StepsOf(job'.plan, job.unit) THEN job'.pc = "running" ELSE job'.pc = "unit_done"
      BY <1>15, RunFacts
    <2> QED BY <2>1, <2>2, <2>3, <2>4, MarkedNext DEF Resolved
  <1>16. CASE StepFails
    BY <1>16, FailedNext
  <1>17. CASE AfterUnit \/ FinishPlan
    BY <1>17, DoneNext
  <1>18. CASE Crash
    BY <1>18, CrashNext
  <1>19. CASE Recover
    <2>1. CASE turn.barrier
      BY <1>9, <1>19, <2>1 DEF Recover
    <2>2. CASE ~turn.barrier
      <3>1. turn' = [turn EXCEPT !.state = "queued"] /\ UNCHANGED <<used, rows, durable, job>>
            /\ job.pc = "idle" /\ turn.state = "running"
        BY <1>19, <2>2 DEF Recover
      <3>2. turn'.plan = turn.plan /\ turn'.barrier = turn.barrier
        BY <1>0, <3>1 DEF TurnRow
      <3>3. job.plan = NoPlan
        BY <3>1 DEF ShapeInv, Shape
      <3> QED BY <1>0, <1>3, <1>T, <2>2, <3>1, <3>2, <3>3
    <2> QED BY <2>1, <2>2
  <1>20. CASE \E r \in Records : EditRecord(r)
    BY <1>1, <1>20 DEF EditRecord
  <1>21. CASE RequestStop
    BY <1>1, <1>21 DEF RequestStop
  <1>22. CASE Revert
    <2>1. /\ turn' = [turn EXCEPT !.reversion = "completed"] /\ rows' = MarkReverted
          /\ turn.state = "completed" /\ turn.barrier /\ UNCHANGED <<used, durable, job>>
      BY <1>22 DEF Revert
    <2>2. turn'.plan = turn.plan /\ turn'.barrier = turn.barrier /\ turn'.state = turn.state
      BY <1>0, <2>1 DEF TurnRow
    <2>3. turn.state \in Terminal /\ turn.state \notin {"running", "awaiting", "queued"}
      BY <2>1 DEF Terminal
    <2>4. (Transactional => JournalTruth) /\ job.pc = "idle"
      BY <1>A, <2>1, <2>3 DEF JournalInv, EndInv
    <2>5. ASSUME NEW s \in CallIds
          PROVE  rows'[s].state = rows[s].state \/ (rows[s].state = "verified" /\ rows'[s].state = "reverted")
      <3>1. rows[s] \in JournalRow
        BY <1>0
      <3> QED BY <2>1, <3>1 DEF MarkReverted, JournalRow
    <2>6. UsedInv'
      BY <1>U, <2>1, <2>2, <2>5 DEF UsedInv, Known
    <2>8. ASSUME Transactional PROVE JournalTruth'
      <3>2. AtomicTogether'
        BY <2>1, <2>2, <2>4, <2>8 DEF JournalTruth, AtomicTogether
      <3>1. ASSUME NEW s \in CallIds
            PROVE  /\ rows'[s].state \in {"verified", "reverted"} => s \in durable'
                   /\ rows'[s].state \in {"prepared", "skipped", "rolled_back"} => s \notin durable'
                   /\ turn'.state \in Terminal => rows'[s].state # "executing"
        BY <2>1, <2>2, <2>4, <2>5, <2>8 DEF JournalTruth
      <3> QED BY <2>1, <2>4, <3>1, <3>2 DEF JournalTruth
    <2>9. JobInv'
      BY <2>1, <2>4 DEF JobInv
    <2> QED BY <2>1, <2>2, <2>3, <2>6, <2>8, <2>9 DEF JournalInv, QuietInv, CommittedInv, EndInv
  <1>23. CASE CleanupJournal
    <2>1. /\ turn.state \notin {"running", "queued"} /\ rows' = [s \in CallIds |-> NoRow]
          /\ UNCHANGED <<turn, used, durable, job>>
      BY <1>23 DEF CleanupJournal
    <2>2. \A s \in CallIds : rows'[s].state = "none"
      BY <2>1 DEF NoRow
    <2>3. job.pc = "idle" /\ job.plan = NoPlan
      BY <1>A, <2>1 DEF ShapeInv, Shape
    <2>4. UsedInv'
      BY <1>U, <2>1, <2>2 DEF UsedInv, Known
    <2>5. CASE ~turn.barrier
      <3>1. Still' /\ Blank(job.plan)'
        BY <1>B, <1>Q, <2>1, <2>2, <2>3, <2>5 DEF Still, Blank
      <3>2. turn.state \notin Terminal => Blank(turn.plan)'
        <4>1. ASSUME turn.state \notin Terminal PROVE Blank(turn.plan)'
          <5>1. \A i \in 1..Len(turn.plan.steps) : turn.plan.steps[i].id \in CallIds
            <6>1. turn.plan.steps \in Seq(StepRow)
              BY <1>0 DEF PlanRow
            <6>2. \A i \in 1..Len(turn.plan.steps) : turn.plan.steps[i] \in StepRow
              BY <6>1
            <6> QED BY <6>2 DEF StepRow
          <5> QED BY <2>1, <2>2, <5>1 DEF Blank
        <4> QED BY <4>1
      <3> QED BY <1>0, <1>Q, <2>1, <2>3, <2>4, <2>5, <3>1, <3>2, QuietNext
    <2>6. CASE turn.barrier
      <3>1. turn.state \in Terminal /\ (Transactional => JournalTruth)
        BY <1>0, <1>B, <2>1, <2>6 DEF JournalInv, EndInv
      <3>3. ASSUME Transactional PROVE JournalTruth'
        <4>1. AtomicTogether'
          BY <2>1, <3>1, <3>3 DEF JournalTruth, AtomicTogether
        <4> QED BY <2>1, <2>2, <2>3, <4>1 DEF JournalTruth
      <3>4. JobInv'
        BY <2>1, <2>3 DEF JobInv
      <3> QED BY <1>T, <2>1, <2>4, <2>6, <3>1, <3>3, <3>4 DEF JournalInv, QuietInv, CommittedInv, EndInv
    <2> QED BY <1>0, <2>5, <2>6
  <1> QED BY <1>2, <1>4, <1>5, <1>6, <1>7, <1>8, <1>10, <1>11, <1>12, <1>13, <1>14, <1>15, <1>16, <1>17,
             <1>18, <1>19, <1>20, <1>21, <1>22, <1>23 DEF Next

\* The invariant is the truth of the journal in every phase of the turn.
LEMMA JournalImplied ==
    ASSUME ShapeInv, JournalInv, Transactional
    PROVE  JournalTruth
  <1>0. /\ turn.state \in {"running", "awaiting", "queued"} \union Terminal /\ turn.barrier \in BOOLEAN
        /\ turn.plan \in PlanRow
    BY DEF ShapeInv, TypeOK, TurnRow
  <1>1. job.pc # "integrity_error"
    BY DEF JournalInv, JobInv
  <1>2. CASE turn.state \in Terminal
    BY <1>2 DEF JournalInv, EndInv
  <1>3. CASE ~turn.barrier
    BY <1>1, <1>3, StillTrue DEF JournalInv, QuietInv
  <1>4. CASE turn.barrier /\ turn.state \notin Terminal
    <2>1. turn.state = "running"
      BY <1>0, <1>4 DEF JournalInv, EndInv
    <2>2. Wellformed(turn.plan) /\ Recorded(turn.plan, rows, durable)
      BY <1>4, <2>1 DEF JournalInv, CommittedInv
    <2>3. turn.plan.steps \in Seq(StepRow)
      BY <1>0 DEF PlanRow
    <2>4. DOMAIN turn.plan.steps = 1..Len(turn.plan.steps)
      BY <2>3
    <2>5. /\ \A s \in CallIds :
               /\ rows[s].state \in {"verified", "reverted"} => s \in durable
               /\ rows[s].state \in {"prepared", "skipped", "rolled_back"} => s \notin durable
          /\ \A i \in 1..Len(turn.plan.steps) :
               /\ i + 1 \in 1..Len(turn.plan.steps)
               /\ Mode(turn.plan.steps[i].cap) = "odoo_atomic" /\ Mode(turn.plan.steps[i + 1].cap) = "odoo_atomic"
               /\ "skipped" \notin {turn.plan.steps[i].state, turn.plan.steps[i + 1].state}
               => (turn.plan.steps[i].id \in durable <=> turn.plan.steps[i + 1].id \in durable)
      BY <1>0, <2>2, RecordedTrue
    <2>6. AtomicTogether
      BY <2>4, <2>5 DEF AtomicTogether
    <2> QED BY <1>1, <1>4, <2>5, <2>6 DEF JournalTruth
  <1> QED BY <1>0, <1>2, <1>3, <1>4

\* It holds throughout.
LEMMA JournalAlways ==
    Spec => [](ShapeInv /\ JournalInv)
  <1>1. Init => ShapeInv /\ JournalInv
    BY ShapeInit, JournalInit
  <1>2. ShapeInv /\ JournalInv /\ [Next]_vars => (ShapeInv /\ JournalInv)'
    BY ShapeStep, JournalStep
  <1> QED BY <1>1, <1>2, PTL DEF Spec

\* For a turn without source workspace (whose files the journal treats as
\* transactional) the effect journal tells the truth after any failure, crash,
\* stop or repair: verified effects are durable, prepared, skipped and rolled
\* back ones left nothing, no row is in flight when the turn is over,
\* consecutive Odoo-local steps share their fate, and a repaired plan never
\* meets the unique (turn, step) index (_sync_plan, _mark_turn_failure).
THEOREM JournalHolds ==
    ASSUME "workspace" \notin Capabilities
    PROVE  Spec => []JournalTruth
  <1>1. ShapeInv /\ JournalInv => JournalTruth
    BY JournalImplied DEF Transactional
  <1> QED BY <1>1, JournalAlways, PTL

-----------------------------------------------------------------------------
(* Edits of other users *)

\* Behind a step that was not done in full every step is skipped.
Halted(plan) ==
    \A i, j \in 1..Len(plan.steps) :
        (i < j /\ plan.steps[i].state # "previewed" /\ ~Satisfies(plan.steps[i]))
            => plan.steps[j].state \in {"previewed", "skipped"}

\* The units before k were done in full.
Passed(plan, k) == \A i \in 1..Len(plan.steps) : plan.unitOf[i] < k => Satisfies(plan.steps[i])

\* The preflight of the unit saw what the preview showed.
Previewed(plan, k, seen) ==
    Passed(plan, k) =>
        \A i \in 1..Len(plan.steps) : plan.unitOf[i] = k =>
            \A r \in plan.steps[i].recs : plan.steps[i].before[r] = seen[r]

\* What the transaction wrote is of a step of the unit that ran.
Touched(plan, k, snap, copy) ==
    \A r \in Records : copy[r] # snap[r] =>
        \E i \in 1..Len(plan.steps) :
            plan.unitOf[i] = k /\ plan.steps[i].state = "completed" /\ r \in plan.steps[i].recs

EditInv ==
    /\ Halted(job.plan)
    /\ job.pc \in {"before_unit", "running", "unit_done"} => Previewed(job.plan, job.unit, job.seen)
    /\ job.pc \in {"running", "unit_done"} => Touched(job.plan, job.unit, job.snap, job.copy)


\* A plan that was not begun.
LEMMA HaltedFresh ==
    ASSUME NEW p \in PlanRow, Wellformed(p), StepsAt(p, 1)
    PROVE  Halted(p)
  <1>1. Len(p.units) \in Nat
    BY DEF PlanRow
  <1>2. ASSUME NEW i \in 1..Len(p.steps) PROVE p.steps[i].state = "previewed"
    <2>1. p.unitOf[i] \in 1..Len(p.units)
      BY DEF Wellformed, Grouped
    <2>2. ~(p.unitOf[i] < 1)
      BY <1>1, <2>1
    <2> QED BY <2>2 DEF StepsAt
  <1> QED BY <1>2 DEF Halted

\* A step moves on only behind steps that were done in full; otherwise it is skipped.
LEMMA HaltedMarked ==
    ASSUME NEW p \in PlanRow, Halted(p), NEW n \in 1..Len(p.steps),
           NEW state \in Resolved, NEW outcome \in {"complete", "partial", "blocked", "skipped"},
           \A j \in 1..Len(p.steps) : j >= n => p.steps[j].state = "previewed",
           state = "completed" => DependencyMet(p, n)
    PROVE  Halted(MarkStep(p, n, state, outcome))
  <1> DEFINE q == MarkStep(p, n, state, outcome)
  <1>0. /\ Alike(p, q) /\ q.steps[n].state = state
        /\ \A j \in 1..Len(p.steps) : j # n => q.steps[j] = p.steps[j]
    BY StepMarked
  <1> HIDE DEF q
  <1>1. /\ Len(p.steps) = Len(q.steps) /\ q.steps[n].state = state
        /\ \A j \in 1..Len(p.steps) : j # n => q.steps[j] = p.steps[j]
    BY <1>0 DEF Alike
  <1>2. Len(p.steps) \in Nat
    BY DEF PlanRow
  <1>3. ASSUME NEW i \in 1..Len(p.steps), NEW j \in 1..Len(p.steps), i < j,
               q.steps[i].state # "previewed", ~Satisfies(q.steps[i])
        PROVE  q.steps[j].state \in {"previewed", "skipped"}
    <2>1. CASE j > n
      <3>1. j # n /\ j >= n
        BY <1>2, <2>1
      <3> QED BY <1>1, <3>1
    <2>2. CASE j = n
      <3>1. i # n /\ q.steps[i] = p.steps[i]
        BY <1>1, <1>2, <1>3, <2>2
      <3>2. CASE state = "completed"
        <4>1. n # 1 /\ n - 1 \in 1..Len(p.steps)
          BY <1>2, <1>3, <2>2
        <4>2. Satisfies(p.steps[n - 1])
          BY <3>2, <4>1 DEF DependencyMet
        <4>3. i # n - 1
          BY <1>3, <3>1, <4>2
        <4>4. i < n - 1
          BY <1>2, <1>3, <2>2, <4>3
        <4>5. p.steps[n - 1].state \in {"previewed", "skipped"}
          BY <1>3, <3>1, <4>1, <4>4 DEF Halted
        <4> QED BY <4>2, <4>5 DEF Satisfies
      <3>3. CASE state # "completed"
        BY <1>1, <2>2, <3>3 DEF Resolved
      <3> QED BY <3>2, <3>3
    <2>3. CASE j < n
      <3>1. i # n /\ j # n
        BY <1>2, <1>3, <2>3
      <3>2. q.steps[i] = p.steps[i] /\ q.steps[j] = p.steps[j]
        BY <1>1, <3>1
      <3> QED BY <1>3, <3>2 DEF Halted
    <2> QED BY <1>2, <2>1, <2>2, <2>3
  <1>4. Halted(q)
    BY <1>1, <1>3 DEF Halted
  <1> QED BY <1>4 DEF q

\* Inside a unit every step from the current one on is still to come.
LEMMA StepsAhead ==
    ASSUME ShapeInv, JournalInv, job.pc = "running",
           NEW j \in 1..Len(job.plan.steps), j >= job.step
    PROVE  job.plan.steps[j].state = "previewed"
  <1>1. /\ InUnit /\ Wellformed(job.plan) /\ job.plan \in PlanRow /\ job.step \in StepsOf(job.plan, job.unit)
        /\ job.unit \in Nat /\ job.plan.steps \in Seq(StepRow)
    BY DEF ShapeInv, TypeOK, Shape, JournalInv, JobInv, JobRow, PlanRow
  <1>2. job.step \in 1..Len(job.plan.steps) /\ job.plan.unitOf[job.step] = job.unit
    BY <1>1 DEF StepsOf
  <1>3. CASE job.plan.unitOf[j] = job.unit
    BY <1>1, <1>3 DEF InUnit
  <1>4. CASE job.plan.unitOf[j] # job.unit
    <2>1. job.unit <= job.plan.unitOf[j]
      BY <1>1, <1>2 DEF Wellformed, Grouped
    <2>2. job.plan.unitOf[j] \in 1..Len(job.plan.units) /\ Len(job.plan.units) \in Nat
      BY <1>1 DEF Wellformed, Grouped, PlanRow
    <2>3. ~(job.plan.unitOf[j] < job.unit)
      BY <1>1, <2>1, <2>2
    <2>4. /\ job.plan.steps[j].state = turn.plan.steps[j].state
          /\ Len(turn.plan.steps) = Len(job.plan.steps) /\ turn.plan.unitOf = job.plan.unitOf
      BY <1>1, <1>4 DEF InUnit, Alike
    <2>5. turn.plan.steps[j].state = "previewed"
      BY <1>1, <2>3, <2>4 DEF InUnit, StepsAt
    <2> QED BY <2>4, <2>5
  <1> QED BY <1>3, <1>4

\* Progress inside the unit does not change what was checked.
LEMMA PreviewedMarked ==
    ASSUME NEW p \in PlanRow, NEW n \in 1..Len(p.steps), NEW k \in Nat, p.unitOf[n] = k,
           NEW state \in Resolved, NEW outcome \in {"complete", "partial", "blocked", "skipped"},
           NEW seen, Previewed(p, k, seen)
    PROVE  Previewed(MarkStep(p, n, state, outcome), k, seen)
  <1> DEFINE q == MarkStep(p, n, state, outcome)
  <1>0. /\ Alike(p, q) /\ q.steps[n].state = state
        /\ \A j \in 1..Len(p.steps) : j # n => q.steps[j] = p.steps[j]
    BY StepMarked
  <1> HIDE DEF q
  <1>1. /\ Len(p.steps) = Len(q.steps) /\ p.unitOf = q.unitOf
        /\ \A i \in 1..Len(p.steps) : p.steps[i].recs = q.steps[i].recs /\ p.steps[i].before = q.steps[i].before
        /\ \A j \in 1..Len(p.steps) : j # n => q.steps[j] = p.steps[j]
    BY <1>0 DEF Alike
  <1>2. ~(k < k)
    OBVIOUS
  <1>3. Passed(q, k) => Passed(p, k)
    BY <1>1, <1>2 DEF Passed
  <1>4. Previewed(q, k, seen)
    BY <1>1, <1>3 DEF Previewed
  <1> QED BY <1>4 DEF q

\* So is what the transaction wrote of steps that ran.
LEMMA TouchedMarked ==
    ASSUME NEW p \in PlanRow, NEW n \in 1..Len(p.steps), NEW k \in Nat, p.unitOf[n] = k,
           p.steps[n].state = "previewed",
           NEW state \in Resolved, NEW outcome \in {"complete", "partial", "blocked", "skipped"},
           NEW snap, NEW copy, Touched(p, k, snap, copy), NEW new,
           \A r \in Records : new[r] = copy[r] \/ (state = "completed" /\ r \in p.steps[n].recs)
    PROVE  Touched(MarkStep(p, n, state, outcome), k, snap, new)
  <1> DEFINE q == MarkStep(p, n, state, outcome)
  <1>0. /\ Alike(p, q) /\ q.steps[n].state = state
        /\ \A j \in 1..Len(p.steps) : j # n => q.steps[j] = p.steps[j]
    BY StepMarked
  <1> HIDE DEF q
  <1>1. /\ Len(p.steps) = Len(q.steps) /\ p.unitOf = q.unitOf /\ q.steps[n].state = state
        /\ \A i \in 1..Len(p.steps) : p.steps[i].recs = q.steps[i].recs
        /\ \A j \in 1..Len(p.steps) : j # n => q.steps[j] = p.steps[j]
    BY <1>0 DEF Alike
  <1>2. ASSUME NEW r \in Records, new[r] # snap[r]
        PROVE  \E i \in 1..Len(q.steps) : q.unitOf[i] = k /\ q.steps[i].state = "completed" /\ r \in q.steps[i].recs
    <2>1. CASE new[r] = copy[r]
      <3>1. PICK i \in 1..Len(p.steps) :
              p.unitOf[i] = k /\ p.steps[i].state = "completed" /\ r \in p.steps[i].recs
        BY <1>2, <2>1 DEF Touched
      <3>2. i # n
        BY <3>1
      <3> QED BY <1>1, <3>1, <3>2
    <2>2. CASE state = "completed" /\ r \in p.steps[n].recs
      BY <1>1, <2>2
    <2> QED BY <2>1, <2>2
  <1>3. Touched(q, k, snap, new)
    BY <1>2 DEF Touched
  <1> QED BY <1>3 DEF q

\* A preflight that holds has seen what the preview of the unit showed.
LEMMA PreflightSeen ==
    ASSUME ShapeInv, job.pc = "preflight", AtPreflight, PreflightHolds(job.plan, job.unit)
    PROVE  Previewed(job.plan, job.unit, data)
  <1>1. /\ job.plan \in PlanRow /\ Wellformed(job.plan) /\ job.unit \in Nat /\ StepsAt(job.plan, job.unit)
        /\ job.plan.steps \in Seq(StepRow)
    BY DEF ShapeInv, TypeOK, Shape, JobRow, PlanRow, AtPreflight
  <1>2. DOMAIN job.plan.steps = 1..Len(job.plan.steps) /\ Len(job.plan.steps) \in Nat
    BY <1>1
  <1>3. ASSUME Passed(job.plan, job.unit), NEW i \in 1..Len(job.plan.steps), job.plan.unitOf[i] = job.unit,
               NEW r \in job.plan.steps[i].recs
        PROVE  job.plan.steps[i].before[r] = data[r]
    <2>1. job.plan.steps[i].state = "previewed"
      <3>1. ~(job.plan.unitOf[i] < job.unit)
        BY <1>1, <1>3
      <3> QED BY <1>1, <3>1 DEF StepsAt
    <2>2. i \in Pending(job.plan, job.unit)
      BY <1>2, <1>3, <2>1 DEF Pending, StepsOf
    <2>3. ASSUME NEW j \in 1..(i - 1)
          PROVE  job.plan.unitOf[j] = job.unit \/ Satisfies(job.plan.steps[j])
      <3>1. j \in 1..Len(job.plan.steps) /\ j <= i
        BY <1>2
      <3>2. job.plan.unitOf[j] <= job.unit
        BY <1>1, <1>3, <3>1 DEF Wellformed, Grouped
      <3>3. job.plan.unitOf[j] \in 1..Len(job.plan.units) /\ Len(job.plan.units) \in Nat
        BY <1>1, <3>1 DEF Wellformed, Grouped, PlanRow
      <3>4. job.plan.unitOf[j] = job.unit \/ job.plan.unitOf[j] < job.unit
        BY <1>1, <3>2, <3>3
      <3> QED BY <1>3, <3>1, <3>4 DEF Passed
    <2>4. i \in Checked(job.plan, job.unit)
      BY <2>2, <2>3 DEF Checked
    <2>5. Fingerprint(data, job.plan.steps[i].recs) = job.plan.steps[i].before
      BY <2>4 DEF PreflightHolds
    <2>6. Fingerprint(data, job.plan.steps[i].recs)[r] = data[r]
      BY DEF Fingerprint
    <2> QED BY <2>5, <2>6
  <1> QED BY <1>3 DEF Previewed

\* A unit that wrote a record was behind units that were done in full.
LEMMA UnitPassed ==
    ASSUME ShapeInv, JournalInv, EditInv, job.pc = "unit_done",
           NEW i \in 1..Len(job.plan.steps), job.plan.unitOf[i] = job.unit,
           job.plan.steps[i].state = "completed"
    PROVE  Passed(job.plan, job.unit)
  <1>1. /\ InUnit /\ Wellformed(job.plan) /\ job.plan \in PlanRow /\ job.unit \in Nat /\ Halted(job.plan)
    BY DEF ShapeInv, TypeOK, Shape, JournalInv, JobInv, JobRow, EditInv
  <1>2. ASSUME NEW j \in 1..Len(job.plan.steps), job.plan.unitOf[j] < job.unit
        PROVE  Satisfies(job.plan.steps[j])
    <2>1. job.plan.unitOf[j] \in 1..Len(job.plan.units) /\ Len(job.plan.units) \in Nat /\ Len(job.plan.steps) \in Nat
      BY <1>1 DEF Wellformed, Grouped, PlanRow
    <2>2. ~(job.unit <= job.plan.unitOf[j]) /\ job.plan.unitOf[j] # job.unit
      BY <1>1, <1>2, <2>1
    <2>3. ~(i <= j)
      BY <1>1, <2>2 DEF Wellformed, Grouped
    <2>4. j < i
      BY <2>1, <2>3
    <2>5. /\ job.plan.steps[j].state = turn.plan.steps[j].state
          /\ Len(turn.plan.steps) = Len(job.plan.steps) /\ turn.plan.unitOf = job.plan.unitOf
      BY <1>1, <2>2 DEF InUnit, Alike
    <2>6. turn.plan.steps[j].state \in Resolved
      BY <1>1, <1>2, <2>5 DEF InUnit, StepsAt
    <2>7. job.plan.steps[j].state # "previewed"
      BY <2>5, <2>6 DEF Resolved
    <2>8. ~Satisfies(job.plan.steps[j]) => job.plan.steps[i].state \in {"previewed", "skipped"}
      BY <1>1, <2>4, <2>7 DEF Halted
    <2> QED BY <2>8
  <1> QED BY <1>2 DEF Passed

\* No action forgets what the preflight saw or lets a step run behind an unfinished one.
LEMMA EditStep ==
    ASSUME ShapeInv, JournalInv, EditInv, [Next]_vars
    PROVE  EditInv'
  <1>0. /\ TypeOK /\ turn \in TurnRow /\ job \in JobRow /\ job.plan \in PlanRow /\ turn.plan \in PlanRow
        /\ job.source \in PlanRow /\ job.calls \in [Capabilities -> Nat] /\ rows \in [CallIds -> JournalRow]
        /\ job.unit \in Nat
    BY DEF ShapeInv, TypeOK, JobRow, TurnRow
  <1>N. ShapeInv' /\ JournalInv'
    BY ShapeStep, JournalStep
  <1>P. job'.plan \in PlanRow
    BY <1>N DEF ShapeInv, TypeOK, JobRow
  <1>H. Halted(job.plan) /\ Halted(NoPlan)
    BY NothingTyped DEF EditInv, Halted
  <1>S. ASSUME job' = job PROVE EditInv'
    BY <1>S DEF EditInv
  <1>E. ASSUME job'.pc \in {"idle", "reasoning", "preflight", "integrity_error"}, Halted(job'.plan) PROVE EditInv'
    BY <1>E DEF EditInv
  <1>I. ASSUME job' = Idle PROVE EditInv'
    BY <1>E, <1>I, <1>H, NothingTyped
  <1>F. ASSUME job'.pc = "preflight", ~turn'.barrier PROVE EditInv'
    <2>1. AtPreflight'
      BY <1>N, <1>F DEF JournalInv, JobInv
    <2>2. StepsAt(job'.plan, 1)
      BY <1>F, <2>1 DEF AtPreflight
    <2>3. Wellformed(job'.plan)
      BY <1>N, <1>F DEF ShapeInv, Shape
    <2>4. Halted(job'.plan)
      BY <1>P, <2>2, <2>3, HaltedFresh
    <2> QED BY <1>E, <1>F, <2>4
  <1>R. ASSUME NEW source \in PlanRow, NEW calls \in [Capabilities -> Nat], Repaired(source, calls) PROVE EditInv'
    <2>1. job'.plan = NoPlan /\ (job' = Idle \/ job'.pc = "reasoning")
      BY <1>0, <1>R, RepairedFacts
    <2> QED BY <1>E, <1>I, <1>H, <2>1
  <1>X. Fail \/ Cancel => EditInv'
    BY <1>I DEF Fail, Cancel, EndFailed
  <1>M. ASSUME NEW state \in Resolved, NEW outcome \in {"complete", "partial", "blocked", "skipped"},
               job.pc = "running", job.step \in 1..Len(job.plan.steps), job.plan.unitOf[job.step] = job.unit,
               job'.plan = MarkStep(job.plan, job.step, state, outcome),
               state = "completed" => DependencyMet(job.plan, job.step),
               job'.seen = job.seen, job'.snap = job.snap, job'.unit = job.unit,
               \A r \in Records : job'.copy[r] = job.copy[r] \/ (state = "completed" /\ r \in Current.recs)
        PROVE  EditInv'
    <2>1. \A j \in 1..Len(job.plan.steps) : j >= job.step => job.plan.steps[j].state = "previewed"
      BY <1>M, StepsAhead
    <2>2. Halted(job'.plan)
      BY <1>0, <1>H, <1>M, <2>1, HaltedMarked
    <2>3. Previewed(job.plan, job.unit, job.seen) /\ Touched(job.plan, job.unit, job.snap, job.copy)
      BY <1>M DEF EditInv
    <2>4. Previewed(job'.plan, job'.unit, job'.seen)
      BY <1>0, <1>M, <2>3, PreviewedMarked
    <2>5. job.plan.steps[job.step].state = "previewed"
      <3>1. job.step \in Nat /\ job.step >= job.step
        BY <1>0 DEF JobRow
      <3> QED BY <1>M, <2>1, <3>1
    <2>6. Touched(job'.plan, job'.unit, job'.snap, job'.copy)
      BY <1>0, <1>M, <2>3, <2>5, TouchedMarked DEF Current
    <2> QED BY <2>2, <2>4, <2>6 DEF EditInv
  <1>1. CASE UNCHANGED vars
    BY <1>S, <1>1 DEF vars
  <1>2. CASE Answer
    BY <1>I, <1>2 DEF Answer
  <1>3. CASE Propose
    <2>1. job.pc = "reasoning" /\ ~turn.barrier
      BY <1>3 DEF Propose, JournalInv, JobInv
    <2>2. PICK steps \in Seq(StepRow) :
            /\ Len(steps) > 0
            /\ \A i, j \in 1..Len(steps) : steps[i].id = steps[j].id => i = j
            /\ \A i \in 1..Len(steps) : steps[i].state = "previewed"
                                        /\ (RecordSubset(steps[i].cap) => steps[i].recs # {})
                                        /\ steps[i].before \in [steps[i].recs -> Values]
            /\ Prepared(NewPlan(steps))
      BY <1>0, <1>3, ProposedFacts
    <2>3. NewPlan(steps) \in PlanRow /\ Prepared(NewPlan(steps))
      BY <2>2, NewPlanUnstarted
    <2>4. turn'.barrier = turn.barrier /\ (job' = Idle \/ job'.pc = "preflight")
      BY <1>0, <2>3, PreparedFacts
    <2> QED BY <1>F, <1>I, <2>1, <2>4
  <1>4. CASE PrepareFails
    BY <1>0, <1>R, <1>4 DEF PrepareFails
  <1>5. CASE Approve \/ Reject \/ RequestStop \/ Revert \/ CleanupJournal \/ \E r \in Records : EditRecord(r)
    <2>1. Approve \/ Reject \/ RequestStop => job' = job
      BY Zenon DEF Approve, Reject, RequestStop
    <2>2. Revert \/ CleanupJournal => job' = job
      BY Zenon DEF Revert, CleanupJournal
    <2>3. (\E r \in Records : EditRecord(r)) => job' = job
      BY Zenon DEF EditRecord
    <2>4. job' = job
      BY <1>5, <2>1, <2>2, <2>3, Zenon
    <2> QED BY <1>S, <2>4
  <1>6. CASE Resume
    <2>1. turn' = [turn EXCEPT !.state = "running"] /\ turn.state = "queued"
      BY <1>6 DEF Resume
    <2>2. turn'.barrier = turn.barrier /\ ~turn.barrier
      BY <1>0, <2>1 DEF TurnRow, JournalInv, EndInv
    <2>3. CASE turn.plan = NoPlan
      <3>1. job' = [Idle EXCEPT !.pc = "reasoning"]
        BY <1>6, <2>3 DEF Resume
      <3>2. job'.pc = "reasoning" /\ job'.plan = NoPlan
        BY <3>1, NothingTyped DEF JobRow
      <3> QED BY <1>E, <1>H, <3>2
    <2>4. CASE turn.plan # NoPlan
      <3>1. job' = [Idle EXCEPT !.pc = "preflight", !.plan = turn.plan, !.human = turn.human, !.unit = 1]
        BY <1>6, <2>4 DEF Resume
      <3>2. job'.pc = "preflight"
        BY <3>1, NothingTyped DEF JobRow
      <3> QED BY <1>F, <2>2, <3>2
    <2> QED BY <2>3, <2>4
  <1>7. CASE PreflightFails
    <2>1. CASE turn.barrier \/ stop
      BY <1>X, <1>7, <2>1 DEF PreflightFails
    <2>2. CASE ~turn.barrier /\ ~stop
      BY <1>0, <1>R, <1>7, <2>2 DEF PreflightFails
    <2> QED BY <2>1, <2>2
  <1>8. CASE Preflight
    <2>1. job.pc = "preflight" /\ AtPreflight /\ PreflightHolds(job.plan, job.unit)
      BY <1>8 DEF Preflight, JournalInv, JobInv
    <2>2. Previewed(job.plan, job.unit, data)
      BY <2>1, PreflightSeen
    <2>3. /\ job'.plan.steps = job.plan.steps /\ job'.plan.unitOf = job.plan.unitOf
          /\ job'.pc = "before_unit" /\ job'.unit = job.unit /\ job'.seen = data
      BY <1>8, PreflightFacts
    <2>4. Previewed(job'.plan, job'.unit, job'.seen) /\ Halted(job'.plan)
      BY <1>H, <2>2, <2>3 DEF Previewed, Passed, Halted
    <2> QED BY <2>3, <2>4 DEF EditInv
  <1>9. CASE OverBudget
    BY <1>X, <1>9 DEF OverBudget
  <1>10. CASE BeforeUnit
    <2>1. CASE stop \/ SyncRefused(job.plan)
      BY <1>X, <1>10, <2>1 DEF BeforeUnit
    <2>2. CASE ~stop /\ ~SyncRefused(job.plan) /\ Collides(job.plan)
      <3>1. job' = [job EXCEPT !.pc = "integrity_error"]
        BY <1>10, <2>2 DEF BeforeUnit
      <3>2. job'.pc = "integrity_error" /\ job'.plan = job.plan
        BY <1>0, <3>1 DEF JobRow
      <3> QED BY <1>E, <1>H, <3>2
    <2>3. CASE ~stop /\ ~SyncRefused(job.plan) /\ ~Collides(job.plan)
      <3>1. /\ job'.plan = job.plan /\ job'.unit = job.unit /\ job'.seen = job.seen
            /\ job'.snap = data /\ job'.copy = data
        BY <1>10, <2>3, BeginFacts
      <3>2. Previewed(job'.plan, job'.unit, job'.seen)
        BY <1>10, <3>1 DEF BeforeUnit, EditInv
      <3>3. Touched(job'.plan, job'.unit, job'.snap, job'.copy)
        BY <3>1 DEF Touched
      <3> QED BY <1>H, <3>1, <3>2, <3>3 DEF EditInv
    <2> QED BY <2>1, <2>2, <2>3
  <1>11. CASE SkipStep
    <2>1. job.pc = "running"
      BY <1>11 DEF SkipStep
    <2>2. /\ job.step \in 1..Len(job.plan.steps) /\ job.plan.unitOf[job.step] = job.unit
          /\ job'.plan = MarkStep(job.plan, job.step, "skipped", "skipped")
          /\ job'.snap = job.snap /\ job'.copy = job.copy /\ job'.seen = job.seen /\ job'.unit = job.unit
      BY <1>11, SkipFacts
    <2> QED BY <1>M, <2>1, <2>2 DEF Resolved
  <1>12. CASE RunStep
    <2>1. job.pc = "running" /\ DependencyMet(job.plan, job.step)
      BY <1>12 DEF RunStep
    <2>2. /\ job.step \in 1..Len(job.plan.steps) /\ job.plan.unitOf[job.step] = job.unit
          /\ job'.snap = job.snap /\ job'.seen = job.seen /\ job'.unit = job.unit
          /\ \A r \in Records \ Current.recs : job'.copy[r] = job.copy[r]
      BY <1>12, RunFacts
    <2>3. PICK outcome \in {"complete", "partial", "blocked"} :
            job'.plan = MarkStep(job.plan, job.step, "completed", outcome)
      BY <1>12, RunFacts
    <2> QED BY <1>M, <2>1, <2>2, <2>3 DEF Resolved
  <1>13. CASE StepFails
    <2>1. job' = Idle \/ (job'.pc = "reasoning" /\ job'.plan = NoPlan)
      BY <1>13, FailFacts
    <2> QED BY <1>E, <1>I, <1>H, <2>1
  <1>14. CASE AfterUnit
    <2>1. job.pc = "unit_done"
      BY <1>14 DEF AfterUnit
    <2>2. job'.pc = "preflight" /\ job'.plan = MarkUnit(job.plan, job.unit, "completed")
      BY <1>14, AfterFacts
    <2>3. job'.plan.steps = job.plan.steps
      BY <1>0, <2>1, <2>2, DoneFacts, UnitMarked
    <2>4. Halted(job'.plan)
      BY <1>H, <2>3 DEF Halted
    <2> QED BY <1>E, <2>2, <2>4
  <1>15. CASE FinishPlan
    BY <1>I, <1>15, FinishFacts
  <1>16. CASE Crash
    BY <1>I, <1>16 DEF Crash
  <1>17. CASE Recover
    <2>1. CASE turn.barrier
      BY <1>X, <1>17, <2>1 DEF Recover
    <2>2. CASE ~turn.barrier
      BY <1>S, <1>17, <2>2 DEF Recover
    <2> QED BY <2>1, <2>2
  <1> QED BY <1>1, <1>2, <1>3, <1>4, <1>5, <1>6, <1>7, <1>8, <1>9, <1>10, <1>11, <1>12, <1>13, <1>14,
             <1>15, <1>16, <1>17 DEF Next

\* A compensation leaves a record alone that no step wrote last.
LEMMA CompensatedKept ==
    ASSUME NEW plan \in PlanRow, NEW r \in Records, data[r] \notin CallIds, Compensated(plan).ok
    PROVE  Compensated(plan).data[r] = data[r]
  <1> DEFINE n == Len(plan.steps)
             st(i) == plan.steps[i]
  <1>1. n \in Nat /\ \A i \in 1..n : st(i) \in StepRow
    BY DEF PlanRow
  <1>2. \A i \in 1..n : st(i).id \in CallIds
    BY <1>1 DEF StepRow
  <1>3. PICK g : g = UndoEquation(plan, g) /\ Compensated(plan) = g[n]
    BY UndoExists
  <1>4. /\ g[0] = [ok |-> TRUE, data |-> data]
        /\ \A k \in 1..n : g[k] = Undo(st(n + 1 - k), g[k - 1])
    <2>1. ASSUME NEW k \in 0..n
          PROVE  UndoEquation(plan, g)[k] = IF k = 0 THEN [ok |-> TRUE, data |-> data] ELSE Undo(st(n + 1 - k), g[k - 1])
      BY DEF UndoEquation
    <2>2. ASSUME NEW k \in 0..n PROVE g[k] = UndoEquation(plan, g)[k]
      BY <1>3
    <2>3. 0 \in 0..n /\ \A k \in 1..n : k \in 0..n /\ k # 0
      BY <1>1
    <2> HIDE DEF n, st
    <2> QED BY <2>1, <2>2, <2>3
  <1> HIDE DEF n, st
  <1> DEFINE Good(k) == g[k].ok => g[k].data[r] = data[r]
             Bad == {k \in Nat : k <= n /\ ~Good(k)}
  <1>5. Bad = {}
    <2> SUFFICES ASSUME Bad # {} PROVE FALSE
      OBVIOUS
    <2>1. PICK k \in Bad : \A y \in Bad : k <= y
      BY LeastNat
    <2>2. k \in Nat /\ k <= n /\ ~Good(k)
      OBVIOUS
    <2>3. k # 0
      BY <1>4, <2>2
    <2>4. k - 1 \in Nat /\ k - 1 \notin Bad /\ k - 1 <= n /\ k \in 1..n
      <3> HIDE DEF Bad
      <3> QED BY <2>1, <2>2, <2>3, <1>1
    <2>5. Good(k - 1)
      BY <2>4
    <2> DEFINE m == n + 1 - k
               d == g[k - 1].data
    <2>6. m \in 1..n /\ g[k] = Undo(st(m), g[k - 1])
      BY <1>1, <1>4, <2>4
    <2> HIDE DEF m
    <2>7. CASE g[k - 1].ok /\ MayRestore(d, st(m))
      <3>1. g[k].data = Undone(st(m), d)
        BY <2>6, <2>7 DEF Undo
      <3>2. d[r] = data[r]
        BY <2>5, <2>7
      <3>3. r \notin st(m).recs
        BY <1>2, <2>6, <2>7, <3>2 DEF MayRestore
      <3>4. Undone(st(m), d)[r] = d[r]
        BY <3>3 DEF Undone
      <3> QED BY <2>2, <3>1, <3>2, <3>4
    <2>8. CASE ~(g[k - 1].ok /\ MayRestore(d, st(m)))
      <3>1. g[k] = [ok |-> FALSE, data |-> data]
        BY <2>6, <2>8 DEF Undo
      <3> QED BY <2>2, <3>1
    <2> QED BY <2>7, <2>8
  <1>6. Good(n)
    BY <1>1, <1>5
  <1> QED BY <1>3, <1>6 DEF n

\* One step of ForeignEditKept.
Kept ==
    \A r \in Records : data[r] = "edited" /\ data'[r] # "edited" =>
        \/ job.pc = "unit_done" /\ job.seen[r] # "edited"
        \/ \E i \in DOMAIN turn.plan.steps :
            /\ r \in turn.plan.steps[i].recs
            /\ turn.plan.steps[i].before[r] = "edited"

\* The commit of a unit replaces only what the preview showed or what came later.
LEMMA CommitKeeps ==
    ASSUME ShapeInv, JournalInv, EditInv, job.pc = "unit_done", data' = Saved
    PROVE  Kept
  <1>1. /\ InUnit /\ Previewed(job.plan, job.unit, job.seen) /\ turn.plan.steps \in Seq(StepRow)
        /\ Touched(job.plan, job.unit, job.snap, job.copy)
    BY DEF ShapeInv, TypeOK, TurnRow, PlanRow, JournalInv, JobInv, EditInv
  <1>2. ASSUME NEW r \in Records, data[r] = "edited", data'[r] # "edited", job.seen[r] = "edited"
        PROVE  \E i \in DOMAIN turn.plan.steps :
                  r \in turn.plan.steps[i].recs /\ turn.plan.steps[i].before[r] = "edited"
    <2>1. job.copy[r] # job.snap[r]
      BY <1>2 DEF Saved
    <2>2. PICK i \in 1..Len(job.plan.steps) :
            job.plan.unitOf[i] = job.unit /\ job.plan.steps[i].state = "completed" /\ r \in job.plan.steps[i].recs
      BY <1>1, <2>1 DEF Touched
    <2>3. Passed(job.plan, job.unit)
      BY <2>2, UnitPassed
    <2>4. job.plan.steps[i].before[r] = "edited"
      BY <1>1, <1>2, <2>2, <2>3 DEF Previewed
    <2>5. /\ Len(turn.plan.steps) = Len(job.plan.steps)
          /\ i \in 1..Len(turn.plan.steps) => turn.plan.steps[i].recs = job.plan.steps[i].recs
                /\ turn.plan.steps[i].before = job.plan.steps[i].before
      BY <1>1 DEF InUnit, Alike
    <2>6. i \in DOMAIN turn.plan.steps
      BY <1>1, <2>5
    <2> QED BY <2>2, <2>4, <2>5, <2>6
  <1> QED BY <1>2 DEF Kept

\* Nor does anything else that writes records.
LEMMA KeepStep ==
    ASSUME ShapeInv, JournalInv, EditInv, [Next]_vars
    PROVE  Kept
  <1>0. data \in [Records -> Values] /\ turn.plan \in PlanRow
    BY DEF ShapeInv, TypeOK, TurnRow
  <1>S. ASSUME data' = data PROVE Kept
    BY <1>S DEF Kept
  <1>1. CASE AfterUnit
    BY <1>1, AfterFacts, CommitKeeps DEF AfterUnit
  <1>2. CASE FinishPlan
    BY <1>2, FinishFacts, CommitKeeps DEF FinishPlan
  <1>3. CASE Revert
    <2>1. data' = Compensated(turn.plan).data /\ Compensated(turn.plan).ok
      BY <1>3 DEF Revert
    <2>2. "edited" \notin CallIds
      BY BoundAssumption
    <2>3. ASSUME NEW r \in Records, data[r] = "edited" PROVE data'[r] = "edited"
      BY <1>0, <2>1, <2>2, <2>3, CompensatedKept
    <2> QED BY <2>3 DEF Kept
  <1>4. CASE \E r \in Records : EditRecord(r)
    <2>1. PICK x \in Records : data' = [data EXCEPT ![x] = "edited"]
      BY <1>4 DEF EditRecord
    <2>2. \A r \in Records : data[r] = "edited" => data'[r] = "edited"
      BY <1>0, <2>1
    <2> QED BY <2>2 DEF Kept
  <1>5. Answer \/ Propose \/ PrepareFails \/ Approve \/ Reject \/ Resume => data' = data
    BY Zenon DEF Answer, Propose, PrepareFails, Approve, Reject, Resume
  <1>6. Fail \/ Cancel => data' = data
    BY DEF Fail, Cancel, EndFailed
  <1>7. Preflight \/ PreflightFails \/ OverBudget => data' = data
    BY <1>6 DEF Preflight, PreflightFails, OverBudget
  <1>8. BeforeUnit => data' = data
    BY <1>6 DEF BeforeUnit
  <1>9. SkipStep \/ RunStep \/ StepFails => data' = data
    BY Zenon DEF SkipStep, RunStep, StepFails
  <1>10. Crash \/ RequestStop \/ CleanupJournal => data' = data
    BY Zenon DEF Crash, RequestStop, CleanupJournal
  <1>11. Recover => data' = data
    BY <1>6 DEF Recover
  <1>12. UNCHANGED vars => data' = data
    BY DEF vars
  <1> QED BY <1>S, <1>1, <1>2, <1>3, <1>4, <1>5, <1>7, <1>8, <1>9, <1>10, <1>11, <1>12 DEF Next

\* An edit of another user that was there when the unit was checked, and that the
\* approved preview did not show, is overwritten neither by the plan
\* (_preflight_unit, the commit of the unit) nor by a reversion
\* (revert_patch_record).
THEOREM ForeignHolds ==
    Spec => ForeignEditKept
  <1>1. Init => EditInv
    BY NothingTyped DEF Init, EditInv, Halted, JobRow
  <1>2. ShapeInv /\ JournalInv /\ EditInv /\ [Next]_vars => EditInv' /\ [Kept]_vars
    BY EditStep, KeepStep
  <1>3. [][Kept]_vars => ForeignEditKept
    BY PTL DEF Kept, ForeignEditKept
  <1> QED BY <1>1, <1>2, <1>3, JournalAlways, PTL DEF Spec

=============================================================================
