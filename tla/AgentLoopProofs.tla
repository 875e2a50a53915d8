-------------------------- MODULE AgentLoopProofs --------------------------
(***************************************************************************)
(* Proofs about AgentLoop, for any call ids, capabilities and budgets.     *)
(* Four invariants, each relative to the type of the variables:            *)
(*                                                                         *)
(*   TypeInv    the types: a transcript is a sequence of items;            *)
(*   OnceInv    an id has one decision and one answer, and the call in     *)
(*              hand is not answered, nor executed before it ran;          *)
(*   ResumeInv  behind a delivered result the transcript ends with the     *)
(*              answer that gives it again, until the host goes on;        *)
(*   PlanInv    the TaskPlans of the transcript, and a worker of a         *)
(*              Deliberate turn with a call in hand has one.               *)
(*                                                                         *)
(* The transcript only grows: what an action adds to it, and not the whole *)
(* of it, decides whether an invariant still holds (the lemmas ...Cat).    *)
(***************************************************************************)
EXTENDS AgentLoop, FiniteSetTheorems, SequenceTheorems, WellFoundedInduction, TLAPS

Ids == CallIds \union {None}

TaskPlanRow == [revision : Nat, kind : RevisionKinds, shape : Shapes, moved : BOOLEAN]

Verdicts == {"revision_invalid", "not_useful", "replan_required", "progress_required",
             "without_evidence"}

Codes == {"interrupted", "rejected", "call_limit", "terminal", "correctable", "too_large",
          "not_enabled", "plan_limit"}

Whats == {None, "answer", "discard", "proposal"} \union Codes \union Verdicts
             \union Capabilities \union TaskPlanRow \union Seq(Ids)

Kinds == {"user_input", "assistant_decision", "capability_call", "capability_result",
          "capability_error", "plan_step_proposed", "task_plan", "task_plan_error",
          "final_answer", "plan_execution_error", "plan_prepared", "verified_effect_receipt"}

Items == [kind : Kinds, id : Ids, what : Whats]

Results == [answer : {None, "answer", "fallback", "error"}, plan : Seq(Ids)]

\* A call or a proposal is in hand.
Busy == {"rejecting", "limited", "decided", "called", "ran", "proposing"}

Loops == [pc : {"down", "loop", "done"} \union Busy, decisions : Nat, calls : Nat, failures : Nat,
          terminal : BOOLEAN, id : Ids, what : Capabilities \union {None}]

Hosts == {"reasoning", "planning", "executing", "giving_up", "ended", "recovery"}

RunTypes ==
    /\ items \in Seq(Items)
    /\ loop \in Loops
    /\ result \in Results
    /\ delivered \in Results

HostTypes ==
    /\ host \in Hosts
    /\ cancel \in BOOLEAN
    /\ crashes \in Nat
    /\ executed \in [CallIds -> Nat]

TypeInv == RunTypes /\ HostTypes

----------------------------------------------------------------------------
(* No call id twice.                                                        *)

Decision == {"assistant_decision"}

Answer == {"capability_result", "capability_error"}

\* The items of these kinds have different ids.
Distinct(s, kinds) == \A i, j \in Of(s, kinds) : s[i].id = s[j].id => i = j

\* No item of these kinds has this id.
Free(s, kinds, c) == \A i \in Of(s, kinds) : s[i].id # c

\* Some item has this id.
Known(s, c) == \E i \in DOMAIN s : s[i].id = c

OnceInv ==
    /\ Distinct(items, Decision)
    /\ Distinct(items, Answer)
    /\ \A c \in CallIds : executed[c] <= 1 /\ (executed[c] > 0 => Known(items, c))
    /\ loop.pc \in Busy =>
          /\ loop.id \in CallIds
          /\ Known(items, loop.id)
          /\ Free(items, Answer, loop.id)
          /\ loop.pc # "ran" => executed[loop.id] = 0

----------------------------------------------------------------------------
(* The same result again.                                                   *)

\* The transcript is answered with this result.
AnsweredWith(s, r) ==
    s # <<>> /\ s[Len(s)].kind = "final_answer" /\ ResumeTerminal(s) = r

ResumeInv ==
    /\ loop.pc \in {"loop"} \union Busy => host = "reasoning"
    /\ delivered # NoResult /\ ~ PostEffect(items) =>
          /\ result \in {delivered, NoResult}
          /\ loop.pc \in {"down", "done"}
          /\ host # "giving_up"
          /\ host \in {"reasoning", "planning"} => AnsweredWith(items, delivered)

----------------------------------------------------------------------------
(* The TaskPlans.                                                           *)

\* Every revision is the next one.
Numbered(s) ==
    \A i \in TaskPlans(s) : s[i].what.revision = Cardinality(TaskPlans(s) \cap 1..(i - 1)) + 1

\* Between two plans of different structure there is evidence.
Evident(s) ==
    \A i, j \in TaskPlans(s) :
        /\ j < i /\ TaskPlans(s) \cap (j + 1)..(i - 1) = {}
        /\ s[i].what.shape # s[j].what.shape
        => Of(s, Evidence) \cap (j + 1)..(i - 1) # {}

Work == {"capability_call", "plan_step_proposed"}

\* Before any work there is a plan.
Planned(s) == \A i \in Of(s, Work) : TaskPlans(s) \cap 1..(i - 1) # {}

PlanInv ==
    /\ Numbered(items)
    /\ Evident(items)
    /\ Deliberate => Planned(items)
    /\ Deliberate /\ loop.pc \in Busy \ {"rejecting"} => TaskPlans(items) # {}

----------------------------------------------------------------------------
(* Numbers and sequences.                                                   *)

\* A set of natural numbers has a least element: the argument of every
\* induction below.
LEMMA LeastNat ==
    ASSUME NEW T, T \subseteq Nat, T # {}
    PROVE  \E x \in T : \A y \in T : x <= y
  <1> DEFINE R == OpToRel(<, Nat)
  <1>1. IsWellFoundedOn(R, Nat)
    BY NatLessThanWellFounded
  <1> HIDE DEF R
  <1>2. PICK x \in T : \A y \in T : <<y, x>> \notin R
    BY <1>1, WFMin
  <1>3. ASSUME NEW y \in T PROVE x <= y
    <2>1. <<y, x>> \notin R /\ x \in Nat /\ y \in Nat
      BY <1>2
    <2>2. y < x => <<y, x>> \in R
      BY <2>1 DEF R, OpToRel
    <2> QED BY <2>1, <2>2
  <1> QED BY <1>3

\* What a transcript is made of when items are added to it.
LEMMA Cat ==
    ASSUME NEW s \in Seq(Items), NEW t \in Seq(Items)
    PROVE  /\ s \o t \in Seq(Items)
           /\ Len(s \o t) = Len(s) + Len(t)
           /\ DOMAIN (s \o t) = 1..(Len(s) + Len(t))
           /\ \A i \in DOMAIN s : (s \o t)[i] = s[i] /\ i \in 1..Len(s) /\ i \in DOMAIN (s \o t)
           /\ \A i \in DOMAIN t : (s \o t)[Len(s) + i] = t[i] /\ Len(s) + i \in DOMAIN (s \o t)
           /\ \A i \in DOMAIN (s \o t) :
                 \/ i \in DOMAIN s
                 \/ i > Len(s) /\ i - Len(s) \in DOMAIN t /\ (s \o t)[i] = t[i - Len(s)]
  OBVIOUS

LEMMA CatOne ==
    ASSUME NEW s \in Seq(Items), NEW x \in Items
    PROVE  /\ s \o <<x>> \in Seq(Items) /\ s \o <<x>> # <<>>
           /\ Len(s \o <<x>>) = Len(s) + 1 /\ (s \o <<x>>)[Len(s \o <<x>>)] = x
           /\ s \o <<x>> = Append(s, x)
           /\ s \o <<>> = s /\ <<>> \o s = s
  OBVIOUS

\* The equation of ItemsAt.
ItemsEquation(s, I, f) ==
    [n \in 0..Len(s) |-> IF n = 0 THEN <<>> ELSE IF n \in I THEN Append(f[n - 1], s[n]) ELSE f[n - 1]]

\* The recursion that collects the items at some indices defines a function.
LEMMA ItemsAtRuns ==
    ASSUME NEW s \in Seq(Items), NEW I
    PROVE  \E f : f = ItemsEquation(s, I, f) /\ ItemsAt(s, I) = f[Len(s)]
  <1> DEFINE nn == Len(s)
             Val(g, n) == IF n = 0 THEN <<>> ELSE IF n \in I THEN Append(g[n - 1], s[n]) ELSE g[n - 1]
             Eq(m, g) == g = [n \in 0..m |-> Val(g, n)]
             Bad == {m \in Nat : m <= nn /\ ~(\E g : Eq(m, g))}
  <1>1. nn \in Nat
    OBVIOUS
  <1>2. Bad = {}
    <2> SUFFICES ASSUME Bad # {} PROVE FALSE
      OBVIOUS
    <2>1. PICK m \in Bad : \A y \in Bad : m <= y
      BY LeastNat
    <2>2. CASE m = 0
      <3>1. Eq(0, [n \in 0..0 |-> <<>>])
        OBVIOUS
      <3> QED BY <3>1, <2>1, <2>2
    <2>3. CASE m # 0
      <3>1. m \in Nat /\ m - 1 \in Nat /\ m - 1 \notin Bad /\ m - 1 <= nn
        <4>1. m \in Nat /\ m <= nn
          OBVIOUS
        <4> HIDE DEF Bad
        <4> QED BY <4>1, <2>1, <2>3, <1>1
      <3>2. PICK g : Eq(m - 1, g)
        BY <3>1
      <3> DEFINE h == [n \in 0..m |-> IF n = m THEN Val(g, m) ELSE g[n]]
      <3>3. ASSUME NEW n \in 0..m PROVE h[n] = Val(h, n)
        <4>1. CASE n = m
          <5>1. h[n] = Val(g, m)
            BY <4>1
          <5>2. h[n - 1] = g[m - 1]
            BY <4>1, <3>1, <2>3
          <5> HIDE DEF h
          <5> QED BY <5>1, <5>2, <4>1
        <4>2. CASE n # m
          <5>1. n \in 0..(m - 1) /\ h[n] = g[n] /\ (n # 0 => h[n - 1] = g[n - 1])
            BY <4>2, <3>1, <2>3
          <5>2. g[n] = Val(g, n)
            BY <3>2, <5>1
          <5> HIDE DEF h
          <5> QED BY <5>1, <5>2
        <4> QED BY <4>1, <4>2
      <3>4. h = [n \in 0..m |-> h[n]]
        OBVIOUS
      <3> HIDE DEF h
      <3>5. Eq(m, h)
        BY <3>3, <3>4
      <3> QED BY <3>5, <2>1
    <2> QED BY <2>2, <2>3
  <1>3. \E g : Eq(nn, g)
    <2> HIDE DEF Eq
    <2>1. nn \notin Bad
      BY <1>2
    <2>2. nn \in Nat /\ nn <= nn
      BY <1>1
    <2> HIDE DEF nn
    <2> QED BY <2>1, <2>2
  <1>4. \E g : g = ItemsEquation(s, I, g)
    BY <1>3 DEF ItemsEquation
  <1> DEFINE f == CHOOSE g : g = ItemsEquation(s, I, g)
  <1>5. f = ItemsEquation(s, I, f)
    BY <1>4
  <1>6. ItemsAt(s, I) = f[Len(s)]
    BY DEF ItemsAt, ItemsEquation
  <1> QED BY <1>5, <1>6

\* h names the items of p in s, each later than the one before.
Picks(s, I, p, h) ==
    /\ p \in Seq(Items) /\ h \in Seq(Nat) /\ Len(h) = Len(p)
    /\ \A k \in 1..Len(p) : h[k] \in I /\ h[k] \in DOMAIN s /\ p[k] = s[h[k]]
    /\ \A j, k \in 1..Len(p) : j < k => h[j] < h[k]

\* ItemsAt gives the items at those indices, each once and in their order.
LEMMA ItemsAtPicks ==
    ASSUME NEW s \in Seq(Items), NEW I
    PROVE  \E h : Picks(s, I, ItemsAt(s, I), h)
  <1>1. PICK f : f = ItemsEquation(s, I, f) /\ ItemsAt(s, I) = f[Len(s)]
    BY ItemsAtRuns
  <1>2. Len(s) \in Nat /\ DOMAIN s = 1..Len(s)
    OBVIOUS
  <1> DEFINE Up(n, h) == \A k \in 1..Len(f[n]) : h[k] <= n
             Good(n) == \E h : Picks(s, I, f[n], h) /\ Up(n, h)
             Bad == {n \in Nat : n <= Len(s) /\ ~ Good(n)}
  <1>3. Bad = {}
    <2> SUFFICES ASSUME Bad # {} PROVE FALSE
      OBVIOUS
    <2>1. PICK m \in Bad : \A y \in Bad : m <= y
      BY LeastNat
    <2>2. m \in Nat /\ m <= Len(s) /\ ~ Good(m)
      OBVIOUS
    <2>3. CASE m = 0
      <3>1. f[0] = <<>>
        BY <1>1, <1>2 DEF ItemsEquation
      <3>2. Picks(s, I, <<>>, <<>>)
        BY DEF Picks
      <3>3. Up(0, <<>>)
        BY <3>1
      <3> QED BY <3>1, <3>2, <3>3, <2>2, <2>3
    <2>4. CASE m # 0
      <3>1. m - 1 \in Nat /\ m - 1 <= Len(s) /\ m \in 1..Len(s) /\ m \in 0..Len(s)
        BY <2>2, <2>4, <1>2
      <3>2. m - 1 \notin Bad
        <4> HIDE DEF Bad
        <4> QED BY <2>1, <2>2, <3>1
      <3>3. PICK h : Picks(s, I, f[m - 1], h) /\ Up(m - 1, h)
        BY <3>1, <3>2
      <3>4. f[m] = IF m \in I THEN Append(f[m - 1], s[m]) ELSE f[m - 1]
        BY <1>1, <3>1, <2>4 DEF ItemsEquation
      <3> DEFINE p == f[m - 1]
      <3>5. p \in Seq(Items) /\ h \in Seq(Nat) /\ Len(h) = Len(p) /\ Len(p) \in Nat
        BY <3>3 DEF Picks
      <3>6. CASE m \in I
        <4> DEFINE g == Append(h, m)
                   q == Append(p, s[m])
        <4>1. s[m] \in Items
          BY <3>1
        <4>2. q \in Seq(Items) /\ g \in Seq(Nat) /\ Len(g) = Len(q) /\ Len(q) = Len(p) + 1
          BY <3>5, <4>1, <2>2
        <4>3. ASSUME NEW k \in 1..Len(q)
              PROVE  /\ k <= Len(p) => k \in 1..Len(p) /\ g[k] = h[k] /\ q[k] = p[k]
                     /\ k > Len(p) => g[k] = m /\ q[k] = s[m]
          BY <3>5, <4>1, <4>2, <2>2
        <4> HIDE DEF p, q, g
        <4>4. ASSUME NEW k \in 1..Len(q)
              PROVE  g[k] \in I /\ g[k] \in DOMAIN s /\ q[k] = s[g[k]] /\ g[k] <= m
          <5>1. CASE k <= Len(p)
            <6>1. k \in 1..Len(p) /\ g[k] = h[k] /\ q[k] = p[k]
              BY <4>3, <5>1
            <6>2. h[k] \in I /\ h[k] \in DOMAIN s /\ p[k] = s[h[k]] /\ h[k] <= m - 1
              BY <3>3, <6>1 DEF Picks, p
            <6> QED BY <6>1, <6>2, <2>2, <1>2
          <5>2. CASE k > Len(p)
            BY <4>3, <5>2, <3>6, <3>1, <1>2
          <5> QED BY <5>1, <5>2, <3>5, <4>2
        <4>5. ASSUME NEW j \in 1..Len(q), NEW k \in 1..Len(q), j < k PROVE g[j] < g[k]
          <5>1. j <= Len(p) /\ j \in 1..Len(p) /\ g[j] = h[j]
            BY <4>5, <4>3, <4>2, <3>5
          <5>2. CASE k <= Len(p)
            BY <5>1, <5>2, <4>5, <4>3, <3>3 DEF Picks, p
          <5>3. CASE k > Len(p)
            <6>1. h[j] <= m - 1 /\ h[j] \in DOMAIN s
              BY <3>3, <5>1 DEF Picks, p
            <6>2. g[k] = m
              BY <4>3, <5>3
            <6> QED BY <6>1, <6>2, <5>1, <1>2, <2>2
          <5> QED BY <5>2, <5>3, <3>5, <4>2
        <4>6. f[m] = q
          BY <3>4, <3>6 DEF p, q
        <4>7. Picks(s, I, q, g)
          BY <4>2, <4>4, <4>5 DEF Picks
        <4>8. Good(m)
          BY <4>4, <4>6, <4>7
        <4> QED BY <4>8, <2>2
      <3>7. CASE m \notin I
        <4>1. f[m] = f[m - 1]
          BY <3>4, <3>7
        <4>2. ASSUME NEW k \in 1..Len(p) PROVE h[k] <= m
          <5>1. h[k] <= m - 1 /\ h[k] \in DOMAIN s
            BY <3>3 DEF Picks
          <5> QED BY <5>1, <2>2, <1>2
        <4> QED BY <4>1, <4>2, <3>3, <2>2
      <3> QED BY <3>6, <3>7
    <2> QED BY <2>3, <2>4
  <1>4. Good(Len(s))
    BY <1>2, <1>3
  <1> QED BY <1>1, <1>4

\* An item behind the indices that are asked for changes nothing.
LEMMA ItemsAtAppend ==
    ASSUME NEW s \in Seq(Items), NEW x \in Items, NEW I, Len(s) + 1 \notin I
    PROVE  ItemsAt(Append(s, x), I) = ItemsAt(s, I)
  <1> DEFINE t == Append(s, x)
  <1>1. PICK f : f = ItemsEquation(s, I, f) /\ ItemsAt(s, I) = f[Len(s)]
    BY ItemsAtRuns
  <1>2. t \in Seq(Items) /\ Len(t) = Len(s) + 1 /\ Len(s) \in Nat /\ (\A i \in 1..Len(s) : t[i] = s[i])
    OBVIOUS
  <1> HIDE DEF t
  <1>3. PICK g : g = ItemsEquation(t, I, g) /\ ItemsAt(t, I) = g[Len(t)]
    BY <1>2, ItemsAtRuns
  <1> DEFINE Bad == {n \in Nat : n <= Len(s) /\ f[n] # g[n]}
  <1>4. Bad = {}
    <2> SUFFICES ASSUME Bad # {} PROVE FALSE
      OBVIOUS
    <2>1. PICK m \in Bad : \A y \in Bad : m <= y
      BY LeastNat
    <2>2. m \in Nat /\ m <= Len(s) /\ f[m] # g[m]
      OBVIOUS
    <2>3. m # 0 => m - 1 \in Nat /\ m - 1 <= Len(s) /\ f[m - 1] = g[m - 1] /\ m \in 1..Len(s)
      <3>1. m - 1 \notin Bad
        <4> HIDE DEF Bad
        <4> QED BY <2>1, <2>2
      <3> QED BY <3>1, <2>2, <1>2
    <2>4. f[m] = IF m = 0 THEN <<>> ELSE IF m \in I THEN Append(f[m - 1], s[m]) ELSE f[m - 1]
      <3>1. m \in 0..Len(s)
        BY <1>2, <2>2
      <3>2. f[m] = ItemsEquation(s, I, f)[m]
        BY <1>1
      <3> QED BY <3>1, <3>2 DEF ItemsEquation
    <2>5. g[m] = IF m = 0 THEN <<>> ELSE IF m \in I THEN Append(g[m - 1], t[m]) ELSE g[m - 1]
      <3>1. m \in 0..Len(t)
        BY <1>2, <2>2
      <3>2. g[m] = ItemsEquation(t, I, g)[m]
        BY <1>3
      <3> QED BY <3>1, <3>2 DEF ItemsEquation
    <2> QED BY <2>2, <2>3, <2>4, <2>5, <1>2
  <1>5. f[Len(s)] = g[Len(s)]
    BY <1>2, <1>4
  <1>6. g[Len(t)] = g[Len(s)]
    <2>1. g[Len(t)] = ItemsEquation(t, I, g)[Len(t)]
      BY <1>3
    <2>2. Len(t) \in 0..Len(t) /\ Len(t) # 0 /\ Len(t) \notin I /\ Len(t) - 1 = Len(s)
      BY <1>2
    <2> QED BY <2>1, <2>2 DEF ItemsEquation
  <1> QED BY <1>1, <1>3, <1>5, <1>6 DEF t

----------------------------------------------------------------------------
(* The operators on the transcript.                                         *)

\* A call id the transcript does not know is in no state.
LEMMA CallStateNone ==
    ASSUME NEW s \in Seq(Items), NEW c, CallState(s, c) = None
    PROVE  ~ Known(s, c)
  BY DEF CallState, Known, None

\* A call that is pending has no answer.
LEMMA CallStatePending ==
    ASSUME NEW s \in Seq(Items), NEW c, CallState(s, c) = "pending"
    PROVE  Free(s, Answer, c)
  <1> SUFFICES ASSUME NEW i \in Of(s, Answer), s[i].id = c PROVE FALSE
    BY DEF Free
  <1> DEFINE mine == {s[j].kind : j \in {k \in DOMAIN s : s[k].id = c}}
  <1>1. i \in DOMAIN s /\ s[i].kind \in Answer
    BY DEF Of
  <1>2. s[i].kind \in mine
    BY <1>1
  <1>3. mine # {} /\ mine \cap {"capability_result", "capability_error"} # {}
    BY <1>1, <1>2 DEF Answer
  <1>4. CallState(s, c) = "completed"
    BY <1>3 DEF CallState
  <1> QED BY <1>4

LEMMA KnownCat ==
    ASSUME NEW s \in Seq(Items), NEW t \in Seq(Items), NEW c
    PROVE  Known(s \o t, c) <=> Known(s, c) \/ Known(t, c)
  <1>1. Known(s, c) => Known(s \o t, c)
    BY Cat DEF Known
  <1>2. Known(t, c) => Known(s \o t, c)
    <2> SUFFICES ASSUME NEW i \in DOMAIN t, t[i].id = c PROVE Known(s \o t, c)
      BY DEF Known
    <2>1. Len(s) + i \in DOMAIN (s \o t) /\ (s \o t)[Len(s) + i] = t[i]
      BY Cat
    <2> QED BY <2>1 DEF Known
  <1>3. Known(s \o t, c) => Known(s, c) \/ Known(t, c)
    BY Cat DEF Known
  <1> QED BY <1>1, <1>2, <1>3

LEMMA FreeCat ==
    ASSUME NEW s \in Seq(Items), NEW t \in Seq(Items), NEW kinds, NEW c,
           Free(s, kinds, c), Free(t, kinds, c)
    PROVE  Free(s \o t, kinds, c)
  BY Cat DEF Free, Of

\* Items of different ids remain so when those that are added are different from
\* each other and from the ones before.
LEMMA DistinctCat ==
    ASSUME NEW s \in Seq(Items), NEW t \in Seq(Items), NEW kinds,
           Distinct(s, kinds), Distinct(t, kinds),
           \A i \in Of(t, kinds) : Free(s, kinds, t[i].id)
    PROVE  Distinct(s \o t, kinds)
  <1> DEFINE u == s \o t
  <1> SUFFICES ASSUME NEW i \in Of(u, kinds), NEW j \in Of(u, kinds), u[i].id = u[j].id
               PROVE  i = j
    BY DEF Distinct
  <1>0. i \in DOMAIN u /\ u[i].kind \in kinds /\ j \in DOMAIN u /\ u[j].kind \in kinds
    BY DEF Of
  <1>1. /\ \A k \in DOMAIN s : u[k] = s[k] /\ k \in 1..Len(s)
        /\ \A k \in DOMAIN u : k \in DOMAIN s \/ (k > Len(s) /\ k - Len(s) \in DOMAIN t /\ u[k] = t[k - Len(s)])
        /\ DOMAIN u \subseteq Nat /\ Len(s) \in Nat
    BY Cat
  <1> HIDE DEF u
  <1>2. CASE i \in DOMAIN s /\ j \in DOMAIN s
    BY <1>0, <1>1, <1>2 DEF Distinct, Of
  <1>3. CASE i \in DOMAIN s /\ j \notin DOMAIN s
    <2>1. j - Len(s) \in Of(t, kinds) /\ u[j] = t[j - Len(s)]
      BY <1>0, <1>1, <1>3 DEF Of
    <2>2. i \in Of(s, kinds) /\ u[i] = s[i]
      BY <1>0, <1>1, <1>3 DEF Of
    <2> QED BY <2>1, <2>2 DEF Free
  <1>4. CASE i \notin DOMAIN s /\ j \in DOMAIN s
    <2>1. i - Len(s) \in Of(t, kinds) /\ u[i] = t[i - Len(s)]
      BY <1>0, <1>1, <1>4 DEF Of
    <2>2. j \in Of(s, kinds) /\ u[j] = s[j]
      BY <1>0, <1>1, <1>4 DEF Of
    <2> QED BY <2>1, <2>2 DEF Free
  <1>5. CASE i \notin DOMAIN s /\ j \notin DOMAIN s
    <2>1. i - Len(s) \in Of(t, kinds) /\ u[i] = t[i - Len(s)] /\ j - Len(s) \in Of(t, kinds) /\ u[j] = t[j - Len(s)]
      BY <1>0, <1>1, <1>5 DEF Of
    <2>2. i - Len(s) = j - Len(s)
      BY <2>1 DEF Distinct
    <2> QED BY <2>2, <1>0, <1>1
  <1> QED BY <1>2, <1>3, <1>4, <1>5

\* The indices of a transcript are finite in number.
LEMMA IndexSet ==
    ASSUME NEW s \in Seq(Items), NEW T, T \subseteq DOMAIN s
    PROVE  IsFiniteSet(T) /\ Cardinality(T) \in Nat
  <1>1. DOMAIN s = 1..Len(s) /\ Len(s) \in Nat
    OBVIOUS
  <1>2. IsFiniteSet(1..Len(s))
    BY <1>1, FS_Interval
  <1> QED BY <1>1, <1>2, FS_Subset, FS_CardinalityType

LEMMA ProposedPlanType ==
    ASSUME NEW s \in Seq(Items)
    PROVE  ProposedPlan(s) \in Seq(Ids) /\ ResultPlan(s) \in Seq(Ids)
  <1> DEFINE I == ActivePlanEpoch(s) \cap Of(s, {"plan_step_proposed"})
             p == ItemsAt(s, I)
  <1> HIDE DEF I
  <1>1. p \in Seq(Items)
    BY ItemsAtPicks DEF Picks
  <1> HIDE DEF p
  <1>2. [i \in DOMAIN p |-> p[i].id] \in Seq(Ids)
    <2>1. DOMAIN p = 1..Len(p) /\ Len(p) \in Nat /\ \A i \in 1..Len(p) : p[i] \in Items
      BY <1>1
    <2>2. [i \in DOMAIN p |-> p[i].id] = [i \in 1..Len(p) |-> p[i].id]
      BY <2>1
    <2>3. \A i \in 1..Len(p) : p[i].id \in Ids
      BY <2>1 DEF Items
    <2>4. [i \in 1..Len(p) |-> p[i].id] \in Seq(Ids)
      BY <2>1, <2>3, SeqDef
    <2> QED BY <2>2, <2>4
  <1>3. ProposedPlan(s) \in Seq(Ids)
    BY <1>2 DEF ProposedPlan, p, I
  <1>4. <<>> \in Seq(Ids)
    OBVIOUS
  <1> QED BY <1>3, <1>4 DEF ResultPlan

\* What a sequence that closes the pending calls of s is.
Closing(s, t) ==
    /\ t \in Seq(Items)
    /\ \A i \in DOMAIN t : t[i].kind = "capability_error"
    /\ Distinct(s, Decision) => Distinct(t, Answer)
    /\ \A i \in Of(t, Answer) : Free(s, Answer, t[i].id)

\* The calls that Start closes: one error for each pending decision.
LEMMA ClosedCalls ==
    ASSUME NEW s \in Seq(Items)
    PROVE  LET pending == PendingDecisions(s)
               closed == [i \in DOMAIN pending |->
                             Item("capability_error", pending[i].id, "interrupted")]
           IN  Closing(s, closed)
  <1> DEFINE I == {i \in Of(s, {"assistant_decision"}) : CallState(s, s[i].id) = "pending"}
             p == ItemsAt(s, I)
             closed == [i \in DOMAIN p |-> Item("capability_error", p[i].id, "interrupted")]
  <1>1. \A i \in I : i \in Of(s, Decision) /\ CallState(s, s[i].id) = "pending"
    BY DEF Decision
  <1> HIDE DEF I
  <1>2. PICK h : Picks(s, I, p, h)
    BY ItemsAtPicks
  <1>3. p \in Seq(Items) /\ \A k \in 1..Len(p) : h[k] \in I /\ h[k] \in DOMAIN s /\ p[k] = s[h[k]]
    BY <1>2 DEF Picks
  <1>4. \A j, k \in 1..Len(p) : j < k => h[j] < h[k]
    BY <1>2 DEF Picks
  <1> HIDE DEF p
  <1>5. closed \in Seq(Items)
    <2>0. \A k \in 1..Len(p) : p[k] \in Items
      BY <1>3
    <2>1. \A k \in 1..Len(p) : p[k].id \in Ids
      BY <2>0 DEF Items
    <2>2. \A k \in 1..Len(p) : Item("capability_error", p[k].id, "interrupted") \in Items
      BY <2>1 DEF Item, Items, Kinds, Whats, Codes
    <2>3. DOMAIN p = 1..Len(p) /\ Len(p) \in Nat
      BY <1>3
    <2>4. closed = [i \in 1..Len(p) |-> closed[i]]
      BY <2>3
    <2>5. \A i \in 1..Len(p) : closed[i] \in Items
      BY <2>2, <2>3
    <2> HIDE DEF closed
    <2> QED BY <2>3, <2>4, <2>5, SeqDef
  <1>6. DOMAIN closed = 1..Len(p) /\ Len(p) \in Nat
    BY <1>3
  <1>7. \A i \in 1..Len(p) : closed[i].kind = "capability_error" /\ closed[i].id = p[i].id
    BY <1>6 DEF Item
  <1> HIDE DEF closed
  <1>8. ASSUME Distinct(s, Decision) PROVE Distinct(closed, Answer)
    <2> SUFFICES ASSUME NEW i \in 1..Len(p), NEW j \in 1..Len(p), p[i].id = p[j].id PROVE i = j
      BY <1>6, <1>7 DEF Distinct, Of
    <2>1. h[i] = h[j]
      BY <1>1, <1>3, <1>8 DEF Distinct
    <2>2. h[i] \in Nat /\ h[j] \in Nat
      BY <1>3
    <2>3. ~(i < j) /\ ~(j < i)
      BY <2>1, <2>2, <1>4
    <2> QED BY <2>3, <1>6
  <1>9. \A i \in Of(closed, Answer) : Free(s, Answer, closed[i].id)
    <2> SUFFICES ASSUME NEW i \in 1..Len(p) PROVE Free(s, Answer, p[i].id)
      BY <1>6, <1>7 DEF Of
    <2> QED BY <1>1, <1>3, CallStatePending
  <1> QED BY <1>5, <1>6, <1>7, <1>8, <1>9 DEF PendingDecisions, p, I, closed, Closing

----------------------------------------------------------------------------
(* Types.                                                                   *)

LEMMA ItemType ==
    ASSUME NEW k \in Kinds, NEW c \in Ids, NEW w \in Whats
    PROVE  /\ Item(k, c, w) \in Items /\ <<Item(k, c, w)>> \in Seq(Items)
           /\ Item(k, c, w).kind = k /\ Item(k, c, w).id = c /\ Item(k, c, w).what = w
  BY DEF Item, Items

LEMMA AnsweredType ==
    ASSUME NEW d \in BOOLEAN
    PROVE  /\ Answered(d) \in Items /\ <<Answered(d)>> \in Seq(Items)
           /\ Answered(d).kind = "final_answer"
           /\ Answered(d).what = IF d THEN "discard" ELSE "answer"
  <1>1. "final_answer" \in Kinds /\ None \in Ids /\ "discard" \in Whats /\ "answer" \in Whats
    BY DEF Kinds, Ids, Whats
  <1> QED BY <1>1, ItemType DEF Answered

LEMMA IdleType ==
    /\ Idle \in Loops /\ Idle.pc = "down"
    /\ [Idle EXCEPT !.pc = "done"] \in Loops /\ [Idle EXCEPT !.pc = "done"].pc = "done"
    /\ NoResult \in Results /\ NoResult.answer = None /\ NoResult.plan = <<>>
  <1>1. <<>> \in Seq(Ids)
    OBVIOUS
  <1> QED BY <1>1 DEF Idle, Loops, NoResult, Results, Ids, Busy, None

\* What a run gives is kept.
LEMMA GiveType ==
    ASSUME RunTypes, NEW r \in Results, Give(r)
    PROVE  /\ loop' \in Loops /\ loop'.pc = "done"
           /\ result' = r /\ result' \in Results /\ delivered' \in Results
  BY IdleType DEF Give, RunTypes

\* The first result of an attempt is one the transcript gives again.
GivesWell ==
    delivered = NoResult =>
        \/ delivered' = NoResult
        \/ AnsweredWith(items', delivered') /\ result' = delivered' /\ loop'.pc = "done"

\* The loop goes on or ends, with the items b and perhaps the host's answer.
EndedWith(b) ==
    /\ RunTypes'
    /\ loop'.pc \in {"loop", "done"}
    /\ MaxEffectSteps # 1 => GivesWell
    /\ items' = items \o b \/ items' = (items \o b) \o <<Answered(TRUE)>>

LEMMA FinishSafelyEnds ==
    ASSUME RunTypes, NEW b \in Seq(Items), FinishSafely(b)
    PROVE  EndedWith(b) /\ items' = (items \o b) \o <<Answered(TRUE)>>
  <1> DEFINE r == [answer |-> "fallback", plan |-> <<>>]
  <1>1. <<>> \in Seq(Ids)
    OBVIOUS
  <1>2. r \in Results
    BY <1>1 DEF Results
  <1>3. items' = (items \o b) \o <<Answered(TRUE)>> /\ Give(r)
    <2>1. items' = items \o (b \o <<Answered(TRUE)>>) /\ Give(r)
      BY DEF FinishSafely, Record
    <2>2. <<Answered(TRUE)>> \in Seq(Items) /\ items \in Seq(Items)
      BY AnsweredType DEF RunTypes
    <2>3. items \o (b \o <<Answered(TRUE)>>) = (items \o b) \o <<Answered(TRUE)>>
      BY <2>2, ConcatAssociative
    <2> QED BY <2>1, <2>3
  <1>4. items' \in Seq(Items)
    <2>1. <<Answered(TRUE)>> \in Seq(Items) /\ items \in Seq(Items)
      BY AnsweredType DEF RunTypes
    <2>2. items \o b \in Seq(Items)
      BY <2>1, Cat
    <2> QED BY <1>3, <2>1, <2>2, Cat
  <1>5. AnsweredWith(items', r)
    <2>1. items \o b \in Seq(Items) /\ <<Answered(TRUE)>> \in Seq(Items)
      BY Cat, AnsweredType DEF RunTypes
    <2>2. items' # <<>> /\ items'[Len(items')] = Answered(TRUE)
      BY <1>3, <2>1, CatOne, AnsweredType
    <2>3. Answered(TRUE).kind = "final_answer" /\ Answered(TRUE).what = "discard"
      BY AnsweredType
    <2> QED BY <2>2, <2>3 DEF AnsweredWith, ResumeTerminal
  <1>6. delivered = NoResult => delivered' = r
    BY <1>3 DEF Give
  <1> HIDE DEF r
  <1>7. GivesWell
    BY <1>2, <1>3, <1>5, <1>6, GiveType DEF GivesWell
  <1> QED BY <1>2, <1>3, <1>4, <1>7, GiveType DEF EndedWith, RunTypes

LEMMA FailEnds ==
    ASSUME RunTypes, NEW b \in Seq(Items), Fail(b)
    PROVE  EndedWith(b) /\ items' = items \o b
  <1> DEFINE r == [answer |-> "error", plan |-> <<>>]
  <1>1. <<>> \in Seq(Ids)
    OBVIOUS
  <1>2. r \in Results
    BY <1>1 DEF Results
  <1>3. items' = items \o b /\ Give(r)
    BY DEF Fail, Record
  <1>4. items' \in Seq(Items)
    BY <1>3 DEF RunTypes
  <1>5. delivered' = delivered
    BY <1>3 DEF Give
  <1> HIDE DEF r
  <1> QED BY <1>2, <1>3, <1>4, <1>5, GiveType DEF EndedWith, RunTypes, GivesWell

LEMMA AfterFailureEnds ==
    ASSUME RunTypes, NEW b \in Seq(Items), NEW l \in Loops, AfterFailure(b, l)
    PROVE  EndedWith(b)
  <1>1. CASE l.failures + 1 > MaxFailures
    BY <1>1, FinishSafelyEnds DEF AfterFailure
  <1>2. CASE ~(l.failures + 1 > MaxFailures)
    <2>1. items' = items \o b /\ loop' = [l EXCEPT !.pc = "loop", !.failures = @ + 1]
          /\ UNCHANGED <<result, delivered>>
      BY <1>2 DEF AfterFailure, Record, Unanswered
    <2>2. loop' \in Loops /\ loop'.pc = "loop"
      <3>1. /\ l \in [pc : {"down", "loop", "done"} \union Busy, decisions : Nat, calls : Nat,
                      failures : Nat, terminal : BOOLEAN, id : Ids, what : Capabilities \union {None}]
            /\ l.failures \in Nat /\ l.failures + 1 \in Nat
        BY DEF Loops
      <3> QED BY <2>1, <3>1 DEF Loops
    <2>3. items' \in Seq(Items)
      BY <2>1 DEF RunTypes
    <2> QED BY <2>1, <2>2, <2>3 DEF EndedWith, RunTypes, GivesWell
  <1> QED BY <1>1, <1>2

----------------------------------------------------------------------------
(* What a step does to the transcript.                                      *)

\* Nothing is decided, called, proposed, answered or planned by these.
Quiet == {"user_input", "task_plan_error", "final_answer", "plan_execution_error", "plan_prepared",
          "verified_effect_receipt"}

\* One item of a kind, with the id of the call in hand.
Reports(kinds) ==
    \E x \in Items : x.kind \in kinds /\ x.id = loop.id /\ EndedWith(<<x>>)

WritesQuietly ==
    \/ EndedWith(<<>>)
    \/ \E x \in Items : x.kind \in Quiet /\ EndedWith(<<x>>)

Decides ==
    \E x \in Items :
        /\ x.kind = "assistant_decision" /\ x.id \in CallIds /\ ~ Known(items, x.id)
        /\ items' = items \o <<x>>
        /\ RunTypes'
        /\ loop'.pc \in Busy \ {"called", "ran"} /\ loop'.id = x.id
        /\ loop'.pc # "rejecting" => ~ PlanRequired
        /\ Unanswered

Calls ==
    \E x \in Items :
        /\ x.kind = "capability_call" /\ loop.pc = "decided" /\ loop'.pc = "called"
        /\ loop'.id = loop.id /\ items' = items \o <<x>>
        /\ RunTypes'
        /\ Unanswered

Runs ==
    /\ loop.pc = "called" /\ loop'.pc = "ran" /\ loop'.id = loop.id
    /\ items' = items /\ RunTypes' /\ Unanswered

Plans ==
    \E p \in TaskPlanOffers(items) :
        /\ TaskPlanVerdict(items, p) = "ok"
        /\ Item("task_plan", None, p) \in Items
        /\ items' = items \o <<Item("task_plan", None, p)>>
        /\ loop'.pc = "loop"
        /\ RunTypes' /\ Unanswered

\* A step of the loop that has started.
LoopStep ==
    /\ loop.pc \in {"loop"} \union Busy
    /\ host' = host
    /\ \/ WritesQuietly
       \/ Plans
       \/ Decides
       \/ Calls
       \/ Runs
       \/ loop.pc \in Busy /\ Reports(Answer)
       \/ loop.pc = "proposing" /\ Reports({"plan_step_proposed"})

\* Where the loop may be.
Places == {"down", "loop", "done"} \union Busy

LEMMA LoopFields ==
    ASSUME NEW l \in Loops
    PROVE  /\ l.pc \in Places /\ l.id \in Ids /\ l.what \in Capabilities \union {None}
           /\ l.decisions \in Nat /\ l.decisions + 1 \in Nat
           /\ l.calls \in Nat /\ l.calls + 1 \in Nat
  BY DEF Loops, Places

LEMMA LoopUpdates ==
    ASSUME NEW l \in Loops
    PROVE  /\ \A d \in Nat : [l EXCEPT !.decisions = d] \in Loops
           /\ \A d \in Nat, k \in Nat : [l EXCEPT !.decisions = d, !.calls = k] \in Loops
           /\ \A pc \in Places : [l EXCEPT !.pc = pc] \in Loops
           /\ \A pc \in Places, c \in Ids, w \in Capabilities \union {None} :
                 [l EXCEPT !.pc = pc, !.id = c, !.what = w] \in Loops
           /\ \A pc \in Places, c \in Ids : [l EXCEPT !.pc = pc, !.id = c] \in Loops
           /\ \A pc \in Places, t \in BOOLEAN :
                 [l EXCEPT !.pc = pc, !.failures = 0, !.terminal = t] \in Loops
  <1> DEFINE A == Capabilities \union {None}
  <1>1. Loops = [pc : Places, decisions : Nat, calls : Nat, failures : Nat,
                 terminal : BOOLEAN, id : Ids, what : A]
    BY DEF Loops, Places
  <1> HIDE DEF A
  <1>3. /\ \A d \in Nat : [l EXCEPT !.decisions = d] \in Loops
        /\ \A d \in Nat, k \in Nat : [l EXCEPT !.decisions = d, !.calls = k] \in Loops
        /\ \A pc \in Places : [l EXCEPT !.pc = pc] \in Loops
    BY <1>1
  <1>4. /\ \A pc \in Places, c \in Ids, w \in A : [l EXCEPT !.pc = pc, !.id = c, !.what = w] \in Loops
        /\ \A pc \in Places, c \in Ids : [l EXCEPT !.pc = pc, !.id = c] \in Loops
    BY <1>1
  <1>5. \A pc \in Places, t \in BOOLEAN :
                 [l EXCEPT !.pc = pc, !.failures = 0, !.terminal = t] \in Loops
    BY <1>1
  <1> QED BY <1>3, <1>4, <1>5 DEF A

\* The ends of a run that record nothing of their own.
LEMMA EndsQuietly ==
    ASSUME RunTypes, Fail(<<>>) \/ FinishSafely(<<>>)
    PROVE  WritesQuietly
  <1>1. <<>> \in Seq(Items)
    OBVIOUS
  <1> QED BY <1>1, FailEnds, FinishSafelyEnds DEF WritesQuietly

\* The transcript answers for what the loop answers: a final answer adds nothing
\* to the plan.
LEMMA PlanOfAnswered ==
    ASSUME NEW s \in Seq(Items), NEW x \in Items, x.kind = "final_answer"
    PROVE  /\ ProposedPlan(s \o <<x>>) = ProposedPlan(s)
           /\ PostEffect(s \o <<x>>) <=> PostEffect(s)
           /\ ResultPlan(s \o <<x>>) = ResultPlan(s)
  <1> DEFINE t == s \o <<x>>
             I == ActivePlanEpoch(s) \cap Of(s, {"plan_step_proposed"})
             J == ActivePlanEpoch(t) \cap Of(t, {"plan_step_proposed"})
  <1>1. /\ t = Append(s, x) /\ t \in Seq(Items) /\ Len(s) \in Nat /\ Len(t) = Len(s) + 1
        /\ DOMAIN s = 1..Len(s) /\ DOMAIN t = 1..(Len(s) + 1) /\ (\A i \in 1..Len(s) : t[i] = s[i]) /\ t[Len(s) + 1] = x
    OBVIOUS
  <1> HIDE DEF t
  <1>2. \A i \in 1..Len(s) : i \in ActivePlanEpoch(t) <=> i \in ActivePlanEpoch(s)
    <2> SUFFICES ASSUME NEW i \in 1..Len(s)
                 PROVE  (\A j \in i..Len(t) : t[j].kind # "plan_execution_error")
                            <=> (\A j \in i..Len(s) : s[j].kind # "plan_execution_error")
      BY <1>1 DEF ActivePlanEpoch
    <2>1. \A j \in i..Len(s) : j \in i..Len(t) /\ t[j] = s[j]
      BY <1>1
    <2>2. \A j \in i..Len(t) : j \in i..Len(s) \/ t[j].kind = "final_answer"
      BY <1>1
    <2> QED BY <2>1, <2>2
  <1>3. I = J /\ Len(s) + 1 \notin I
    <2>1. \A i \in DOMAIN t : i \in DOMAIN s \/ t[i].kind = "final_answer"
      BY <1>1
    <2>2. \A i \in DOMAIN s : i \in DOMAIN t /\ t[i] = s[i]
      BY <1>1
    <2>3. I \subseteq DOMAIN s /\ J \subseteq DOMAIN t
      BY DEF Of
    <2>4. I \subseteq J
      BY <2>2, <2>3, <1>2, <1>1 DEF Of
    <2>5. J \subseteq I
      BY <2>1, <2>2, <2>3, <1>2, <1>1 DEF Of
    <2> QED BY <2>3, <2>4, <2>5, <1>1
  <1>4. ItemsAt(t, J) = ItemsAt(s, I)
    <2> HIDE DEF I, J
    <2> QED BY <1>1, <1>3, ItemsAtAppend
  <1>5. ProposedPlan(t) = ProposedPlan(s)
    BY <1>4 DEF ProposedPlan
  <1>6. PostEffect(t) <=> PostEffect(s)
    BY <1>1 DEF PostEffect, Of
  <1> QED BY <1>5, <1>6 DEF ResultPlan, t

LEMMA FinalAnswerStep ==
    ASSUME RunTypes, FinalAnswer
    PROVE  LoopStep
  <1> DEFINE x == Answered(FALSE)
             r == [answer |-> "answer", plan |-> ResultPlan(items)]
  <1>1. x \in Items /\ x.kind = "final_answer" /\ x.what = "answer" /\ items \in Seq(Items)
    BY AnsweredType DEF RunTypes
  <1>2. items' = items \o <<x>> /\ Give(r) /\ loop.pc = "loop" /\ host' = host
    BY DEF FinalAnswer, Record, MayAsk
  <1>3. r \in Results
    BY <1>1, ProposedPlanType DEF Results
  <1> HIDE DEF x
  <1>4. items' \in Seq(Items) /\ items' # <<>> /\ items'[Len(items')] = x
    BY <1>1, <1>2, CatOne
  <1>5. AnsweredWith(items', r)
    <2>1. ResultPlan(items') = ResultPlan(items)
      BY <1>1, <1>2, PlanOfAnswered
    <2> QED BY <1>1, <1>4, <2>1 DEF AnsweredWith, ResumeTerminal
  <1>6. delivered = NoResult => delivered' = r
    BY <1>2 DEF Give
  <1> HIDE DEF r
  <1>7. RunTypes' /\ GivesWell /\ loop'.pc = "done"
    BY <1>2, <1>3, <1>4, <1>5, <1>6, GiveType DEF GivesWell, RunTypes
  <1>8. EndedWith(<<x>>)
    BY <1>2, <1>7 DEF EndedWith
  <1> QED BY <1>1, <1>2, <1>8 DEF LoopStep, WritesQuietly, Quiet

LEMMA EndingStep ==
    ASSUME RunTypes, OutOfDecisions \/ ProviderFails \/ CancelledCall \/ Abort
    PROVE  LoopStep
  <1>1. Fail(<<>>) \/ FinishSafely(<<>>)
    BY DEF OutOfDecisions, ProviderFails, CancelledCall, Abort
  <1>2. loop.pc \in {"loop"} \union Busy /\ host' = host
    BY DEF OutOfDecisions, ProviderFails, CancelledCall, Abort, Busy
  <1> QED BY <1>1, <1>2, EndsQuietly DEF LoopStep

LEMMA TaskPlanStep ==
    ASSUME RunTypes, TaskPlanUpdate
    PROVE  LoopStep
  <1> DEFINE asked == [loop EXCEPT !.decisions = @ + 1]
  <1>0. loop.pc = "loop" /\ host' = host /\ items \in Seq(Items) /\ loop \in Loops
    BY DEF TaskPlanUpdate, MayAsk, RunTypes
  <1>1. PICK p \in TaskPlanOffers(items) :
            LET verdict == TaskPlanVerdict(items, p)
            IN  IF verdict # "ok"
                THEN AfterFailure(<<Item("task_plan_error", None, verdict)>>, asked)
                ELSE IF TerminalPending
                THEN FinishSafely(<<>>)
                ELSE /\ Record(<<Item("task_plan", None, p)>>)
                     /\ loop' = asked
                     /\ Unanswered
    BY DEF TaskPlanUpdate
  <1>2. asked \in Loops /\ asked.pc = "loop"
    <2>1. loop.decisions + 1 \in Nat
      BY <1>0, LoopFields
    <2>2. asked \in Loops
      BY <1>0, <2>1, LoopUpdates
    <2>3. asked.pc = loop.pc
      BY <1>0 DEF Loops
    <2> QED BY <1>0, <2>2, <2>3
  <1> HIDE DEF asked
  <1>3. CASE TaskPlanVerdict(items, p) # "ok"
    <2> DEFINE x == Item("task_plan_error", None, TaskPlanVerdict(items, p))
    <2>1. TaskPlanVerdict(items, p) \in Verdicts
      BY <1>3 DEF TaskPlanVerdict, Verdicts
    <2>2. "task_plan_error" \in Kinds /\ None \in Ids /\ TaskPlanVerdict(items, p) \in Whats
      BY <2>1 DEF Kinds, Ids, Whats
    <2>3. x \in Items /\ x.kind = "task_plan_error" /\ <<x>> \in Seq(Items)
      BY <2>2, ItemType
    <2>4. AfterFailure(<<x>>, asked)
      BY <1>1, <1>3
    <2> HIDE DEF x
    <2>5. EndedWith(<<x>>)
      BY <2>3, <2>4, <1>2, AfterFailureEnds
    <2> QED BY <1>0, <2>3, <2>5 DEF LoopStep, WritesQuietly, Quiet
  <1>4. CASE TaskPlanVerdict(items, p) = "ok" /\ TerminalPending
    <2>1. FinishSafely(<<>>)
      BY <1>1, <1>4
    <2> QED BY <2>1, <1>0, EndsQuietly DEF LoopStep
  <1>5. CASE TaskPlanVerdict(items, p) = "ok" /\ ~ TerminalPending
    <2> DEFINE x == Item("task_plan", None, p)
    <2>1. items' = items \o <<x>> /\ loop' = asked /\ Unanswered
      BY <1>1, <1>5 DEF Record
    <2>2. p \in TaskPlanRow
      <3>1. Cardinality(TaskPlans(items)) \in Nat
        BY <1>0, IndexSet DEF TaskPlans, Of
      <3> QED BY <3>1 DEF TaskPlanOffers, TaskPlanRow
    <2>3. "task_plan" \in Kinds /\ None \in Ids /\ p \in Whats
      BY <2>2 DEF Kinds, Ids, Whats
    <2>4. x \in Items /\ <<x>> \in Seq(Items)
      BY <2>3, ItemType
    <2> HIDE DEF x
    <2>5. items' \in Seq(Items)
      BY <1>0, <2>1, <2>4, CatOne
    <2>6. RunTypes'
      BY <2>1, <2>5, <1>2 DEF RunTypes, Unanswered
    <2> QED BY <1>0, <1>2, <1>5, <2>1, <2>4, <2>6 DEF LoopStep, Plans, x
  <1> QED BY <1>3, <1>4, <1>5

\* A fresh decision is committed, and the loop holds its call.
LEMMA DecisionStep ==
    ASSUME RunTypes, NEW c \in CallIds, NEW w \in Capabilities \union {"proposal"},
           loop.pc = "loop", host' = host, CallState(items, c) = None,
           Record(<<Item("assistant_decision", c, w)>>), Unanswered,
           loop' \in Loops, loop'.pc \in Busy \ {"called", "ran"}, loop'.id = c,
           loop'.pc # "rejecting" => ~ PlanRequired
    PROVE  LoopStep
  <1> DEFINE x == Item("assistant_decision", c, w)
  <1>1. "assistant_decision" \in Kinds /\ c \in Ids /\ w \in Whats
    BY DEF Kinds, Ids, Whats
  <1>2. x \in Items /\ x.kind = "assistant_decision" /\ x.id = c
    BY <1>1, ItemType
  <1>3. items' = items \o <<x>>
    BY DEF Record
  <1> HIDE DEF x
  <1>4. items \in Seq(Items) /\ items' \in Seq(Items)
    BY <1>2, <1>3, CatOne DEF RunTypes
  <1>5. ~ Known(items, c)
    BY <1>4, CallStateNone
  <1>6. RunTypes'
    BY <1>4 DEF RunTypes, Unanswered
  <1>7. Decides
    BY <1>2, <1>3, <1>5, <1>6 DEF Decides
  <1> QED BY <1>7 DEF LoopStep

LEMMA RejectStep ==
    ASSUME RunTypes, NEW what \in Capabilities \union {"proposal"}, RejectDecision(what)
    PROVE  LoopStep
  <1> DEFINE asked == [loop EXCEPT !.decisions = @ + 1,
                                   !.calls = IF what \in Capabilities THEN @ + 1 ELSE @]
  <1>0. loop.pc = "loop" /\ host' = host /\ items \in Seq(Items) /\ loop \in Loops
    BY DEF RejectDecision, MayAsk, RunTypes
  <1>1. PICK c \in CallIds :
            IF asked.calls > MaxCapabilityCalls
            THEN FinishSafely(<<>>)
            ELSE IF CallState(items, c) # None
            THEN Fail(<<>>)
            ELSE /\ Record(<<Item("assistant_decision", c, what)>>)
                 /\ loop' = [asked EXCEPT !.pc = "rejecting", !.id = c]
                 /\ Unanswered
    BY DEF RejectDecision
  <1>2. asked \in Loops
    <2>1. loop.decisions + 1 \in Nat /\ (IF what \in Capabilities THEN loop.calls + 1 ELSE loop.calls) \in Nat
      BY <1>0, LoopFields
    <2> QED BY <1>0, <2>1, LoopUpdates
  <1>3. CASE Fail(<<>>) \/ FinishSafely(<<>>)
    BY <1>0, <1>3, EndsQuietly DEF LoopStep
  <1>4. CASE ~(Fail(<<>>) \/ FinishSafely(<<>>))
    <2>1. /\ Record(<<Item("assistant_decision", c, what)>>) /\ Unanswered
          /\ CallState(items, c) = None
          /\ loop' = [asked EXCEPT !.pc = "rejecting", !.id = c]
      BY <1>1, <1>4
    <2> HIDE DEF asked
    <2>2. "rejecting" \in Places /\ c \in Ids /\ "rejecting" \in Busy \ {"called", "ran"}
      BY DEF Places, Busy, Ids
    <2>3. loop' \in Loops
      BY <2>1, <2>2, <1>2, LoopUpdates
    <2>4. loop'.pc = "rejecting" /\ loop'.id = c
      BY <2>1, <1>2 DEF Loops
    <2> QED BY <1>0, <2>1, <2>2, <2>3, <2>4, DecisionStep
  <1> QED BY <1>3, <1>4

LEMMA DecideCallStep ==
    ASSUME RunTypes, NEW cap \in Capabilities, DecideCall(cap)
    PROVE  LoopStep
  <1> DEFINE asked == [loop EXCEPT !.decisions = @ + 1, !.calls = @ + 1]
             limited == DefinitionCallCount(items, cap) >= MaxCalls
  <1>0. loop.pc = "loop" /\ host' = host /\ items \in Seq(Items) /\ loop \in Loops /\ ~ PlanRequired
    BY DEF DecideCall, MayAsk, RunTypes, Refused
  <1>1. PICK c \in CallIds :
            IF TerminalPending \/ asked.calls > MaxCapabilityCalls
            THEN FinishSafely(<<>>)
            ELSE IF CallState(items, c) # None
            THEN Fail(<<>>)
            ELSE /\ Record(<<Item("assistant_decision", c, cap)>>)
                 /\ loop' = [asked EXCEPT !.pc = IF limited THEN "limited" ELSE "decided",
                                          !.id = c, !.what = cap]
                 /\ Unanswered
    BY DEF DecideCall
  <1>2. asked \in Loops
    <2>1. loop.decisions + 1 \in Nat /\ loop.calls + 1 \in Nat
      BY <1>0, LoopFields
    <2> QED BY <1>0, <2>1, LoopUpdates
  <1>3. CASE Fail(<<>>) \/ FinishSafely(<<>>)
    BY <1>0, <1>3, EndsQuietly DEF LoopStep
  <1>4. CASE ~(Fail(<<>>) \/ FinishSafely(<<>>))
    <2> DEFINE pc == IF limited THEN "limited" ELSE "decided"
    <2>1. /\ Record(<<Item("assistant_decision", c, cap)>>) /\ Unanswered
          /\ CallState(items, c) = None
          /\ loop' = [asked EXCEPT !.pc = pc, !.id = c, !.what = cap]
      BY <1>1, <1>4
    <2> HIDE DEF asked, limited
    <2>2. pc \in Places /\ c \in Ids /\ pc \in Busy \ {"called", "ran"} /\ cap \in Capabilities \union {None}
      BY DEF Places, Busy, Ids
    <2> HIDE DEF pc
    <2>3. loop' \in Loops
      BY <2>1, <2>2, <1>2, LoopUpdates
    <2>4. loop'.pc = pc /\ loop'.id = c
      BY <2>1, <1>2 DEF Loops
    <2> QED BY <1>0, <2>1, <2>2, <2>3, <2>4, DecisionStep
  <1> QED BY <1>3, <1>4

LEMMA DecideProposalStep ==
    ASSUME RunTypes, DecideProposal
    PROVE  LoopStep
  <1>0. loop.pc = "loop" /\ host' = host /\ items \in Seq(Items) /\ loop \in Loops /\ ~ PlanRequired
    BY DEF DecideProposal, MayAsk, RunTypes, Refused
  <1>1. PICK c \in CallIds :
          IF TerminalPending
          THEN FinishSafely(<<>>)
          ELSE IF CallState(items, c) # None
          THEN Fail(<<>>)
          ELSE /\ Record(<<Item("assistant_decision", c, "proposal")>>)
               /\ loop' = [loop EXCEPT !.pc = "proposing", !.id = c,
                                       !.decisions = @ + 1]
               /\ Unanswered
    BY DEF DecideProposal
  <1>3. CASE Fail(<<>>) \/ FinishSafely(<<>>)
    BY <1>0, <1>3, EndsQuietly DEF LoopStep
  <1>4. CASE ~(Fail(<<>>) \/ FinishSafely(<<>>))
    <2>1. /\ Record(<<Item("assistant_decision", c, "proposal")>>) /\ Unanswered
          /\ CallState(items, c) = None
          /\ loop' = [loop EXCEPT !.pc = "proposing", !.id = c, !.decisions = @ + 1]
      BY <1>1, <1>4
    <2>2. "proposing" \in Places /\ c \in Ids /\ "proposing" \in Busy \ {"called", "ran"}
      BY DEF Places, Busy, Ids
    <2>3. loop' \in Loops
      <3>1. loop.decisions + 1 \in Nat
        BY <1>0, LoopFields
      <3> QED BY <1>0, <2>1, <2>2, <3>1 DEF Loops, Places
    <2>4. loop'.pc = "proposing" /\ loop'.id = c
      BY <2>1, <1>0 DEF Loops
    <2> QED BY <1>0, <2>1, <2>2, <2>3, <2>4, DecisionStep
  <1> QED BY <1>3, <1>4

\* An answer to the call in hand.
LEMMA AnswerItem ==
    ASSUME RunTypes, NEW k \in Answer, NEW w \in Codes \union {None}
    PROVE  LET x == Item(k, loop.id, w)
           IN  x \in Items /\ <<x>> \in Seq(Items) /\ x.kind = k /\ x.id = loop.id
  <1>1. k \in Kinds /\ loop.id \in Ids /\ w \in Whats
    BY LoopFields DEF RunTypes, Answer, Kinds, Whats
  <1> QED BY <1>1, ItemType

LEMMA FailureStep ==
    ASSUME RunTypes, NEW code \in Codes, AfterFailure(<<Item("capability_error", loop.id, code)>>, loop)
    PROVE  Reports(Answer)
  <1> DEFINE x == Item("capability_error", loop.id, code)
  <1>1. x \in Items /\ <<x>> \in Seq(Items) /\ x.kind = "capability_error" /\ x.id = loop.id
    BY AnswerItem DEF Answer
  <1> HIDE DEF x
  <1>2. EndedWith(<<x>>)
    BY <1>1, AfterFailureEnds DEF RunTypes, x
  <1> QED BY <1>1, <1>2 DEF Reports, Answer

LEMMA ReportStep ==
    ASSUME RunTypes, RecordRejection \/ RecordCallLimit \/ RecordOutcome
    PROVE  LoopStep
  <1>0. loop.pc \in Busy /\ host' = host /\ items \in Seq(Items) /\ loop \in Loops
    BY DEF RecordRejection, RecordCallLimit, RecordOutcome, Busy, RunTypes
  <1>1. CASE \E code \in Codes : AfterFailure(<<Item("capability_error", loop.id, code)>>, loop)
    BY <1>0, <1>1, FailureStep DEF LoopStep
  <1>2. ASSUME NEW k \in Answer, NEW w \in Codes \union {None}, NEW t \in BOOLEAN,
               Record(<<Item(k, loop.id, w)>>),
               loop' = [loop EXCEPT !.pc = "loop", !.failures = 0, !.terminal = t],
               Unanswered
        PROVE  LoopStep
    <2> DEFINE x == Item(k, loop.id, w)
    <2>1. x \in Items /\ x.kind = k /\ x.id = loop.id
      BY AnswerItem
    <2>2. items' = items \o <<x>>
      BY <1>2 DEF Record
    <2> HIDE DEF x
    <2>3. items' \in Seq(Items)
      BY <1>0, <2>1, <2>2, CatOne
    <2>4. loop' \in Loops
      BY <1>0, <1>2, LoopUpdates DEF Places
    <2>5. loop'.pc = "loop"
      BY <1>0, <1>2 DEF Loops
    <2>6. EndedWith(<<x>>)
      BY <1>2, <2>2, <2>3, <2>4, <2>5 DEF EndedWith, GivesWell, RunTypes, Unanswered
    <2>7. Reports(Answer)
      BY <2>1, <2>6 DEF Reports
    <2> QED BY <1>0, <2>7 DEF LoopStep
  <1>3. CASE RecordRejection
    <2>1. "rejected" \in Codes
      BY DEF Codes
    <2> QED BY <1>1, <1>3, <2>1 DEF RecordRejection
  <1>4. CASE RecordCallLimit
    <2>1. "call_limit" \in Codes
      BY DEF Codes
    <2> QED BY <1>1, <1>4, <2>1 DEF RecordCallLimit
  <1>5. CASE RecordOutcome
    <2>0. /\ "correctable" \in Codes /\ "too_large" \in Codes /\ "terminal" \in Codes \union {None}
          /\ None \in Codes \union {None} /\ "capability_result" \in Answer /\ "capability_error" \in Answer
      BY DEF Codes, Answer
    <2>1. CASE /\ Record(<<Item("capability_result", loop.id, None)>>)
               /\ loop' = [loop EXCEPT !.pc = "loop", !.failures = 0, !.terminal = FALSE]
               /\ Unanswered
      BY <1>2, <2>0, <2>1
    <2>2. CASE /\ Record(<<Item("capability_error", loop.id, "terminal")>>)
               /\ loop' = [loop EXCEPT !.pc = "loop", !.failures = 0, !.terminal = TRUE]
               /\ Unanswered
      BY <1>2, <2>0, <2>2
    <2>3. CASE \E code \in {"correctable", "too_large"} :
                   AfterFailure(<<Item("capability_error", loop.id, code)>>, loop)
      BY <1>1, <2>0, <2>3
    <2> QED BY <1>5, <2>1, <2>2, <2>3 DEF RecordOutcome
  <1> QED BY <1>3, <1>4, <1>5

LEMMA CallStep ==
    ASSUME RunTypes, RecordCall
    PROVE  LoopStep
  <1> DEFINE x == Item("capability_call", loop.id, loop.what)
  <1>0. loop.pc = "decided" /\ host' = host /\ items \in Seq(Items) /\ loop \in Loops
    BY DEF RecordCall, RunTypes
  <1>1. "capability_call" \in Kinds /\ loop.id \in Ids /\ loop.what \in Whats
    BY <1>0, LoopFields DEF Kinds, Whats
  <1>2. x \in Items /\ x.kind = "capability_call"
    BY <1>1, ItemType
  <1>3. items' = items \o <<x>> /\ loop' = [loop EXCEPT !.pc = "called"] /\ Unanswered
    BY DEF RecordCall, Record, Unanswered
  <1> HIDE DEF x
  <1>4. items' \in Seq(Items)
    BY <1>0, <1>2, <1>3, CatOne
  <1>5. loop' \in Loops
    BY <1>0, <1>3, LoopUpdates DEF Places, Busy
  <1>6. loop'.pc = "called" /\ loop'.id = loop.id
    BY <1>0, <1>3 DEF Loops
  <1>7. Calls
    BY <1>0, <1>2, <1>3, <1>4, <1>5, <1>6 DEF Calls, RunTypes, Unanswered
  <1> QED BY <1>0, <1>7 DEF LoopStep, Busy

LEMMA ExecuteStep ==
    ASSUME RunTypes, Execute
    PROVE  LoopStep /\ Runs
  <1>0. loop.pc = "called" /\ host' = host /\ loop \in Loops /\ items' = items
    BY DEF Execute, RunTypes
  <1>1. loop' = [loop EXCEPT !.pc = "ran"] /\ Unanswered
    BY DEF Execute, Unanswered
  <1>2. loop' \in Loops
    BY <1>0, <1>1, LoopUpdates DEF Places, Busy
  <1>3. loop'.pc = "ran" /\ loop'.id = loop.id
    BY <1>0, <1>1 DEF Loops
  <1>4. Runs
    BY <1>0, <1>1, <1>2, <1>3 DEF Runs, RunTypes, Unanswered
  <1> QED BY <1>0, <1>4 DEF LoopStep, Busy

LEMMA ProposalStep ==
    ASSUME RunTypes, RecordProposal
    PROVE  LoopStep
  <1>0. loop.pc = "proposing" /\ host' = host /\ items \in Seq(Items) /\ loop \in Loops
    BY DEF RecordProposal, RunTypes
  <1>1. ASSUME NEW code \in Codes, Fail(<<Item("capability_error", loop.id, code)>>)
        PROVE  LoopStep
    <2> DEFINE x == Item("capability_error", loop.id, code)
    <2>1. x \in Items /\ <<x>> \in Seq(Items) /\ x.kind = "capability_error" /\ x.id = loop.id
      BY AnswerItem DEF Answer
    <2>2. Fail(<<x>>)
      BY <1>1
    <2> HIDE DEF x
    <2>3. EndedWith(<<x>>)
      BY <2>1, <2>2, FailEnds
    <2>4. Reports(Answer)
      BY <2>1, <2>3 DEF Reports, Answer
    <2> QED BY <1>0, <2>4 DEF LoopStep, Busy
  <1>2. "not_enabled" \in Codes /\ "plan_limit" \in Codes
    BY DEF Codes
  <1>3. CASE PostEffect(items)
    BY <1>1, <1>2, <1>3 DEF RecordProposal
  <1>4. CASE ~ PostEffect(items) /\ Len(ProposedPlan(items)) >= MaxEffectSteps
    BY <1>1, <1>2, <1>4 DEF RecordProposal
  <1>5. CASE ~ PostEffect(items) /\ ~(Len(ProposedPlan(items)) >= MaxEffectSteps)
    <2> DEFINE x == Item("plan_step_proposed", loop.id, None)
               r == [answer |-> "answer", plan |-> ProposedPlan(items')]
    <2>1. "plan_step_proposed" \in Kinds /\ loop.id \in Ids /\ None \in Whats
      BY <1>0, LoopFields DEF Kinds, Whats
    <2>2. x \in Items /\ x.kind = "plan_step_proposed" /\ x.id = loop.id
      BY <2>1, ItemType
    <2>3. /\ items' = items \o <<x>>
          /\ IF MaxEffectSteps = 1
             THEN Give([answer |-> "answer", plan |-> ProposedPlan(items \o <<x>>)])
             ELSE /\ loop' = [loop EXCEPT !.pc = "loop", !.failures = 0, !.terminal = FALSE]
                  /\ Unanswered
      BY <1>5 DEF RecordProposal
    <2> HIDE DEF x
    <2>4. items' \in Seq(Items)
      BY <1>0, <2>2, <2>3, CatOne
    <2>5. EndedWith(<<x>>)
      <3>1. CASE MaxEffectSteps = 1
        <4>1. r \in Results
          BY <2>4, ProposedPlanType DEF Results
        <4>2. Give(r)
          BY <2>3, <3>1
        <4> HIDE DEF r
        <4> QED BY <2>3, <2>4, <3>1, <4>1, <4>2, GiveType DEF EndedWith, RunTypes
      <3>2. CASE MaxEffectSteps # 1
        <4>1. loop' = [loop EXCEPT !.pc = "loop", !.failures = 0, !.terminal = FALSE] /\ Unanswered
          BY <2>3, <3>2
        <4>2. loop' \in Loops
          BY <1>0, <4>1, LoopUpdates DEF Places
        <4>3. loop'.pc = "loop"
          BY <1>0, <4>1 DEF Loops
        <4> QED BY <2>3, <2>4, <4>1, <4>2, <4>3 DEF EndedWith, GivesWell, RunTypes, Unanswered
      <3> QED BY <3>1, <3>2
    <2>6. Reports({"plan_step_proposed"})
      BY <2>2, <2>5 DEF Reports
    <2> QED BY <1>0, <2>6 DEF LoopStep, Busy
  <1> QED BY <1>3, <1>4, <1>5

\* The actions of a loop that has started.
Looping ==
    \/ OutOfDecisions \/ ProviderFails \/ FinalAnswer \/ TaskPlanUpdate
    \/ \E what \in Capabilities \cup {"proposal"} : RejectDecision(what)
    \/ RecordRejection
    \/ \E cap \in Capabilities : DecideCall(cap)
    \/ RecordCallLimit \/ RecordCall \/ CancelledCall \/ Execute \/ RecordOutcome
    \/ DecideProposal \/ RecordProposal \/ Abort

LEMMA LoopingStep ==
    ASSUME RunTypes, Looping
    PROVE  LoopStep
  BY EndingStep, FinalAnswerStep, TaskPlanStep, RejectStep, ReportStep, DecideCallStep, CallStep,
     ExecuteStep, DecideProposalStep, ProposalStep DEF Looping

\* A run begins: it answers again, or closes what is pending and goes on.
StartStep ==
    /\ loop.pc = "down" /\ host = "reasoning" /\ host' = host /\ RunTypes'
    /\ \/ /\ items # <<>> /\ items[Len(items)].kind = "final_answer"
          /\ items' = items /\ Give(ResumeTerminal(items)) /\ loop'.pc = "done"
       \/ \E began, t \in Seq(Items) :
             /\ \/ began = items /\ (items # <<>> => items[Len(items)].kind # "final_answer")
                \/ items = <<>> /\ \E x \in Items : x.kind = "user_input" /\ began = items \o <<x>>
             /\ Closing(began, t) /\ items' = began \o t
             /\ loop'.pc = "loop" /\ Unanswered

LEMMA StartingStep ==
    ASSUME RunTypes, Start
    PROVE  StartStep
  <1> DEFINE x == Item("user_input", None, None)
             began == IF items = <<>> THEN <<x>> ELSE items
             pending == PendingDecisions(began)
             closed == [i \in DOMAIN pending |-> Item("capability_error", pending[i].id, "interrupted")]
             now == began \o closed
             fresh == [Idle EXCEPT !.pc = "loop",
                                   !.decisions = ProviderDecisionsUsed(now),
                                   !.calls = CapabilityCallsUsed(now),
                                   !.failures = TrailingFailureCount(now),
                                   !.terminal = TerminalErrorPending(now)]
  <1>0. loop.pc = "down" /\ host = "reasoning" /\ host' = host /\ items \in Seq(Items)
    BY DEF Start, RunTypes
  <1>1. "user_input" \in Kinds /\ None \in Ids /\ None \in Whats
    BY DEF Kinds, Ids, Whats
  <1>2. x \in Items /\ x.kind = "user_input"
    BY <1>1, ItemType
  <1>3. /\ began[Len(began)].kind = "final_answer" => Give(ResumeTerminal(began)) /\ items' = began
        /\ began[Len(began)].kind # "final_answer" => items' = now /\ loop' = fresh /\ Unanswered
    BY DEF Start
  <1> HIDE DEF x
  <1>4. began \in Seq(Items) /\ began # <<>>
    BY <1>0, <1>2
  <1>5. items = <<>> => began = items \o <<x>> /\ began[Len(began)] = x
    BY <1>0, <1>2
  <1>6. CASE began[Len(began)].kind = "final_answer"
    <2>1. items # <<>> /\ began = items
      BY <1>2, <1>5, <1>6
    <2>2. Give(ResumeTerminal(items)) /\ items' = items
      BY <1>3, <1>6, <2>1
    <2>3. ResumeTerminal(items) \in Results
      <3>1. <<>> \in Seq(Ids) /\ ResultPlan(items) \in Seq(Ids)
        BY <1>0, ProposedPlanType
      <3> QED BY <3>1 DEF ResumeTerminal, Results
    <2>4. RunTypes' /\ loop'.pc = "done"
      BY <1>0, <2>2, <2>3, GiveType DEF RunTypes
    <2> QED BY <1>0, <1>6, <2>1, <2>2, <2>4 DEF StartStep
  <1>7. CASE began[Len(began)].kind # "final_answer"
    <2>1. items' = now /\ loop' = fresh /\ Unanswered
      BY <1>3, <1>7
    <2>2. Closing(began, closed)
      <3> HIDE DEF began
      <3> QED BY <1>4, ClosedCalls
    <2> HIDE DEF closed, pending
    <2>3. closed \in Seq(Items)
      BY <2>2 DEF Closing
    <2>4. now \in Seq(Items)
      <3> HIDE DEF began
      <3> QED BY <1>4, <2>3, Cat
    <2> HIDE DEF now
    <2>5. fresh \in Loops /\ fresh.pc = "loop"
      <3>1. /\ ProviderDecisionsUsed(now) \in Nat /\ CapabilityCallsUsed(now) \in Nat
            /\ TrailingFailureCount(now) \in Nat /\ TerminalErrorPending(now) \in BOOLEAN
        <4>1. ActivePlanEpoch(now) \subseteq DOMAIN now
          BY DEF ActivePlanEpoch
        <4>2. ProviderDecisionsUsed(now) \in Nat
          BY <2>4, <4>1, IndexSet DEF ProviderDecisionsUsed
        <4>3. CapabilityCallsUsed(now) \in Nat
          BY <2>4, <4>1, IndexSet DEF CapabilityCallsUsed, CallsOf
        <4>4. TrailingFailureCount(now) \in Nat
          BY <2>4, <4>1, IndexSet DEF TrailingFailureCount
        <4>5. TerminalErrorPending(now) \in BOOLEAN
          BY DEF TerminalErrorPending
        <4> QED BY <4>2, <4>3, <4>4, <4>5
      <3>2. Idle \in Loops
        BY IdleType
      <3>3. Loops = [pc : Places, decisions : Nat, calls : Nat, failures : Nat,
                     terminal : BOOLEAN, id : Ids, what : Capabilities \union {None}] /\ "loop" \in Places
        BY DEF Loops, Places
      <3> QED BY <3>1, <3>2, <3>3
    <2> HIDE DEF fresh
    <2>6. RunTypes' /\ loop'.pc = "loop"
      BY <2>1, <2>4, <2>5 DEF RunTypes, Unanswered
    <2>7. \/ began = items /\ (items # <<>> => items[Len(items)].kind # "final_answer")
          \/ items = <<>> /\ \E y \in Items : y.kind = "user_input" /\ began = items \o <<y>>
      BY <1>2, <1>5, <1>7
    <2>8. items' = began \o closed
      BY <2>1 DEF now
    <2> HIDE DEF began
    <2> QED BY <1>0, <1>4, <2>1, <2>2, <2>3, <2>6, <2>7, <2>8 DEF StartStep
  <1> QED BY <1>6, <1>7

\* The actions of the host, the death of the worker and a cancellation.
Hosting ==
    \/ TakeResult \/ RefusePlan \/ GiveUp \/ PrepareOk \/ EffectVerified \/ DropPlan
    \/ Crash \/ Cancel

\* They write nothing about calls or TaskPlans.
HostStep ==
    /\ RunTypes'
    /\ \E t \in Seq(Items) : items' = items \o t /\ \A i \in DOMAIN t : t[i].kind \in Quiet
    /\ loop' = loop \/ loop'.pc \in {"down", "done"}
    /\ executed' = executed

LEMMA HostingStep ==
    ASSUME TypeInv, Hosting
    PROVE  HostStep
  <1>0. RunTypes /\ items \in Seq(Items) /\ result \in Results
    BY DEF TypeInv, RunTypes
  <1>1. ASSUME NEW x \in Items, x.kind \in Quiet, items' = Append(items, x),
               loop' = loop \/ loop' = Idle,
               result' \in Results, delivered' \in Results, executed' = executed
        PROVE  HostStep
    <2>1. items' = items \o <<x>> /\ items' \in Seq(Items) /\ <<x>> \in Seq(Items)
          /\ \A i \in DOMAIN <<x>> : <<x>>[i].kind \in Quiet
      BY <1>0, <1>1
    <2>2. loop' \in Loops
      BY <1>0, <1>1, IdleType DEF RunTypes
    <2>3. loop' = loop \/ loop'.pc \in {"down", "done"}
      BY <1>1, IdleType
    <2> QED BY <1>1, <2>1, <2>2, <2>3 DEF HostStep, RunTypes
  <1>2. ASSUME items' = items, loop' = loop \/ loop' = Idle, result' \in Results, delivered' = delivered,
               executed' = executed
        PROVE  HostStep
    <2>1. items' = items \o <<>> /\ <<>> \in Seq(Items) /\ \A i \in DOMAIN <<>> : <<>>[i].kind \in Quiet
      BY <1>0, <1>2
    <2>2. loop' \in Loops
      BY <1>0, <1>2, IdleType DEF RunTypes
    <2>3. loop' = loop \/ loop'.pc \in {"down", "done"}
      BY <1>2, IdleType
    <2> QED BY <1>0, <1>2, <2>1, <2>2, <2>3 DEF HostStep, RunTypes
  <1>3. CASE TakeResult \/ DropPlan \/ Cancel
    <2>1. UNCHANGED <<items, loop, result, delivered, executed>>
      BY <1>3, Zenon DEF TakeResult, DropPlan, Cancel, Ghosts
    <2> QED BY <1>0, <1>2, <2>1
  <1>4. CASE Crash
    <2>1. items' = items /\ loop' = Idle /\ result' = NoResult /\ delivered' = delivered /\ executed' = executed
      BY <1>4 DEF Crash, Ghosts
    <2> QED BY <1>2, <2>1, IdleType
  <1>5. CASE RefusePlan
    <2> DEFINE x == Item("plan_execution_error", None, None)
    <2>1. items' = Append(items, x) /\ loop' = Idle /\ result' = NoResult /\ delivered' = NoResult /\ executed' = executed
      BY <1>5 DEF RefusePlan
    <2>2. "plan_execution_error" \in Kinds /\ None \in Ids /\ None \in Whats
      BY DEF Kinds, Ids, Whats
    <2>3. x \in Items /\ x.kind \in Quiet
      BY <2>2, ItemType DEF Quiet
    <2> HIDE DEF x
    <2> QED BY <1>1, <2>1, <2>3, IdleType
  <1>6. CASE PrepareOk
    <2> DEFINE x == Item("plan_prepared", None, result.plan)
    <2>1. items' = Append(items, x) /\ UNCHANGED <<loop, result, delivered, executed>>
      BY <1>6 DEF PrepareOk, Ghosts
    <2>2. result.plan \in Seq(Ids)
      BY <1>0 DEF Results
    <2>3. "plan_prepared" \in Kinds /\ None \in Ids /\ result.plan \in Whats
      BY <2>2 DEF Kinds, Ids, Whats
    <2>4. x \in Items /\ x.kind \in Quiet
      BY <2>3, ItemType DEF Quiet
    <2> HIDE DEF x
    <2>5. result' \in Results /\ delivered' \in Results
      BY <1>0, <2>1 DEF RunTypes
    <2> QED BY <1>1, <2>1, <2>4, <2>5
  <1>7. CASE GiveUp
    <2>1. FinishSafely(<<>>) /\ executed' = executed
      BY <1>7 DEF GiveUp, Ghosts
    <2>2. <<>> \in Seq(Items)
      OBVIOUS
    <2>3. RunTypes' /\ items' = (items \o <<>>) \o <<Answered(TRUE)>>
      BY <1>0, <2>1, <2>2, FinishSafelyEnds DEF EndedWith
    <2>4. loop'.pc = "done"
      BY <2>1, IdleType DEF FinishSafely, Give
    <2> DEFINE x == Answered(TRUE)
    <2>5. x \in Items /\ x.kind \in Quiet
      BY AnsweredType DEF Quiet
    <2>6. items' = items \o <<x>>
      BY <1>0, <2>3, <2>5, CatOne
    <2> HIDE DEF x
    <2>7. <<x>> \in Seq(Items) /\ \A i \in DOMAIN <<x>> : <<x>>[i].kind \in Quiet
      BY <2>5
    <2> QED BY <2>1, <2>3, <2>4, <2>6, <2>7 DEF HostStep
  <1>8. CASE EffectVerified
    <2> DEFINE x == Item("verified_effect_receipt", None, None)
               y == Answered(FALSE)
    <2>1. "verified_effect_receipt" \in Kinds /\ None \in Ids /\ None \in Whats
      BY DEF Kinds, Ids, Whats
    <2>2. x \in Items /\ x.kind \in Quiet /\ y \in Items /\ y.kind \in Quiet
      BY <2>1, ItemType, AnsweredType DEF Quiet
    <2>3. executed' = executed
      BY <1>8, Zenon DEF EffectVerified
    <2>4. \/ /\ items' = items \o <<x, y>> /\ UNCHANGED <<loop, delivered>>
             /\ result' = [answer |-> "answer", plan |-> <<>>]
          \/ items' = Append(items, x) /\ loop' = Idle /\ result' = NoResult /\ delivered' = NoResult
      <3> HIDE DEF y
      <3>1. PICK incomplete \in BOOLEAN :
                IF incomplete
                THEN /\ items' = items \o <<x, y>>
                     /\ host' = "ended"
                     /\ result' = [answer |-> "answer", plan |-> <<>>]
                     /\ UNCHANGED <<loop, delivered>>
                ELSE /\ items' = Append(items, x)
                     /\ host' = "reasoning"
                     /\ loop' = Idle
                     /\ result' = NoResult
                     /\ delivered' = NoResult
        BY <1>8, Zenon DEF EffectVerified, y
      <3> HIDE DEF x
      <3> QED BY <3>1
    <2> HIDE DEF x, y
    <2>5. CASE items' = Append(items, x) /\ loop' = Idle /\ result' = NoResult /\ delivered' = NoResult
      BY <1>1, <2>2, <2>3, <2>5, IdleType
    <2>6. CASE /\ items' = items \o <<x, y>> /\ UNCHANGED <<loop, delivered>>
               /\ result' = [answer |-> "answer", plan |-> <<>>]
      <3>1. /\ <<x, y>> \in Seq(Items) /\ items \o <<x, y>> \in Seq(Items)
            /\ \A i \in DOMAIN <<x, y>> : <<x, y>>[i].kind \in Quiet
        BY <1>0, <2>2
      <3>2. <<>> \in Seq(Ids)
        OBVIOUS
      <3>3. result' \in Results
        BY <2>6, <3>2 DEF Results
      <3> QED BY <1>0, <2>3, <2>6, <3>1, <3>3 DEF HostStep, RunTypes
    <2> QED BY <2>4, <2>5, <2>6
  <1> QED BY <1>3, <1>4, <1>5, <1>6, <1>7, <1>8 DEF Hosting

\* Every step is one of the loop, a start or one of the host.
LEMMA NextSplit ==
    ASSUME Next
    PROVE  Start \/ Looping \/ Hosting
  BY DEF Next, Step, Looping, Hosting

\* Only an execution counts as one, and the loop leaves the host alone.
LEMMA LoopKeeps ==
    ASSUME Start \/ (Looping /\ ~ Execute)
    PROVE  UNCHANGED <<host, cancel, crashes, executed>>
  BY ZenonT(60) DEF Start, Looping, OutOfDecisions, ProviderFails, FinalAnswer, TaskPlanUpdate,
        RejectDecision, RecordRejection, DecideCall, RecordCallLimit, RecordCall, CancelledCall,
        RecordOutcome, DecideProposal, RecordProposal, Abort, Ghosts

LEMMA TypeInit ==
    ASSUME Init
    PROVE  TypeInv
  <1>1. <<>> \in Seq(Items)
    OBVIOUS
  <1> QED BY <1>1, IdleType DEF Init, TypeInv, RunTypes, HostTypes, Hosts

LEMMA TypeStep ==
    ASSUME TypeInv, [Next]_vars
    PROVE  TypeInv'
  <1>0. RunTypes /\ HostTypes
    BY DEF TypeInv
  <1>1. CASE UNCHANGED vars
    BY <1>0, <1>1 DEF vars, TypeInv, RunTypes, HostTypes
  <1>2. CASE Next
    <2>1. RunTypes'
      <3>1. CASE Start
        BY <1>0, <3>1, StartingStep DEF StartStep
      <3>2. CASE Looping
        BY <1>0, <3>2, LoopingStep DEF LoopStep, WritesQuietly, Plans, Decides, Calls, Runs, Reports, EndedWith
      <3>3. CASE Hosting
        BY <3>3, HostingStep DEF HostStep
      <3> QED BY <1>2, <3>1, <3>2, <3>3, NextSplit
    <2>2. HostTypes'
      <3>1. CASE Execute
        <4>1. UNCHANGED <<host, cancel, crashes>> /\ executed' = [executed EXCEPT ![loop.id] = @ + 1]
          BY <3>1 DEF Execute
        <4>2. executed' \in [CallIds -> Nat]
          <5>1. executed' = [c \in CallIds |-> IF c = loop.id THEN executed[c] + 1 ELSE executed[c]]
            BY <1>0, <4>1 DEF HostTypes
          <5>2. \A c \in CallIds : executed[c] \in Nat /\ executed[c] + 1 \in Nat
            BY <1>0 DEF HostTypes
          <5> QED BY <5>1, <5>2
        <4> QED BY <1>0, <4>1, <4>2 DEF HostTypes
      <3>2. CASE Start \/ (Looping /\ ~ Execute)
        <4>1. UNCHANGED <<host, cancel, crashes, executed>>
          BY <3>2, LoopKeeps
        <4> QED BY <1>0, <4>1 DEF HostTypes
      <3>3. CASE Hosting
        <4>1. executed' = executed
          BY <3>3, HostingStep DEF HostStep
        <4>2. host' \in Hosts
          BY <1>0, <3>3 DEF HostTypes, Hosts, Hosting, TakeResult, RefusePlan, GiveUp, PrepareOk,
                EffectVerified, DropPlan, Crash, Cancel
        <4>3. cancel' \in BOOLEAN
          BY <1>0, <3>3 DEF HostTypes, Hosting, TakeResult, RefusePlan, GiveUp, PrepareOk,
                EffectVerified, DropPlan, Crash, Cancel
        <4>4. crashes' \in Nat
          BY <1>0, <3>3 DEF HostTypes, Hosting, TakeResult, RefusePlan, GiveUp, PrepareOk,
                EffectVerified, DropPlan, Crash, Cancel
        <4> QED BY <1>0, <4>1, <4>2, <4>3, <4>4 DEF HostTypes
      <3> QED BY <1>2, <3>1, <3>2, <3>3, NextSplit
    <2> QED BY <2>1, <2>2 DEF TypeInv
  <1> QED BY <1>1, <1>2

\* The transcript, the state of the loop and what it gave are always well formed.
THEOREM TypesHold == Spec => []TypeInv
  BY TypeInit, TypeStep, PTL DEF Spec

----------------------------------------------------------------------------
(* No call id twice.                                                        *)

\* Items that neither decide nor answer leave the decisions and answers alone.
LEMMA UniqueGrows ==
    ASSUME NEW s \in Seq(Items), NEW t \in Seq(Items),
           Distinct(s, Decision), Distinct(s, Answer),
           \A i \in DOMAIN t : t[i].kind \notin Decision \union Answer
    PROVE  /\ s \o t \in Seq(Items) /\ Distinct(s \o t, Decision) /\ Distinct(s \o t, Answer)
           /\ \A c : Free(s, Answer, c) => Free(s \o t, Answer, c)
           /\ \A c : Known(s, c) => Known(s \o t, c)
  <1>1. Of(t, Decision) = {} /\ Of(t, Answer) = {}
    BY DEF Of
  <1>2. Distinct(t, Decision) /\ Distinct(t, Answer) /\ \A c : Free(t, Answer, c)
    BY <1>1 DEF Distinct, Free
  <1>3. Distinct(s \o t, Decision)
    BY <1>1, <1>2, DistinctCat
  <1>4. Distinct(s \o t, Answer)
    BY <1>1, <1>2, DistinctCat
  <1>5. \A c : Free(s, Answer, c) => Free(s \o t, Answer, c)
    BY <1>2, FreeCat
  <1>6. \A c : Known(s, c) => Known(s \o t, c)
    BY KnownCat
  <1> QED BY <1>3, <1>4, <1>5, <1>6, Cat

\* The counts of the executions stay true when the transcript grows.
Counted(s, e) == \A c \in CallIds : e[c] <= 1 /\ (e[c] > 0 => Known(s, c))

LEMMA CountedGrows ==
    ASSUME NEW s \in Seq(Items), NEW t \in Seq(Items), NEW e, Counted(s, e)
    PROVE  Counted(s \o t, e)
  BY KnownCat DEF Counted

\* A step that ends or goes on with nothing in hand.
LEMMA OnceEnds ==
    ASSUME TypeInv, OnceInv, NEW b \in Seq(Items), EndedWith(b), executed' = executed,
           Distinct(items \o b, Decision), Distinct(items \o b, Answer)
    PROVE  OnceInv'
  <1> DEFINE x == Answered(TRUE)
  <1>1. x \in Items /\ x.kind = "final_answer" /\ <<x>> \in Seq(Items)
    BY AnsweredType
  <1> HIDE DEF x
  <1>2. items \in Seq(Items) /\ items \o b \in Seq(Items)
    BY Cat DEF TypeInv, RunTypes
  <1>3. items' = items \o b \/ items' = (items \o b) \o <<x>>
    BY DEF EndedWith, x
  <1>4. loop'.pc \notin Busy
    BY DEF EndedWith, Busy
  <1>5. Counted(items \o b, executed)
    BY <1>2, CountedGrows DEF OnceInv, Counted
  <1>6. Distinct(items', Decision) /\ Distinct(items', Answer)
    <2>1. \A i \in DOMAIN <<x>> : <<x>>[i].kind \notin Decision \union Answer
      BY <1>1 DEF Decision, Answer
    <2> QED BY <1>1, <1>2, <1>3, <2>1, UniqueGrows
  <1>7. Counted(items', executed')
    BY <1>1, <1>2, <1>3, <1>5, CountedGrows
  <1> QED BY <1>4, <1>6, <1>7 DEF OnceInv, Counted

LEMMA OnceStarts ==
    ASSUME TypeInv, OnceInv, StartStep, executed' = executed
    PROVE  OnceInv'
  <1>0. items \in Seq(Items) /\ Counted(items, executed)
    BY DEF TypeInv, RunTypes, OnceInv, Counted
  <1>1. CASE items' = items /\ loop'.pc = "done"
    BY <1>0, <1>1 DEF OnceInv, Busy
  <1>2. CASE ~(items' = items /\ loop'.pc = "done")
    <2>1. PICK began \in Seq(Items), t \in Seq(Items) :
             /\ \/ began = items
                \/ \E x \in Items : x.kind = "user_input" /\ began = items \o <<x>>
             /\ Closing(began, t) /\ items' = began \o t
             /\ loop'.pc = "loop"
      BY <1>2 DEF StartStep
    <2>2. Distinct(began, Decision) /\ Distinct(began, Answer) /\ Counted(began, executed)
      <3>1. CASE began = items
        BY <1>0, <3>1 DEF OnceInv
      <3>2. CASE \E x \in Items : x.kind = "user_input" /\ began = items \o <<x>>
        <4>1. PICK x \in Items : x.kind = "user_input" /\ began = items \o <<x>>
          BY <3>2
        <4>2. <<x>> \in Seq(Items) /\ \A i \in DOMAIN <<x>> : <<x>>[i].kind \notin Decision \union Answer
          BY <4>1 DEF Decision, Answer
        <4> QED BY <1>0, <4>1, <4>2, UniqueGrows, CountedGrows DEF OnceInv
      <3> QED BY <2>1, <3>1, <3>2
    <2>3. /\ \A i \in DOMAIN t : t[i].kind = "capability_error"
          /\ Distinct(t, Answer) /\ \A i \in Of(t, Answer) : Free(began, Answer, t[i].id)
      BY <2>1, <2>2 DEF Closing
    <2>4. Of(t, Decision) = {}
      BY <2>3 DEF Of, Decision
    <2>5. Distinct(items', Answer)
      BY <2>1, <2>2, <2>3, DistinctCat
    <2>6. Distinct(items', Decision)
      <3>1. Distinct(t, Decision)
        BY <2>4 DEF Distinct
      <3> QED BY <2>1, <2>2, <2>4, <3>1, DistinctCat
    <2>7. Counted(items', executed')
      BY <2>1, <2>2, CountedGrows
    <2> QED BY <2>1, <2>5, <2>6, <2>7 DEF OnceInv, Counted, Busy
  <1> QED BY <1>1, <1>2

LEMMA OnceHosts ==
    ASSUME TypeInv, OnceInv, HostStep
    PROVE  OnceInv'
  <1>0. items \in Seq(Items) /\ Counted(items, executed)
    BY DEF TypeInv, RunTypes, OnceInv, Counted
  <1>1. PICK t \in Seq(Items) : items' = items \o t /\ \A i \in DOMAIN t : t[i].kind \in Quiet
    BY DEF HostStep
  <1>2. \A i \in DOMAIN t : t[i].kind \notin Decision \union Answer
    BY <1>1 DEF Quiet, Decision, Answer
  <1>3. Distinct(items', Decision) /\ Distinct(items', Answer)
    BY <1>0, <1>1, <1>2, UniqueGrows DEF OnceInv
  <1>4. Counted(items', executed')
    BY <1>0, <1>1, CountedGrows DEF HostStep
  <1>5. ASSUME loop'.pc \in Busy
        PROVE  /\ loop'.id \in CallIds /\ Known(items', loop'.id) /\ Free(items', Answer, loop'.id)
               /\ loop'.pc # "ran" => executed'[loop'.id] = 0
    <2>1. loop' = loop /\ loop.pc \in Busy /\ executed' = executed
      BY <1>5 DEF HostStep, Busy
    <2>2. Known(items, loop.id) /\ Free(items, Answer, loop.id)
      BY <2>1 DEF OnceInv
    <2>3. Known(items', loop.id) /\ Free(items', Answer, loop.id)
      BY <1>0, <1>1, <1>2, <2>2, UniqueGrows DEF OnceInv
    <2> QED BY <2>1, <2>3 DEF OnceInv
  <1> QED BY <1>3, <1>4, <1>5 DEF OnceInv, Counted

LEMMA OnceLoops ==
    ASSUME TypeInv, OnceInv, LoopStep, ~ Runs, executed' = executed
    PROVE  OnceInv'
  <1>0. /\ items \in Seq(Items) /\ Counted(items, executed) /\ RunTypes
        /\ Distinct(items, Decision) /\ Distinct(items, Answer) /\ executed \in [CallIds -> Nat]
    BY DEF TypeInv, RunTypes, HostTypes, OnceInv, Counted
  <1>1. ASSUME NEW x \in Items, x.kind \notin Decision \union Answer
        PROVE  /\ <<x>> \in Seq(Items)
               /\ Distinct(items \o <<x>>, Decision) /\ Distinct(items \o <<x>>, Answer)
               /\ \A c : Free(items, Answer, c) => Free(items \o <<x>>, Answer, c)
               /\ \A c : Known(items, c) => Known(items \o <<x>>, c)
    <2>1. <<x>> \in Seq(Items) /\ \A i \in DOMAIN <<x>> : <<x>>[i].kind \notin Decision \union Answer
      BY <1>1
    <2> QED BY <1>0, <2>1, UniqueGrows
  <1>2. CASE WritesQuietly
    <2>1. CASE EndedWith(<<>>)
      <3>1. <<>> \in Seq(Items) /\ items \o <<>> = items
        BY <1>0
      <3> QED BY <1>0, <2>1, <3>1, OnceEnds
    <2>2. CASE \E x \in Items : x.kind \in Quiet /\ EndedWith(<<x>>)
      <3>1. PICK x \in Items : x.kind \in Quiet /\ EndedWith(<<x>>)
        BY <2>2
      <3>2. x.kind \notin Decision \union Answer
        BY <3>1 DEF Quiet, Decision, Answer
      <3> QED BY <1>1, <3>1, <3>2, OnceEnds
    <2> QED BY <1>2, <2>1, <2>2 DEF WritesQuietly
  <1>3. CASE loop.pc = "proposing" /\ Reports({"plan_step_proposed"})
    <2>1. PICK x \in Items : x.kind = "plan_step_proposed" /\ EndedWith(<<x>>)
      BY <1>3 DEF Reports
    <2>2. x.kind \notin Decision \union Answer
      BY <2>1 DEF Decision, Answer
    <2> QED BY <1>1, <2>1, <2>2, OnceEnds
  <1>4. CASE loop.pc \in Busy /\ Reports(Answer)
    <2>1. PICK x \in Items : x.kind \in Answer /\ x.id = loop.id /\ EndedWith(<<x>>)
      BY <1>4 DEF Reports
    <2>2. <<x>> \in Seq(Items) /\ Free(items, Answer, x.id)
      BY <1>4, <2>1 DEF OnceInv
    <2>3. Of(<<x>>, Decision) = {} /\ Of(<<x>>, Answer) = {1} /\ <<x>>[1] = x
      BY <2>1 DEF Of, Decision, Answer
    <2>4. Distinct(<<x>>, Decision) /\ Distinct(<<x>>, Answer)
      BY <2>3 DEF Distinct
    <2>5. Distinct(items \o <<x>>, Decision)
      BY <1>0, <2>2, <2>3, <2>4, DistinctCat
    <2>6. Distinct(items \o <<x>>, Answer)
      BY <1>0, <2>2, <2>3, <2>4, DistinctCat
    <2> QED BY <2>1, <2>2, <2>5, <2>6, OnceEnds
  <1>5. CASE Plans
    <2>1. PICK x \in Items : x.kind = "task_plan" /\ items' = items \o <<x>> /\ loop'.pc = "loop"
      <3>1. PICK q \in TaskPlanOffers(items) :
                /\ Item("task_plan", None, q) \in Items
                /\ items' = items \o <<Item("task_plan", None, q)>> /\ loop'.pc = "loop"
        BY <1>5 DEF Plans
      <3>2. Item("task_plan", None, q).kind = "task_plan"
        BY DEF Item
      <3> QED BY <3>1, <3>2
    <2>2. x.kind \notin Decision \union Answer
      BY <2>1 DEF Decision, Answer
    <2>3. Counted(items', executed')
      BY <1>0, <1>1, <2>1, <2>2, CountedGrows
    <2> QED BY <1>1, <2>1, <2>2, <2>3 DEF OnceInv, Counted, Busy
  <1>6. CASE Calls
    <2>1. PICK x \in Items :
              /\ x.kind = "capability_call" /\ loop.pc = "decided" /\ loop'.pc = "called"
              /\ loop'.id = loop.id /\ items' = items \o <<x>>
      BY <1>6 DEF Calls
    <2>2. x.kind \notin Decision \union Answer
      BY <2>1 DEF Decision, Answer
    <2>3. Counted(items', executed')
      BY <1>0, <1>1, <2>1, <2>2, CountedGrows
    <2>4. /\ loop.id \in CallIds /\ Known(items, loop.id) /\ Free(items, Answer, loop.id)
          /\ executed[loop.id] = 0
      BY <2>1 DEF OnceInv, Busy
    <2>5. Known(items', loop'.id) /\ Free(items', Answer, loop'.id)
      BY <1>1, <2>1, <2>2, <2>4
    <2>6. Distinct(items', Decision) /\ Distinct(items', Answer)
      BY <1>1, <2>1, <2>2
    <2> QED BY <2>1, <2>3, <2>4, <2>5, <2>6 DEF OnceInv, Counted
  <1>7. CASE Decides
    <2>1. PICK x \in Items :
              /\ x.kind = "assistant_decision" /\ x.id \in CallIds /\ ~ Known(items, x.id)
              /\ items' = items \o <<x>>
              /\ loop'.pc \in Busy \ {"called", "ran"} /\ loop'.id = x.id
      BY <1>7 DEF Decides
    <2>2. <<x>> \in Seq(Items) /\ <<x>>[1] = x /\ Of(<<x>>, Answer) = {} /\ Of(<<x>>, Decision) = {1}
          /\ 1 \in DOMAIN <<x>>
      BY <2>1 DEF Of, Decision, Answer
    <2>3. Distinct(<<x>>, Decision) /\ Distinct(<<x>>, Answer) /\ Free(<<x>>, Answer, x.id) /\ Known(<<x>>, x.id)
      BY <2>2 DEF Distinct, Free, Known
    <2>4. Free(items, Decision, x.id) /\ Free(items, Answer, x.id)
      BY <2>1 DEF Known, Free, Of
    <2>5. Distinct(items', Decision)
      BY <1>0, <2>1, <2>2, <2>3, <2>4, DistinctCat
    <2>6. Distinct(items', Answer)
      BY <1>0, <2>1, <2>2, <2>3, DistinctCat
    <2>7. Free(items', Answer, x.id)
      BY <1>0, <2>1, <2>2, <2>3, <2>4, FreeCat
    <2>8. Known(items', x.id)
      BY <1>0, <2>1, <2>2, <2>3, KnownCat
    <2>9. executed[x.id] = 0
      <3>1. executed[x.id] \in Nat /\ ~(executed[x.id] > 0)
        BY <1>0, <2>1 DEF Counted
      <3> QED BY <3>1
    <2>10. Counted(items', executed')
      BY <1>0, <2>1, <2>2, CountedGrows
    <2> QED BY <2>1, <2>5, <2>6, <2>7, <2>8, <2>9, <2>10 DEF OnceInv, Counted
  <1> QED BY <1>2, <1>3, <1>4, <1>5, <1>6, <1>7 DEF LoopStep

LEMMA OnceExecutes ==
    ASSUME TypeInv, OnceInv, Execute
    PROVE  OnceInv'
  <1>1. loop.pc = "called" /\ loop'.pc = "ran" /\ loop'.id = loop.id /\ items' = items
    BY ExecuteStep DEF TypeInv, Runs
  <1>2. executed' = [executed EXCEPT ![loop.id] = @ + 1] /\ executed \in [CallIds -> Nat]
    BY DEF Execute, TypeInv, HostTypes
  <1>3. /\ loop.id \in CallIds /\ Known(items, loop.id) /\ Free(items, Answer, loop.id)
        /\ executed[loop.id] = 0
    BY <1>1 DEF OnceInv, Busy
  <1>4. executed'[loop.id] = 1 /\ \A c \in CallIds : c # loop.id => executed'[c] = executed[c]
    BY <1>2, <1>3
  <1>5. Counted(items', executed')
    BY <1>1, <1>3, <1>4 DEF OnceInv, Counted
  <1> QED BY <1>1, <1>3, <1>5 DEF OnceInv, Counted

LEMMA OnceStep ==
    ASSUME TypeInv, OnceInv, [Next]_vars
    PROVE  OnceInv'
  <1>1. CASE UNCHANGED vars
    <2>1. items' = items /\ loop' = loop /\ executed' = executed
      BY <1>1 DEF vars
    <2> QED BY <2>1 DEF OnceInv
  <1>2. CASE Start
    BY <1>2, StartingStep, LoopKeeps, OnceStarts DEF TypeInv
  <1>3. CASE Execute
    BY <1>3, OnceExecutes
  <1>4. CASE Looping /\ ~ Execute
    <2>1. LoopStep /\ executed' = executed
      BY <1>4, LoopingStep, LoopKeeps DEF TypeInv
    <2>2. CASE Runs
      <3>1. loop.pc = "called" /\ loop'.pc = "ran"
        BY <2>2 DEF Runs
      <3>2. CancelledCall \/ Abort
        BY <1>4, <3>1 DEF Looping, OutOfDecisions, ProviderFails, FinalAnswer, TaskPlanUpdate, MayAsk,
              RejectDecision, RecordRejection, DecideCall, RecordCallLimit, RecordCall,
              RecordOutcome, DecideProposal, RecordProposal
      <3>3. Fail(<<>>)
        BY <3>2 DEF CancelledCall, Abort
      <3>4. loop'.pc = "done"
        BY <3>3, IdleType DEF Fail, Give
      <3> QED BY <3>1, <3>4
    <2> QED BY <2>1, <2>2, OnceLoops
  <1>5. CASE Hosting
    BY <1>5, HostingStep, OnceHosts
  <1> QED BY <1>1, <1>2, <1>3, <1>4, <1>5, NextSplit

\* At most one index of each kind for an id.
LEMMA DistinctCount ==
    ASSUME NEW s \in Seq(Items), NEW kinds, NEW c, Distinct(s, kinds)
    PROVE  Cardinality({i \in Of(s, kinds) : s[i].id = c}) <= 1
  <1> DEFINE T == {i \in Of(s, kinds) : s[i].id = c}
  <1>1. \A i, j \in T : i = j
    BY DEF Distinct
  <1>2. \E n \in {0, 1} : Cardinality(T) = n
    <2> HIDE DEF T
    <2>1. CASE T = {}
      BY <2>1, FS_EmptySet
    <2>2. CASE T # {}
      <3>1. PICK i \in T : TRUE
        BY <2>2
      <3>2. T = {i}
        BY <1>1, <3>1
      <3> QED BY <3>2, FS_Singleton
    <2> QED BY <2>1, <2>2
  <1> HIDE DEF T
  <1>3. Cardinality(T) <= 1
    BY <1>2
  <1> QED BY <1>3 DEF T

\* No call id is decided, executed or answered twice, whatever the worker had
\* committed when it died and however often the host gave the plan back.
THEOREM ExecutedOnceHolds == Spec => []ExecutedOnce
  <1>1. Init => TypeInv /\ OnceInv
    <2>1. ASSUME Init PROVE OnceInv
      <3>1. items = <<>> /\ loop.pc \notin Busy /\ executed = [c \in CallIds |-> 0]
        BY <2>1, IdleType DEF Init, Busy
      <3>2. Of(items, Decision) = {} /\ Of(items, Answer) = {}
        BY <3>1 DEF Of
      <3>3. \A c \in CallIds : executed[c] = 0
        BY <3>1
      <3> QED BY <3>1, <3>2, <3>3 DEF OnceInv, Distinct
    <2> QED BY <2>1, TypeInit
  <1>2. TypeInv /\ OnceInv /\ [Next]_vars => TypeInv' /\ OnceInv'
    BY TypeStep, OnceStep
  <1>3. TypeInv /\ OnceInv => ExecutedOnce
    <2> SUFFICES ASSUME TypeInv, OnceInv PROVE ExecutedOnce
      OBVIOUS
    <2>1. items \in Seq(Items) /\ Distinct(items, Decision) /\ Distinct(items, Answer)
      BY DEF TypeInv, RunTypes, OnceInv
    <2>2. \A c : Cardinality({i \in Of(items, Decision) : items[i].id = c}) <= 1
      BY <2>1, DistinctCount
    <2>3. \A c : Cardinality({i \in Of(items, Answer) : items[i].id = c}) <= 1
      BY <2>1, DistinctCount
    <2>4. \A c \in CallIds : executed[c] <= 1
      BY DEF OnceInv
    <2> QED BY <2>2, <2>3, <2>4 DEF ExecutedOnce, Decision, Answer
  <1> QED BY <1>1, <1>2, <1>3, PTL DEF Spec

----------------------------------------------------------------------------
(* The same result again.                                                   *)

LEMMA PostEffectGrows ==
    ASSUME NEW s \in Seq(Items), NEW t \in Seq(Items), PostEffect(s)
    PROVE  PostEffect(s \o t)
  <1>1. PICK i \in DOMAIN s : s[i].kind = "verified_effect_receipt"
    BY DEF PostEffect, Of
  <1>2. i \in DOMAIN (s \o t) /\ (s \o t)[i] = s[i]
    BY Cat
  <1> QED BY <1>1, <1>2 DEF PostEffect, Of

LEMMA PostEffectEnds ==
    ASSUME RunTypes, NEW b \in Seq(Items), EndedWith(b), PostEffect(items)
    PROVE  PostEffect(items')
  <1>1. items \in Seq(Items) /\ items \o b \in Seq(Items) /\ <<Answered(TRUE)>> \in Seq(Items)
    BY Cat, AnsweredType DEF RunTypes
  <1>2. PostEffect(items \o b)
    BY <1>1, PostEffectGrows
  <1>3. PostEffect((items \o b) \o <<Answered(TRUE)>>)
    BY <1>1, <1>2, PostEffectGrows
  <1> QED BY <1>2, <1>3 DEF EndedWith

\* A step of the loop: the first result of the attempt is given here or later.
LEMMA LoopGives ==
    ASSUME RunTypes, LoopStep, MaxEffectSteps # 1
    PROVE  /\ GivesWell
           /\ PostEffect(items) => PostEffect(items')
  <1>0. items \in Seq(Items)
    BY DEF RunTypes
  <1>1. ASSUME NEW b \in Seq(Items), EndedWith(b)
        PROVE  GivesWell /\ (PostEffect(items) => PostEffect(items'))
    BY <1>1, PostEffectEnds DEF EndedWith
  <1>2. ASSUME NEW x \in Items, items' = items \o <<x>>, Unanswered
        PROVE  GivesWell /\ (PostEffect(items) => PostEffect(items'))
    <2>1. <<x>> \in Seq(Items)
      OBVIOUS
    <2> QED BY <1>0, <1>2, <2>1, PostEffectGrows DEF GivesWell, Unanswered
  <1>3. <<>> \in Seq(Items) /\ \A x \in Items : <<x>> \in Seq(Items)
    OBVIOUS
  <1>4. CASE WritesQuietly
    BY <1>1, <1>3, <1>4 DEF WritesQuietly
  <1>5. CASE Reports(Answer) \/ Reports({"plan_step_proposed"})
    BY <1>1, <1>3, <1>5 DEF Reports
  <1>6. CASE Plans
    BY <1>2, <1>6 DEF Plans
  <1>7. CASE Decides
    BY <1>2, <1>7 DEF Decides
  <1>8. CASE Calls
    BY <1>2, <1>8 DEF Calls
  <1>9. CASE Runs
    BY <1>9 DEF Runs, GivesWell, Unanswered
  <1> QED BY <1>4, <1>5, <1>6, <1>7, <1>8, <1>9 DEF LoopStep

LEMMA ResumeLoops ==
    ASSUME TypeInv, ResumeInv, LoopStep, MaxEffectSteps # 1
    PROVE  ResumeInv'
  <1>1. loop.pc \in {"loop"} \union Busy /\ host = "reasoning" /\ host' = "reasoning"
    BY DEF LoopStep, ResumeInv
  <1>2. GivesWell /\ (PostEffect(items) => PostEffect(items'))
    BY LoopGives DEF TypeInv
  <1>3. delivered = NoResult \/ PostEffect(items)
    BY <1>1 DEF ResumeInv, Busy
  <1> QED BY <1>1, <1>2, <1>3 DEF ResumeInv, GivesWell

LEMMA ResumeStarts ==
    ASSUME TypeInv, ResumeInv, StartStep
    PROVE  ResumeInv'
  <1>0. host = "reasoning" /\ host' = "reasoning" /\ items \in Seq(Items)
    BY DEF StartStep, TypeInv, RunTypes
  <1>1. CASE /\ items # <<>> /\ items[Len(items)].kind = "final_answer"
             /\ items' = items /\ Give(ResumeTerminal(items)) /\ loop'.pc = "done"
    <2>1. /\ result' = ResumeTerminal(items)
          /\ delivered' = IF delivered = NoResult /\ ResumeTerminal(items).answer # "error"
                          THEN ResumeTerminal(items) ELSE delivered
      BY <1>1 DEF Give
    <2>2. AnsweredWith(items, ResumeTerminal(items))
      BY <1>1 DEF AnsweredWith
    <2>3. delivered # NoResult /\ ~ PostEffect(items) => ResumeTerminal(items) = delivered
      BY <1>0 DEF ResumeInv, AnsweredWith
    <2> QED BY <1>0, <1>1, <2>1, <2>2, <2>3 DEF ResumeInv
  <1>2. CASE ~(/\ items # <<>> /\ items[Len(items)].kind = "final_answer"
               /\ items' = items /\ Give(ResumeTerminal(items)) /\ loop'.pc = "done")
    <2>1. PICK began \in Seq(Items), t \in Seq(Items) :
             /\ \/ began = items /\ (items # <<>> => items[Len(items)].kind # "final_answer")
                \/ items = <<>> /\ \E x \in Items : x.kind = "user_input" /\ began = items \o <<x>>
             /\ items' = began \o t
             /\ loop'.pc = "loop" /\ Unanswered
      BY <1>2 DEF StartStep
    <2>2. ~ AnsweredWith(items, delivered)
      BY <2>1 DEF AnsweredWith
    <2>3. delivered = NoResult \/ PostEffect(items)
      BY <1>0, <2>2 DEF ResumeInv
    <2>4. PostEffect(items) => PostEffect(items')
      <3>1. CASE began = items
        BY <1>0, <2>1, <3>1, PostEffectGrows
      <3>2. CASE items = <<>>
        BY <3>2 DEF PostEffect, Of
      <3> QED BY <2>1, <3>1, <3>2
    <2> QED BY <1>0, <2>1, <2>3, <2>4 DEF ResumeInv, Unanswered
  <1> QED BY <1>1, <1>2

LEMMA ResumeHosts ==
    ASSUME TypeInv, ResumeInv, Hosting, MaxEffectSteps # 1
    PROVE  ResumeInv'
  <1>0. items \in Seq(Items) /\ RunTypes /\ Idle.pc = "down" /\ Idle.pc \notin {"loop"} \union Busy
    BY IdleType DEF TypeInv, RunTypes, Busy
  <1>1. PostEffect(items) => PostEffect(items')
    BY <1>0, HostingStep, PostEffectGrows DEF HostStep
  <1>2. CASE TakeResult
    <2>1. /\ UNCHANGED <<items, loop, result, delivered>> /\ loop.pc = "done" /\ host = "reasoning"
          /\ host' \in {"ended", "planning"}
      BY <1>2 DEF TakeResult
    <2> QED BY <2>1 DEF ResumeInv, Busy
  <1>3. CASE RefusePlan
    <2>1. loop' = Idle /\ delivered' = NoResult
      BY <1>3 DEF RefusePlan
    <2> QED BY <1>0, <2>1 DEF ResumeInv
  <1>4. CASE GiveUp
    <2>1. FinishSafely(<<>>) /\ host' = "ended" /\ host = "giving_up"
      BY <1>4 DEF GiveUp
    <2>2. <<>> \in Seq(Items)
      OBVIOUS
    <2>3. GivesWell
      BY <1>0, <2>1, <2>2, FinishSafelyEnds DEF EndedWith
    <2>4. loop'.pc = "done"
      BY <2>1, IdleType DEF FinishSafely, Give
    <2>5. delivered = NoResult \/ PostEffect(items)
      BY <2>1 DEF ResumeInv
    <2> QED BY <1>1, <2>1, <2>3, <2>4, <2>5 DEF ResumeInv, GivesWell, Busy
  <1>5. CASE PrepareOk
    <2>1. UNCHANGED <<loop, result, delivered>> /\ host = "planning" /\ host' = "executing"
      BY <1>5 DEF PrepareOk
    <2> QED BY <1>1, <2>1 DEF ResumeInv
  <1>6. CASE EffectVerified
    <2> DEFINE x == Item("verified_effect_receipt", None, None)
    <2>1. PICK t \in {<<x>>, <<x, Answered(FALSE)>>} : items' = items \o t /\ (loop' = loop \/ loop' = Idle)
      <3>1. x \in Items
        <4>1. "verified_effect_receipt" \in Kinds /\ None \in Ids /\ None \in Whats
          BY DEF Kinds, Ids, Whats
        <4> QED BY <4>1, ItemType
      <3>2. items \o <<x>> = Append(items, x)
        BY <1>0, <3>1, CatOne
      <3>3. \/ items' = items \o <<x, Answered(FALSE)>> /\ loop' = loop
            \/ items' = Append(items, x) /\ loop' = Idle
        BY <1>6, Zenon DEF EffectVerified
      <3> HIDE DEF x
      <3> QED BY <3>2, <3>3
    <2>2. x \in Items /\ x.kind = "verified_effect_receipt"
      <3>1. "verified_effect_receipt" \in Kinds /\ None \in Ids /\ None \in Whats
        BY DEF Kinds, Ids, Whats
      <3> QED BY <3>1, ItemType
    <2> HIDE DEF x
    <2>3. t \in Seq(Items) /\ 1 \in DOMAIN t /\ t[1] = x
      <3> DEFINE y == Answered(FALSE)
      <3>1. y \in Items
        BY AnsweredType
      <3> HIDE DEF y
      <3>2. CASE t = <<x>>
        BY <2>2, <3>2
      <3>3. CASE t = <<x, y>>
        <4>1. <<x, y>> \in Seq(Items)
          BY <2>2, <3>1
        <4>2. 1 \in DOMAIN <<x, y>> /\ <<x, y>>[1] = x
          OBVIOUS
        <4> QED BY <3>3, <4>1, <4>2
      <3> QED BY <2>1, <3>2, <3>3 DEF y
    <2>4. PostEffect(items')
      <3>1. Len(items) + 1 \in DOMAIN (items \o t) /\ (items \o t)[Len(items) + 1] = x
        BY <1>0, <2>3, Cat
      <3> QED BY <2>1, <2>2, <3>1 DEF PostEffect, Of
    <2>5. host = "executing"
      BY <1>6 DEF EffectVerified
    <2>6. loop'.pc \notin {"loop"} \union Busy
      BY <1>0, <2>1, <2>5 DEF ResumeInv
    <2> QED BY <2>4, <2>6 DEF ResumeInv
  <1>7. CASE DropPlan
    <2>1. /\ UNCHANGED <<items, loop, result, delivered>> /\ host \in {"planning", "executing"}
          /\ host' \in {"recovery", "ended"}
      BY <1>7 DEF DropPlan
    <2> QED BY <2>1 DEF ResumeInv
  <1>8. CASE Crash
    <2>1. /\ UNCHANGED <<items, delivered>> /\ loop' = Idle /\ result' = NoResult
          /\ host \in {"reasoning", "planning", "giving_up", "executing"}
          /\ host' = IF host = "executing" \/ PostEffect(items) THEN "recovery" ELSE "reasoning"
      BY <1>8 DEF Crash
    <2> QED BY <1>0, <2>1 DEF ResumeInv
  <1>9. CASE Cancel
    <2>1. UNCHANGED <<items, loop, result, delivered, host>>
      BY <1>9 DEF Cancel
    <2> QED BY <2>1 DEF ResumeInv
  <1> QED BY <1>2, <1>3, <1>4, <1>5, <1>6, <1>7, <1>8, <1>9 DEF Hosting

\* A worker that dies after the loop has answered is followed by one that gives
\* the host the same answer and the same plan.  The exception of a host with one
\* effect step is real: there the loop returns the plan without recording an
\* answer, and the next worker asks the provider again.
THEOREM ResumeHolds ==
    ASSUME MaxEffectSteps # 1
    PROVE  Spec => []ResumeSameResult
  <1>1. Init => TypeInv /\ ResumeInv
    <2>1. ASSUME Init PROVE ResumeInv
      BY <2>1, IdleType DEF Init, ResumeInv, Busy
    <2> QED BY <2>1, TypeInit
  <1>2. TypeInv /\ ResumeInv /\ [Next]_vars => TypeInv' /\ ResumeInv'
    <2> SUFFICES ASSUME TypeInv, ResumeInv, [Next]_vars PROVE ResumeInv'
      BY TypeStep
    <2>1. CASE UNCHANGED vars
      <3>1. UNCHANGED <<items, loop, result, delivered, host>>
        BY <2>1 DEF vars
      <3> QED BY <3>1 DEF ResumeInv
    <2>2. CASE Start
      BY <2>2, StartingStep, ResumeStarts DEF TypeInv
    <2>3. CASE Looping
      BY <2>3, LoopingStep, ResumeLoops DEF TypeInv
    <2>4. CASE Hosting
      BY <2>4, ResumeHosts
    <2> QED BY <2>1, <2>2, <2>3, <2>4, NextSplit
  <1>3. ResumeInv => ResumeSameResult
    <2>1. NoResult.answer = "none"
      BY DEF NoResult, None
    <2> QED BY <2>1 DEF ResumeInv, ResumeSameResult
  <1> QED BY <1>1, <1>2, <1>3, PTL DEF Spec

----------------------------------------------------------------------------
(* The TaskPlans.                                                           *)

\* A set of indices has a greatest one, which Max takes.
LEMMA MaxIsLast ==
    ASSUME NEW n \in Nat, NEW T, T \subseteq 1..n, T # {}
    PROVE  Max(T) \in T /\ \A y \in T : y <= Max(T)
  <1> DEFINE R == {n - y : y \in T}
  <1>1. R \subseteq Nat /\ R # {}
    <2>1. \A y \in T : n - y \in Nat
      OBVIOUS
    <2>2. \E y \in T : n - y \in R
      OBVIOUS
    <2> QED BY <2>1, <2>2
  <1>2. PICK r \in R : \A q \in R : r <= q
    BY <1>1, LeastNat
  <1>3. PICK x \in T : r = n - x
    OBVIOUS
  <1>4. \A y \in T : n - y \in R /\ y \in Nat
    OBVIOUS
  <1> HIDE DEF R
  <1>5. \A y \in T : x >= y
    BY <1>2, <1>3, <1>4
  <1>6. Max(T) \in T /\ \A y \in T : Max(T) >= y
    BY <1>3, <1>5 DEF Max
  <1>7. \A y \in T : y \in Nat
    OBVIOUS
  <1> HIDE DEF Max
  <1> QED BY <1>6, <1>7

\* Everything that is no TaskPlan leaves them as they are; work needs one.
LEMMA PlansKept ==
    ASSUME NEW s \in Seq(Items), NEW t \in Seq(Items),
           \A i \in DOMAIN t : t[i].kind # "task_plan"
    PROVE  /\ TaskPlans(s \o t) = TaskPlans(s)
           /\ Numbered(s) => Numbered(s \o t)
           /\ Evident(s) => Evident(s \o t)
           /\ Planned(s) /\ (TaskPlans(s) # {} \/ Of(t, Work) = {}) => Planned(s \o t)
  <1> DEFINE u == s \o t
  <1>1. /\ DOMAIN s = 1..Len(s) /\ Len(s) \in Nat /\ DOMAIN u = 1..(Len(s) + Len(t)) /\ Len(t) \in Nat
        /\ \A i \in DOMAIN s : u[i] = s[i] /\ i \in DOMAIN u
        /\ \A i \in DOMAIN u : i \in DOMAIN s \/ (i > Len(s) /\ i - Len(s) \in DOMAIN t /\ u[i] = t[i - Len(s)])
    BY Cat
  <1> HIDE DEF u
  <1>2. TaskPlans(u) = TaskPlans(s)
    BY <1>1 DEF TaskPlans, Of
  <1>3. \A i \in TaskPlans(s) : i \in DOMAIN s /\ u[i] = s[i]
    BY <1>1 DEF TaskPlans, Of
  <1>4. Of(s, Evidence) \subseteq Of(u, Evidence)
    BY <1>1 DEF Of
  <1>5. Numbered(s) => Numbered(u)
    BY <1>2, <1>3 DEF Numbered
  <1>6. Evident(s) => Evident(u)
    BY <1>2, <1>3, <1>4 DEF Evident
  <1>7. ASSUME Planned(s), TaskPlans(s) # {} \/ Of(t, Work) = {} PROVE Planned(u)
    <2> SUFFICES ASSUME NEW i \in Of(u, Work) PROVE TaskPlans(s) \cap 1..(i - 1) # {}
      BY <1>2 DEF Planned
    <2>1. i \in DOMAIN u /\ u[i].kind \in Work
      BY DEF Of
    <2>2. CASE i \in DOMAIN s
      BY <1>1, <1>7, <2>1, <2>2 DEF Planned, Of
    <2>3. CASE i \notin DOMAIN s
      <3>1. i > Len(s) /\ i \in Nat /\ i - Len(s) \in Of(t, Work)
        BY <1>1, <2>1, <2>3 DEF Of
      <3>2. PICK j \in TaskPlans(s) : TRUE
        BY <1>7, <3>1
      <3>3. j \in 1..(i - 1)
        BY <1>1, <1>3, <3>1, <3>2
      <3> QED BY <3>2, <3>3
    <2> QED BY <2>2, <2>3
  <1> QED BY <1>2, <1>5, <1>6, <1>7 DEF u

\* A TaskPlan that was accepted is the next one, and changes the structure only
\* after evidence.
LEMMA PlanAdded ==
    ASSUME NEW s \in Seq(Items), NEW p \in TaskPlanOffers(s), TaskPlanVerdict(s, p) = "ok",
           Item("task_plan", None, p) \in Items,
           Numbered(s), Evident(s)
    PROVE  LET u == s \o <<Item("task_plan", None, p)>>
           IN  Numbered(u) /\ Evident(u) /\ (Planned(s) => Planned(u)) /\ TaskPlans(u) # {}
  <1> DEFINE x == Item("task_plan", None, p)
             u == s \o <<x>>
             n == Len(s)
  <1>0. x.kind = "task_plan" /\ x.what = p /\ x \in Items
    BY DEF Item
  <1> HIDE DEF x
  <1>1. /\ n \in Nat /\ DOMAIN s = 1..n /\ DOMAIN u = 1..(n + 1)
        /\ (\A i \in 1..n : u[i] = s[i]) /\ u[n + 1] = x
    BY <1>0
  <1> HIDE DEF u, n
  <1>2. TaskPlans(u) = TaskPlans(s) \union {n + 1} /\ TaskPlans(s) \subseteq 1..n
    BY <1>0, <1>1 DEF TaskPlans, Of
  <1>3. /\ (p.revision = 1) = (p.kind = "initial")
        /\ TaskPlans(s) # {} => p.kind # "initial"
        /\ p.kind = "progress" => p.shape = LatestTaskPlan(s).shape
        /\ p.kind = "replan" => HasReplanEvidence(s)
    BY DEF TaskPlanVerdict
  <1>4. p.revision \in {1, Cardinality(TaskPlans(s)) + 1} /\ p.kind \in RevisionKinds
    BY DEF TaskPlanOffers
  <1>5. p.revision = Cardinality(TaskPlans(s)) + 1
    <2>1. CASE TaskPlans(s) = {}
      <3>1. Cardinality(TaskPlans(s)) = 0
        BY <2>1, FS_EmptySet
      <3> QED BY <1>4, <3>1
    <2>2. CASE TaskPlans(s) # {}
      BY <1>3, <1>4, <2>2
    <2> QED BY <2>1, <2>2
  <1>6. \A i \in TaskPlans(s) : /\ i \in 1..n /\ u[i] = s[i]
                                /\ TaskPlans(u) \cap 1..(i - 1) = TaskPlans(s) \cap 1..(i - 1)
    BY <1>1, <1>2
  <1>7. TaskPlans(u) \cap 1..((n + 1) - 1) = TaskPlans(s)
    BY <1>1, <1>2
  <1>8. Numbered(u)
    <2> SUFFICES ASSUME NEW i \in TaskPlans(u)
                 PROVE  u[i].what.revision = Cardinality(TaskPlans(u) \cap 1..(i - 1)) + 1
      BY DEF Numbered
    <2>1. CASE i \in TaskPlans(s)
      BY <1>6, <2>1 DEF Numbered
    <2>2. CASE i = n + 1
      BY <1>0, <1>1, <1>5, <1>7, <2>2
    <2> QED BY <1>2, <2>1, <2>2
  <1>9. Evident(u)
    <2> SUFFICES ASSUME NEW i \in TaskPlans(u), NEW j \in TaskPlans(u), j < i,
                        TaskPlans(u) \cap (j + 1)..(i - 1) = {},
                        u[i].what.shape # u[j].what.shape
                 PROVE  Of(u, Evidence) \cap (j + 1)..(i - 1) # {}
      BY DEF Evident
    <2>0. Of(s, Evidence) \subseteq Of(u, Evidence) /\ Of(s, Evidence) \subseteq 1..n
      BY <1>1 DEF Of
    <2>1. j \in TaskPlans(s) /\ j \in 1..n /\ u[j] = s[j]
      BY <1>1, <1>2, <1>6
    <2>2. CASE i \in TaskPlans(s)
      <3>1. TaskPlans(s) \cap (j + 1)..(i - 1) = {} /\ u[i] = s[i]
        BY <1>2, <1>6, <2>2
      <3>2. Of(s, Evidence) \cap (j + 1)..(i - 1) # {}
        BY <2>1, <2>2, <3>1 DEF Evident
      <3> QED BY <2>0, <3>2
    <2>3. CASE i = n + 1
      <3> DEFINE m == Max(TaskPlans(s))
      <3>1. m \in TaskPlans(s) /\ \A y \in TaskPlans(s) : y <= m
        BY <1>1, <1>2, <2>1, MaxIsLast
      <3> HIDE DEF m
      <3>2. m = j
        BY <1>1, <1>2, <2>1, <2>3, <3>1
      <3>3. p.shape # LatestTaskPlan(s).shape
        BY <1>0, <1>1, <2>1, <2>3, <3>2 DEF LatestTaskPlan, m
      <3>4. HasReplanEvidence(s)
        BY <1>3, <1>4, <2>1, <3>3 DEF RevisionKinds
      <3>5. PICK e \in Of(s, Evidence) : TaskPlans(s) \cap e..n = {}
        BY <3>4 DEF HasReplanEvidence, n
      <3>6. e \in (j + 1)..(i - 1)
        BY <1>1, <2>0, <2>1, <2>3, <3>5
      <3> QED BY <2>0, <3>5, <3>6
    <2> QED BY <1>2, <2>2, <2>3
  <1>10. ASSUME Planned(s) PROVE Planned(u)
    <2> SUFFICES ASSUME NEW i \in Of(u, Work) PROVE TaskPlans(u) \cap 1..(i - 1) # {}
      BY DEF Planned
    <2>1. i \in Of(s, Work)
      BY <1>0, <1>1 DEF Of, Work
    <2>2. TaskPlans(s) \cap 1..(i - 1) # {}
      BY <1>10, <2>1 DEF Planned
    <2> QED BY <1>2, <2>2
  <1> QED BY <1>2, <1>8, <1>9, <1>10 DEF u, x

\* The part of PlanInv that is about the transcript.
PlansOf(s) == Numbered(s) /\ Evident(s) /\ (Deliberate => Planned(s))

LEMMA PlansOfGrows ==
    ASSUME NEW s \in Seq(Items), NEW t \in Seq(Items), PlansOf(s),
           \A i \in DOMAIN t : t[i].kind # "task_plan",
           (\A i \in DOMAIN t : t[i].kind \notin Work) \/ (Deliberate => TaskPlans(s) # {})
    PROVE  PlansOf(s \o t) /\ TaskPlans(s \o t) = TaskPlans(s)
  <1>1. (\A i \in DOMAIN t : t[i].kind \notin Work) => Of(t, Work) = {}
    BY DEF Of
  <1> QED BY <1>1, PlansKept DEF PlansOf

LEMMA PlansOfEnds ==
    ASSUME RunTypes, PlansOf(items), NEW b \in Seq(Items), EndedWith(b),
           \A i \in DOMAIN b : b[i].kind # "task_plan",
           (\A i \in DOMAIN b : b[i].kind \notin Work) \/ (Deliberate => TaskPlans(items) # {})
    PROVE  PlansOf(items') /\ loop'.pc \notin Busy
  <1> DEFINE x == Answered(TRUE)
  <1>1. x \in Items /\ x.kind = "final_answer" /\ <<x>> \in Seq(Items)
    BY AnsweredType
  <1> HIDE DEF x
  <1>2. items \in Seq(Items) /\ items \o b \in Seq(Items)
    BY Cat DEF RunTypes
  <1>3. PlansOf(items \o b)
    BY <1>2, PlansOfGrows
  <1>4. \A i \in DOMAIN <<x>> : <<x>>[i].kind # "task_plan" /\ <<x>>[i].kind \notin Work
    BY <1>1 DEF Work
  <1>5. PlansOf((items \o b) \o <<x>>)
    BY <1>1, <1>2, <1>3, <1>4, PlansOfGrows
  <1>6. items' = items \o b \/ items' = (items \o b) \o <<x>>
    BY DEF EndedWith, x
  <1>7. loop'.pc \notin Busy
    BY DEF EndedWith, Busy
  <1> QED BY <1>3, <1>5, <1>6, <1>7

LEMMA PlanLoops ==
    ASSUME TypeInv, PlanInv, LoopStep
    PROVE  PlanInv'
  <1>0. items \in Seq(Items) /\ RunTypes /\ PlansOf(items)
    BY DEF TypeInv, RunTypes, PlanInv, PlansOf
  <1>1. ASSUME NEW x \in Items, EndedWith(<<x>>), x.kind # "task_plan",
               x.kind \notin Work \/ (Deliberate => TaskPlans(items) # {})
        PROVE  PlanInv'
    <2>1. <<x>> \in Seq(Items) /\ \A i \in DOMAIN <<x>> : <<x>>[i] = x
      OBVIOUS
    <2>2. PlansOf(items') /\ loop'.pc \notin Busy
      BY <1>0, <1>1, <2>1, PlansOfEnds
    <2> QED BY <2>2 DEF PlanInv, PlansOf
  <1>2. ASSUME NEW x \in Items, items' = items \o <<x>>, x.kind # "task_plan",
               x.kind \notin Work \/ (Deliberate => TaskPlans(items) # {}),
               Deliberate /\ loop'.pc \in Busy \ {"rejecting"} => TaskPlans(items) # {}
        PROVE  PlanInv'
    <2>1. <<x>> \in Seq(Items) /\ \A i \in DOMAIN <<x>> : <<x>>[i] = x
      OBVIOUS
    <2>2. PlansOf(items') /\ TaskPlans(items') = TaskPlans(items)
      BY <1>0, <1>2, <2>1, PlansOfGrows
    <2> QED BY <1>2, <2>2 DEF PlanInv, PlansOf
  <1>3. CASE WritesQuietly
    <2>1. CASE EndedWith(<<>>)
      <3>1. <<>> \in Seq(Items) /\ DOMAIN <<>> = {}
        OBVIOUS
      <3>2. PlansOf(items') /\ loop'.pc \notin Busy
        BY <1>0, <2>1, <3>1, PlansOfEnds
      <3> QED BY <3>2 DEF PlanInv, PlansOf
    <2>2. CASE \E x \in Items : x.kind \in Quiet /\ EndedWith(<<x>>)
      BY <1>1, <2>2 DEF Quiet, Work
    <2> QED BY <1>3, <2>1, <2>2 DEF WritesQuietly
  <1>4. CASE Reports(Answer)
    BY <1>1, <1>4 DEF Reports, Answer, Work
  <1>5. CASE loop.pc = "proposing" /\ Reports({"plan_step_proposed"})
    <2>1. Deliberate => TaskPlans(items) # {}
      BY <1>5 DEF PlanInv, Busy
    <2> QED BY <1>1, <1>5, <2>1 DEF Reports
  <1>6. CASE Decides
    <2>1. PICK x \in Items :
              /\ x.kind = "assistant_decision" /\ items' = items \o <<x>>
              /\ loop'.pc # "rejecting" => ~ PlanRequired
      BY <1>6 DEF Decides
    <2>2. x.kind # "task_plan" /\ x.kind \notin Work
      BY <2>1 DEF Work
    <2>3. Deliberate /\ loop'.pc \in Busy \ {"rejecting"} => TaskPlans(items) # {}
      BY <2>1 DEF PlanRequired
    <2> QED BY <1>2, <2>1, <2>2, <2>3
  <1>7. CASE Calls
    <2>1. PICK x \in Items : x.kind = "capability_call" /\ items' = items \o <<x>> /\ loop.pc = "decided"
      BY <1>7 DEF Calls
    <2>2. Deliberate => TaskPlans(items) # {}
      BY <2>1 DEF PlanInv, Busy
    <2> QED BY <1>2, <2>1, <2>2
  <1>8. CASE Runs
    <2>1. items' = items /\ loop.pc = "called"
      BY <1>8 DEF Runs
    <2>2. Deliberate => TaskPlans(items) # {}
      BY <2>1 DEF PlanInv, Busy
    <2> QED BY <2>1, <2>2 DEF PlanInv
  <1>9. CASE Plans
    <2>1. PICK q \in TaskPlanOffers(items) :
              /\ TaskPlanVerdict(items, q) = "ok"
              /\ Item("task_plan", None, q) \in Items
              /\ items' = items \o <<Item("task_plan", None, q)>>
      BY <1>9 DEF Plans
    <2>2. Numbered(items') /\ Evident(items') /\ (Planned(items) => Planned(items')) /\ TaskPlans(items') # {}
      BY <1>0, <2>1, PlanAdded DEF PlansOf
    <2> QED BY <1>0, <2>2 DEF PlanInv, PlansOf
  <1> QED BY <1>3, <1>4, <1>5, <1>6, <1>7, <1>8, <1>9 DEF LoopStep

LEMMA PlanStarts ==
    ASSUME TypeInv, PlanInv, StartStep
    PROVE  PlanInv'
  <1>0. items \in Seq(Items) /\ PlansOf(items)
    BY DEF TypeInv, RunTypes, PlanInv, PlansOf
  <1>1. CASE items' = items /\ loop'.pc = "done"
    BY <1>0, <1>1 DEF PlanInv, PlansOf, Busy
  <1>2. CASE ~(items' = items /\ loop'.pc = "done")
    <2>1. PICK began \in Seq(Items), t \in Seq(Items) :
             /\ \/ began = items
                \/ \E x \in Items : x.kind = "user_input" /\ began = items \o <<x>>
             /\ Closing(began, t) /\ items' = began \o t
             /\ loop'.pc = "loop"
      BY <1>2 DEF StartStep
    <2>2. PlansOf(began)
      <3>1. CASE \E x \in Items : x.kind = "user_input" /\ began = items \o <<x>>
        <4>1. PICK x \in Items : x.kind = "user_input" /\ began = items \o <<x>>
          BY <3>1
        <4>2. <<x>> \in Seq(Items) /\ \A i \in DOMAIN <<x>> : <<x>>[i] = x
          OBVIOUS
        <4>3. \A i \in DOMAIN <<x>> : <<x>>[i].kind # "task_plan" /\ <<x>>[i].kind \notin Work
          BY <4>1, <4>2 DEF Work
        <4> QED BY <1>0, <4>1, <4>2, <4>3, PlansOfGrows
      <3> QED BY <1>0, <2>1, <3>1
    <2>3. \A i \in DOMAIN t : t[i].kind # "task_plan" /\ t[i].kind \notin Work
      BY <2>1 DEF Closing, Work
    <2>4. PlansOf(items')
      BY <2>1, <2>2, <2>3, PlansOfGrows
    <2> QED BY <2>1, <2>4 DEF PlanInv, PlansOf, Busy
  <1> QED BY <1>1, <1>2

LEMMA PlanHosts ==
    ASSUME TypeInv, PlanInv, HostStep
    PROVE  PlanInv'
  <1>0. items \in Seq(Items) /\ PlansOf(items)
    BY DEF TypeInv, RunTypes, PlanInv, PlansOf
  <1>1. PICK t \in Seq(Items) : items' = items \o t /\ \A i \in DOMAIN t : t[i].kind \in Quiet
    BY DEF HostStep
  <1>2. \A i \in DOMAIN t : t[i].kind # "task_plan" /\ t[i].kind \notin Work
    BY <1>1 DEF Quiet, Work
  <1>3. PlansOf(items') /\ TaskPlans(items') = TaskPlans(items)
    BY <1>0, <1>1, <1>2, PlansOfGrows
  <1>4. loop' = loop \/ loop'.pc \notin Busy
    BY DEF HostStep, Busy
  <1> QED BY <1>3, <1>4 DEF PlanInv, PlansOf

\* The plan a structural replan replaces was followed by evidence, every revision
\* is the next one, and a Deliberate turn calls or proposes nothing before its
\* first TaskPlan.
THEOREM TaskPlansHold == Spec => []TaskPlanDiscipline
  <1>1. Init => TypeInv /\ PlanInv
    <2>1. ASSUME Init PROVE PlanInv
      <3>1. items = <<>> /\ loop.pc \notin Busy
        BY <2>1, IdleType DEF Init, Busy
      <3>2. \A kinds : Of(items, kinds) = {}
        BY <3>1 DEF Of
      <3> QED BY <3>1, <3>2 DEF PlanInv, Numbered, Evident, Planned, TaskPlans
    <2> QED BY <2>1, TypeInit
  <1>2. TypeInv /\ PlanInv /\ [Next]_vars => TypeInv' /\ PlanInv'
    <2> SUFFICES ASSUME TypeInv, PlanInv, [Next]_vars PROVE PlanInv'
      BY TypeStep
    <2>1. CASE UNCHANGED vars
      <3>1. UNCHANGED <<items, loop>>
        BY <2>1 DEF vars
      <3> QED BY <3>1 DEF PlanInv
    <2>2. CASE Start
      BY <2>2, StartingStep, PlanStarts DEF TypeInv
    <2>3. CASE Looping
      BY <2>3, LoopingStep, PlanLoops DEF TypeInv
    <2>4. CASE Hosting
      BY <2>4, HostingStep, PlanHosts
    <2> QED BY <2>1, <2>2, <2>3, <2>4, NextSplit
  <1>3. PlanInv => TaskPlanDiscipline
    BY DEF PlanInv, TaskPlanDiscipline, Numbered, Evident, Planned, Work
  <1> QED BY <1>1, <1>2, <1>3, PTL DEF Spec
=============================================================================
