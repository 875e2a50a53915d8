--------------------------- MODULE EffectContract ---------------------------
(***************************************************************************)
(* What the host broker promises about a privileged effect, whatever is    *)
(* lost, repeated or delayed: the effect of a plan step happens at most    *)
(* once, "ok" is only said of a step that is applied (or that found        *)
(* nothing to change), and a step reported stale is never applied.         *)
(***************************************************************************)
EXTENDS Naturals

CONSTANTS Steps,  \* effectful plan steps (request ids)
          Calls,  \* connections to the broker
          StepOf  \* the step a call asks for

VARIABLES effects, \* effects[s]: how often the effect of s happened
          answer   \* answer[k]: what call k was told

Answers == {"none", "ok", "unchanged", "stale", "denied", "uncertain", "unavailable"}

Told(s, what) == \E k \in Calls : StepOf[k] = s /\ answer[k] = what

Init ==
    /\ effects = [s \in Steps |-> 0]
    /\ answer = [k \in Calls |-> "none"]

\* The privileged effect of a step that is neither applied nor refused.
Apply(s) ==
    /\ effects[s] = 0
    /\ ~Told(s, "stale")
    /\ effects' = [effects EXCEPT ![s] = 1]
    /\ UNCHANGED answer

\* A call ends with an answer.
Answer(k, what) ==
    /\ answer[k] = "none"
    /\ what = "ok" => effects[StepOf[k]] = 1
    /\ what = "stale" => effects[StepOf[k]] = 0
    /\ answer' = [answer EXCEPT ![k] = what]
    /\ UNCHANGED effects

\* The broker dies, and the calls that waited for it lose their answer together.
Lose(K) ==
    /\ \A k \in K : answer[k] = "none"
    /\ answer' = [k \in Calls |-> IF k \in K THEN "uncertain" ELSE answer[k]]
    /\ UNCHANGED effects

Next ==
    \/ \E s \in Steps : Apply(s)
    \/ \E k \in Calls, what \in Answers \ {"none"} : Answer(k, what)
    \/ \E K \in SUBSET Calls : Lose(K)

Spec == Init /\ [][Next]_<<effects, answer>>
=============================================================================
