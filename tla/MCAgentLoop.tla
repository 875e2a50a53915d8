----------------------------- MODULE MCAgentLoop -----------------------------
(* The two sides of a decision, each on its own: the loop of the host with   *)
(* its transcript, and the Codex session that it asks.  They share no state; *)
(* a behaviour is about one of them.                                         *)
EXTENDS AgentLoop, CodexSession, TLC

VARIABLE side

Load(mode, redirects, decisions) ==
    [mode |-> mode, redirects |-> redirects, decisions |-> decisions]

MCLoads == {Load("decide", 2, 1), Load("decide", 1, 2), Load("legacy", 0, 1)}

\* The call ids are interchangeable, and so are the staged steps.
Symmetry == Permutations(CallIds) \union Permutations(Steps)

MCInit ==
    /\ side \in {"loop", "session"}
    /\ Init /\ SessionInit
    /\ side = "loop" => load = Load("legacy", 0, 1)

MCNext ==
    \/ side = "loop" /\ Next /\ UNCHANGED <<side, cvars>>
    \/ side = "session" /\ SessionNext /\ UNCHANGED <<side, vars>>

MCSpec == MCInit /\ [][MCNext]_<<side, vars, cvars>>
=============================================================================
