------------------------------ MODULE MCClient ------------------------------
(* The user's side, each part on its own: the live channel of one turn from   *)
(* the worker to the browser, the account with its login, and the maintenance *)
(* and the configuration of the standalone service.  They share no state; a   *)
(* behaviour is about one of them.                                            *)
EXTENDS Account, Maintenance, Configuration, LiveStream, TLC

VARIABLE part

Workload(attempts, watched, summaries) ==
    [attempts |-> attempts, watched |-> watched, summaries |-> summaries]

\* Two attempts race for the store with nobody watching; one attempt is watched by a
\* browser whose calls may fail.
MCWorkloads == {Workload(2, FALSE, FALSE), Workload(1, TRUE, TRUE)}

Budget(r, k) == [requests |-> r, kills |-> k, started |-> 0]

MCBudgets == {Budget(4, 0), Budget(3, 1)}

\* A host without the log file allows everything but the overrides that name it.
MCAllowed == [f \in Facts |-> IF f = "full" THEN Overrides ELSE Overrides \ {"file"}]

\* The attempts on a turn are interchangeable.
Symmetry == Permutations(Workers)

MCInit ==
    /\ part \in {"stream", "account", "maintenance", "configuration"}
    /\ Init /\ AccountInit /\ MaintenanceInit /\ ConfigurationInit
    /\ part # "stream" => turn.max = 1
    /\ part # "account" => rest = Budget(4, 0)
    /\ part # "configuration" => facts = "full"

MCNext ==
    \/ part = "stream" /\ Next /\ UNCHANGED <<part, avars, mvars, fvars>>
    \/ part = "account" /\ AccountNext /\ UNCHANGED <<part, vars, mvars, fvars>>
    \/ part = "maintenance" /\ MaintenanceNext /\ UNCHANGED <<part, vars, avars, fvars>>
    \/ part = "configuration" /\ ConfigurationNext /\ UNCHANGED <<part, vars, avars, mvars>>

MCSpec == MCInit /\ [][MCNext]_<<part, vars, avars, mvars, fvars>>
=============================================================================
