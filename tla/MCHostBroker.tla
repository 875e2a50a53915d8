---------------------------- MODULE MCHostBroker ----------------------------
(* The instance of HostBroker for TLC.  One workload has a module update, asked twice, and  *)
(* a service restart of the same target; the other a configuration patch that a copied        *)
(* database asks for too.                                                                   *)
EXTENDS HostBroker

CallsOfSteps ==
    [k \in Calls |-> CASE k \in {"k1", "k2"} -> "s1" [] k = "k3" -> "s2"
                       [] OTHER -> "s3"]

CallDatabases == [k \in Calls |-> IF k = "k5" THEN "copy" ELSE "prod"]

Kinds ==
    [s \in Steps |-> CASE s = "s1" -> "module" [] s = "s2" -> "service" [] OTHER -> "config"]

OneTarget == [s \in Steps |-> "t"]

StepValues == [s \in Steps |-> IF s \in {"s1", "s3"} THEN "b" ELSE "a"]
=============================================================================
