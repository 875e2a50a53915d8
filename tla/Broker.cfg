\* Every fault of the broker, over two workloads.
SPECIFICATION Spec
CONSTANTS
    Steps = {"s1", "s2", "s3"}
    Targets = {"t"}
    Calls = {"k1", "k2", "k3", "k4", "k5"}
    StepOf <- CallsOfSteps
    DbOf <- CallDatabases
    Workloads = {{"s1", "s2"}, {"s3"}}
    KindOf <- Kinds
    TargetOf <- OneTarget
    ValueOf <- StepValues
    Values = {"a", "b"}
    MaxGeneration = 1
INVARIANT BackupIsPreviewed
PROPERTY AbandonedIsNeverResumed
PROPERTY KeepsContract
CHECK_DEADLOCK FALSE
