\* A Deliberate turn with proposals, refused plans and a worker death; a Codex session with
\* corrections, a timeout and a rollback path.
SPECIFICATION MCSpec
CONSTANTS
    c1 = c1
    c2 = c2
    CallIds = {c1, c2}
    Capabilities = {"read"}
    DecisionLimit = 3
    MaxCapabilityCalls = 2
    MaxFailures = 1
    MaxEffectSteps = 2
    MaxCalls = 1
    MaxReplans = 1
    Deliberate = TRUE
    Shapes = {"a", "b"}
    Proposals = TRUE
    MaxCrashes = 1
    Loads <- MCLoads
    MaxRestarts = 1
    MaxTimeouts = 1
    Steps = {s1, s2}
    MaxStaged = 2
    MaxToolCalls = 2
SYMMETRY Symmetry
INVARIANT ExecutedOnce
INVARIANT ResumeSameResult
INVARIANT TaskPlanDiscipline
INVARIANT DecisionIsCurrent
INVARIANT NothingLeftOpen
INVARIANT StagedPlanIsFinal
CHECK_DEADLOCK FALSE
