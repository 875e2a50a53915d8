SPECIFICATION MCSpec
CONSTANTS
    Workers = {w1, w2}
    Workloads <- MCWorkloads
    Pieces = 2
    MaxLive = 5
    MaxAnswer = 3
    PageSize = 2
    MaxPages = 3
    MaxFailures = 1
    MaxPolls = 2
    Callers = {"a", "b"}
    Attempts = {1, 2}
    Budgets <- MCBudgets
    MaxJobs = 3
    AllOps = {"source_rescan", "knowledge_reindex", "logs_test"}
    MaxTests = 1
    Admins = {"x", "y"}
    Overrides = {"plain", "file"}
    Facts = {"full", "no file"}
    Allowed <- MCAllowed
    MaxRevision = 3
    MaxMoves = 2
SYMMETRY Symmetry
 
INVARIANT BrowserShowsTurn
INVARIANT OneLogin
 
INVARIANT RevisionsChained
CHECK_DEADLOCK FALSE
