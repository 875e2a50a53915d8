\* Plans of two steps over two records, with a repair, an edit of another user and a crash;
\* conversations of up to four turns.
SPECIFICATION MCSpec
CONSTANTS
    s1 = s1
    s2 = s2
    s3 = s3
    CallIds = {s1, s2, s3}
    Records = {"x", "y"}
    Capabilities = {"patch", "batch_delete", "host", "module"}
    MaxSteps = 2
    MaxReplans = 1
    MaxEdits = 1
    MaxCrashes = 1
    Scan = 2
    MaxMessages = 3
    MaxSummary = 2
    MaxActive = 2
    MaxEffects = 2
    MaxContext = 6
    Talks <- MCTalks
INVARIANT JournalTruth
INVARIANT ApprovedScope
INVARIANT TurnKnowsConversation
PROPERTY ForeignEditKept
PROPERTY ReversionIsWhole
SYMMETRY CallSymmetry
CHECK_DEADLOCK FALSE
