\* One of two files, two cron workers and two repairs that race each other; two
\* chats of the panel.
SPECIFICATION MCSpec
CONSTANTS
    Requests = {"r1", "r2"}
    Workloads = {{"r1"}, {"r2"}}
    Workers = {"w1", "w2"}
    Plans = {"p1", "p2"}
    FileRows <- Files
    FormatOf <- Formats
    RulesOf <- Rules
    ChunkOf <- Chunks
    MaxChunks = 4
    MaxCrashes = 1
    Turns = {1, 2}
    Loads <- MCLoads
INVARIANT ImportedExactlyOnce
INVARIANT CountersMatchReceipts
INVARIANT ShownBelongs
 
CHECK_DEADLOCK FALSE
