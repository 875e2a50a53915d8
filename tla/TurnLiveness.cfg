SPECIFICATION FairSpec
CONSTANTS
    Turns = {1}
    Conversations = {c1}
    ConversationOf <- OneConversation
    Slots = {s1, s2}
    Requests = {r1}
    Capacity = 1
    MaxAttempts = 2
    MaxInterventions = 1
    MaxReplans = 0
    MaxUnits = 1
PROPERTY EveryTurnSettles
CHECK_DEADLOCK FALSE
