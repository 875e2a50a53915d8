SPECIFICATION Spec
CONSTANTS
    Turns = {1, 2}
    Conversations = {c1}
    ConversationOf <- OneConversation
    Slots = {s1}
    Requests = {r1}
    Capacity = 2
    MaxAttempts = 1
    MaxInterventions = 1
    MaxReplans = 0
    MaxUnits = 1
INVARIANT CausalOrder
CHECK_DEADLOCK FALSE

