SPECIFICATION Spec
CONSTANTS
    Turns = {1}
    Conversations = {c1}
    ConversationOf <- OneConversation
    Slots = {s1, s2}
    Requests = {r1}
    Capacity = 2
    MaxAttempts = 2
    MaxInterventions = 1
    MaxReplans = 1
    MaxUnits = 2
INVARIANT SoleOwner
INVARIANT SingleEffectClaim
INVARIANT EffectsBehindBarrier
INVARIANT NoStaleResult
PROPERTY BarrierRespectsControl
PROPERTY RedirectNotLost
 
 
CHECK_DEADLOCK FALSE
SYMMETRY SlotSymmetry
