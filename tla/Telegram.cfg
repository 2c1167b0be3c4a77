SPECIFICATION Spec
CONSTANTS
    Chats = {friend, other}
    Locks = {l1}
    None = None
    LinkTtl = 1
    InviteTtl = 1
    RemovalDelay = 2
    MaxUpdateAttempts = 2
    Poison = {}
    MaxFailures = 1
    MaxCrashes = 1
    MaxCodes <- TwoCodes
    MaxUpdates = 2
    Horizon = 2
INVARIANTS
    OneChatPerCode
    LiftedByConsent
    RepeatsNeedRestarts
PROPERTIES
    RemovalTakesADay
SYMMETRY EveryChat
CHECK_DEADLOCK FALSE
