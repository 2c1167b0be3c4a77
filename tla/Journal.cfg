SPECIFICATION Spec
CONSTANTS
    Horizon = 3
    Polls = {2}
    NumRules = 1
    Offered <- MCOffered
    Outcomes <- MCOutcomes
    Unrealized <- MCUnrealized
    Significance = 2
    Sessions = {s1, s2}
    MaxOverlaps = 1
    Unknown = Unknown
INVARIANTS
    CountersOfTrades
    FiresOnRise
    NoFiringInRetrospect
PROPERTIES
    JournalIsFrozen
    EveryTradeIsJudged
    KeepsUnrealized
SYMMETRY Perms
CHECK_DEADLOCK FALSE
