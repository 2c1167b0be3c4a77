SPECIFICATION Spec
CONSTANTS
    Quantities <- TwoLots
    Overlap = 1
    MaxFills = 4
    MaxFailures = 1
    None = None
INVARIANTS
    RoundTripsAreTraded
    TradesMatchFills
    ClosedIsAnnounced
PROPERTIES
    ClosedTradeStays
CHECK_DEADLOCK FALSE
