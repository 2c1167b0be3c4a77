SPECIFICATION FairSpec
CONSTANTS
    Quantities <- OneLot
    Overlap = 1
    MaxFills = 2
    MaxFailures = 1
    None = None
PROPERTIES
    RoundTripsComeThrough
CHECK_DEADLOCK FALSE
