SPECIFICATION Spec
CONSTANTS
    LastDay = 2
    MonthOf <- MCMonthOf
    Happens <- MCHappens
    Writes <- MCWrites
    Checks <- MCChecks
    Freezable = {0, 1}
    EditableDays = 1
    FreezesPerMonth = 1
    Requests = {r1, r2}
CONSTRAINT
    OfOneKind
INVARIANTS
    PendingReviewIsOpen
    SeriesIsUnbroken
PROPERTIES
    CheckAfterReviews
    HistoryIsKept
SYMMETRY EveryRequest
CHECK_DEADLOCK FALSE
