SPECIFICATION Spec
CONSTANTS
    Passes = {p1, p2}
    Firing = {p1, p2}
    Seeing = {p2}
    Reviews = {v1}
    Readers = {g1}
    None = None
INVARIANTS
    OneActiveLock
    VerdictsAgree
    ReviewEndsItsLock
CHECK_DEADLOCK FALSE
