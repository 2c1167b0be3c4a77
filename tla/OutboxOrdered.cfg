SPECIFICATION FairOrderedSpec
CONSTANTS
    a = a
    b = b
    c = c
    d = d
    Writers = {a, b, c, d}
    Keys <- MCKeys
    KeyOf <- MCKeyOf
    Wanted = {a, b, c}
    Workers = {w1, w2}
    Batch = 2
    LastId = 4
    MaxCrashes = 1
INVARIANTS
    AtLeastOnce
    RepeatsNeedCrashes
    OneEventPerKey
PROPERTIES
    Delivered
CHECK_DEADLOCK FALSE
