SPECIFICATION Spec
CONSTANTS
    a = a
    b = b
    c = c
    d = d
    Writers = {a, b, c, d}
    Keys <- MCKeys
    KeyOf <- MCKeyOf
    Wanted = {a, b, c}
    Workers = {w1, w2}
    Batch = 2
    LastId = 4
    MaxCrashes = 1
INVARIANT
    AtLeastOnce
CHECK_DEADLOCK FALSE
