SPECIFICATION Spec
CONSTANTS
    Savers = {s1, s2}
    Workers = {w1}
    IOErrors = FALSE
    MaxRevision = 2
    MaxEpoch = 2
    MaxLives = 1
INVARIANTS
    StoreStaysLoadable
CHECK_DEADLOCK FALSE
