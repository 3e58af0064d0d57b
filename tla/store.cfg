SPECIFICATION Spec
CONSTANTS
    Savers = {s1}
    Workers = {w1}
    IOErrors = TRUE
    MaxRevision = 3
    MaxEpoch = 3
    MaxLives = 3
INVARIANTS
    SavedIsRecoverable
    BackupIsPrevious
PROPERTIES
    RecoveryMovesOn
CHECK_DEADLOCK FALSE
