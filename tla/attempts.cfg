SPECIFICATION Spec
CONSTANTS
    Attempts = {a1, a2}
    CompletionAttempts = {c1}
    Requests = {r1, r2}
    Tickets = {t1, t2}
    MaxAttempts = 2
    MaxRecords = 5
INVARIANTS
    IndexIsRetained
    OnlyEvictedRunAgain
PROPERTIES
    WindowRefined
CHECK_DEADLOCK FALSE
