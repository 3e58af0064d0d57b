INIT ExchangeInit
NEXT ExchangeNext
SYMMETRY Symmetry
ACTION_CONSTRAINT RegistersFirst
CONSTANTS
    Publishers = {p1}
    Boots = {b1, b2}
    Sessions = {x1, x2}
    SetIds <- NoSets
    MaxPublishers = 2
    MaxAuthorityGeneration = 6
    MaxSessions = 2
    Calls <- RetryCalls
    Contexts <- TwoAttempts
    a1 = a1
    a2 = a2
    MaxAttempts = 1
    MaxCalls = 4
    MaxUnread = 0
    ListSize = 1
    MaxResponse = 3
INVARIANTS
    ExchangeTypeOK
    RunsOnce
CHECK_DEADLOCK FALSE
