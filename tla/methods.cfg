SPECIFICATION ExchangeSpec
CONSTANTS
    Publishers = {p1}
    Boots = {b1}
    Sessions = {x1}
    SetIds <- NoSets
    MaxPublishers = 2
    MaxAuthorityGeneration = 4
    MaxSessions = 2
    Calls <- MethodCalls
    Contexts <- Expectations
    a1 = a1
    a2 = a2
    MaxAttempts = 1
    MaxCalls = 2
    MaxUnread = 1
    ListSize = 2
    MaxResponse = 2
INVARIANTS
    DispatchedAsAsked
    AnswersAreOwn
PROPERTIES
    CallsReturn
    GoneClientsAreFenced
CHECK_DEADLOCK FALSE
