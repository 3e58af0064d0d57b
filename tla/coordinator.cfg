SPECIFICATION ServerSpec
CONSTANTS
    Publishers = {a1, a2}
    Boots = {b1}
    Sessions = {x1, x2, x3}
    SetIds <- NoSets
    MaxPublishers = 2
    MaxAuthorityGeneration = 5
    MaxSessions = 2
INVARIANTS
    ServerTypeOK
    AuthorityIsLive
    OneWorkerPerSession
    RegistrationsAreServed
    LostWorkersAreFenced
PROPERTIES
    AuthorityMovesForward
    StopEndsEverySession
CHECK_DEADLOCK FALSE
