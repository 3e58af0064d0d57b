SPECIFICATION Spec
CONSTANTS
    SetIds = {s1}
    Paths = {1, 2}
    Publishers = {a}
    Boots = {b}
    Sessions = {x}
    Scopes <- WholeScope
    Threads = {t1}
    Calls <- GovernanceCalls
    Minimums = {0, 1, 2}
    Policies = {FALSE}
    Enablements = {TRUE, FALSE}
    AuthorityStates = {"AUTHORIZED"}
    MaxPathGeneration = 1
    ExternalAuthority = FALSE
    MaxGeneration = 5
    MaxArchivedMembers = 1
    MaxSets = 1
    MaxMembersPerSet = 2
    MaxTotalMembers = 2
    MaxBatchSize = 2
    MaxDependenciesPerPath = 1
    MaxPendingRevalidations = 1
    MaxPublishers = 1
    MaxAuthorityGeneration = 2
    MaxWatermark = 8
    MaxTickets = 0
INVARIANTS
    TypeOK
    ThresholdAccounting
    GenerationsNested
PROPERTIES
    ChangesAreVersioned
    EndingIsFinal
CHECK_DEADLOCK FALSE
