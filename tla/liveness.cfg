SPECIFICATION FairSpec
CONSTANTS
    SetIds = {s1}
    Paths = {1}
    Publishers = {a}
    Boots = {b}
    Sessions = {x}
    Scopes <- WholeScope
    Threads = {t1, t2}
    Calls <- LiveCalls
    Minimums = {1}
    Policies = {FALSE}
    Enablements = {TRUE}
    AuthorityStates = {"AUTHORIZED"}
    MaxPathGeneration = 2
    ExternalAuthority = FALSE
    MaxGeneration = 3
    MaxArchivedMembers = 1
    MaxSets = 1
    MaxMembersPerSet = 2
    MaxTotalMembers = 2
    MaxBatchSize = 1
    MaxDependenciesPerPath = 1
    MaxPendingRevalidations = 1
    MaxPublishers = 1
    MaxAuthorityGeneration = 3
    MaxWatermark = 5
    MaxTickets = 0
PROPERTIES
    StaleUseResolved
    CallsReturn
CHECK_DEADLOCK FALSE
