SPECIFICATION Spec
CONSTANTS
    SetIds = {s1, s2}
    Paths = {1, 2}
    Publishers = {a}
    Boots = {b}
    Sessions = {x}
    Scopes <- WholeScope
    Threads = {t1}
    Calls <- SharedPathCalls
    Minimums = {1}
    Policies = {FALSE}
    Enablements = {TRUE}
    AuthorityStates = {"AUTHORIZED"}
    MaxPathGeneration = 1
    ExternalAuthority = FALSE
    MaxGeneration = 4
    MaxArchivedMembers = 1
    MaxSets = 2
    MaxMembersPerSet = 2
    MaxTotalMembers = 3
    MaxBatchSize = 1
    MaxDependenciesPerPath = 2
    MaxPendingRevalidations = 1
    MaxPublishers = 1
    MaxAuthorityGeneration = 2
    MaxWatermark = 5
    MaxTickets = 0
SYMMETRY SetSymmetry
INVARIANTS
    PathIndexConsistent
    MemberCountCovers
    MemberIdentityUnique
    LineageHolds
CHECK_DEADLOCK FALSE
