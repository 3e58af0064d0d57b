SPECIFICATION SnapshotSpec
CONSTANTS
    SetIds = {s1}
    Paths = {1}
    Publishers = {a1, a2}
    Boots = {b}
    Sessions = {x1, x2}
    Scopes <- WholeScope
    Threads = {t1}
    Calls <- ReaderCalls
    Minimums = {1}
    Policies = {FALSE}
    Enablements = {TRUE}
    AuthorityStates = {"AUTHORIZED", "REVOKED"}
    MaxPathGeneration = 1
    ExternalAuthority = FALSE
    MaxGeneration = 4
    MaxArchivedMembers = 1
    MaxSets = 1
    MaxMembersPerSet = 2
    MaxTotalMembers = 2
    MaxBatchSize = 1
    MaxDependenciesPerPath = 1
    MaxPendingRevalidations = 1
    MaxPublishers = 1
    MaxAuthorityGeneration = 4
    MaxWatermark = 6
    MaxTickets = 1
    MaxSnapshotHistory = 2
    MaxExplanationEntries = 1
INVARIANTS
    CurrentnessBacked
    LatestShowsSet
    DiffFollowsIdentity
    ExplanationAgrees
PROPERTIES
    CommitsAreAuthorized
    AuthorityRefined
CHECK_DEADLOCK FALSE
