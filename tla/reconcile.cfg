SPECIFICATION Spec
CONSTANTS
    SetIds = {s1}
    Paths = {1}
    Publishers = {a}
    Boots = {b}
    Sessions = {x}
    Scopes <- WholeScope
    Threads = {t1, t2}
    Calls <- ReconcilingCalls
    Minimums = {1}
    Policies = {FALSE}
    Enablements = {TRUE}
    AuthorityStates = {"AUTHORIZED", "REVOKED"}
    MaxPathGeneration = 2
    ExternalAuthority = FALSE
    MaxGeneration = 4
    MaxArchivedMembers = 1
    MaxSets = 1
    MaxMembersPerSet = 2
    MaxTotalMembers = 2
    MaxBatchSize = 1
    MaxDependenciesPerPath = 1
    MaxPendingRevalidations = 1
    MaxPublishers = 1
    MaxAuthorityGeneration = 2
    MaxWatermark = 4
    MaxTickets = 0
SYMMETRY ThreadSymmetry
INVARIANTS
    StaleUseCovered
PROPERTIES
    NoSilentResurrection
CHECK_DEADLOCK FALSE
