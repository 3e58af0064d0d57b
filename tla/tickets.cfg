SPECIFICATION Spec
CONSTANTS
    SetIds = {s1}
    Paths = {1}
    Publishers = {a}
    Boots = {b}
    Sessions = {x}
    Scopes <- WholeScope
    Threads = {t1}
    Calls <- TicketCalls
    Minimums = {1}
    Policies = {TRUE, FALSE}
    Enablements = {TRUE}
    AuthorityStates = {"AUTHORIZED", "CONDITIONALLY_AUTHORIZED"}
    MaxPathGeneration = 2
    ExternalAuthority = TRUE
    MaxGeneration = 4
    MaxArchivedMembers = 1
    MaxSets = 1
    MaxMembersPerSet = 2
    MaxTotalMembers = 2
    MaxBatchSize = 1
    MaxDependenciesPerPath = 1
    MaxPendingRevalidations = 2
    MaxPublishers = 1
    MaxAuthorityGeneration = 3
    MaxWatermark = 4
    MaxTickets = 1
INVARIANTS
    TicketPinsMember
    UsableJustified
CHECK_DEADLOCK FALSE
