SPECIFICATION MCSpec
CONSTANTS
    Validations = {v1, v2}
    Authorizations = {a1, a2}
    PinTypes = {"emergency"}
    MaxFailedAttempts = 1
    LockoutDuration = 2
    MaxConcurrentSessions = 1
    SessionTimeout = 2
    EmergencyTimeout = 1
    MaxTime = 3
    MaxPINAttempts = 3
    MaxOperations = 2
    Logins = {l1, l2}
    MaxFailedLogins = 2
    BaseLockout = 2
    EscalationFactor = 2
    LongestLockout = 6
    MaxLoginTime = 8
    MaxGuesses = 6
    MaxDatabaseFailures = 1
    MfaRequests = {m1, m2}
    CodesPerBatch = 2
    RegenerateAt = 1
    MaxSecrets = 2
    MaxBatches = 3
    MaxUndone = 1
    Refreshes = {r1, r2}
    RefreshLifetime = 1
    MaxTokenTime = 2
    MaxTokens = 3
    MaxTokenFailures = 1
    Categories <- MCCategories
    RateLimits <- MCRateLimits
    TimeWindows <- MCTimeWindows
    InactiveAfter = 3
    MaxRequestTime = 8
    MaxRequests = 5
    Emails = {n1, n2}
    InvitationHours = 2
    MaxInvitations = 3
    MaxInvitationTime = 4
    Connections = {"c1", "c2", "c3"}
    Services = {"entities"}
    Echoing = {"c1"}
CHECK_DEADLOCK FALSE
INVARIANTS OperationsWithinLimit GuessesBounded WrongPasswordsBounded CodeUsedOnce TokenUsesBounded BurstWithinLimit OneActiveInvitation ListeningClientsServed
PROPERTIES ExpiredConnectionCloses
