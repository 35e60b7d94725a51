SPECIFICATION FairSpec
CONSTANTS
    Interlocks = {"slide", "awning", "leveling"}
    Conditions = {"stationary", "jacks"}
    Violation_Threshold = 3
    Services = {"can", "entity"}
    RegistryAttached = TRUE
    AuthOutcomes = {TRUE, FALSE}
    AuditService = FALSE
    HealthCheckCalled = FALSE
    MayShutDown = TRUE
    Requests = {r1, r2}
    Offered = {"stop"}
    Overridable = {}
    HealthInterval = 1
    WatchdogTimeout = 1
    Duration = 1
    InterlockConditions <- DefaultConditions
    HealthSummaries = {"raises", "failed", "healthy"}
INVARIANTS EmergencyUnderwayOrSafe AllServicesTold
PROPERTIES MonitorHangReachesSafeState
