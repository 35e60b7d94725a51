SPECIFICATION FairSpec
CONSTANTS
    Interlocks = {"slide", "awning", "leveling"}
    Conditions = {"stationary", "jacks"}
    Violation_Threshold = 3
    Services = {"can"}
    RegistryAttached = FALSE
    AuthOutcomes = {TRUE, FALSE}
    AuditService = FALSE
    HealthCheckCalled = TRUE
    MayShutDown = FALSE
    Requests = {r1}
    Offered = {"reset", "override", "maintenance", "maintenance_exit", "diagnostic", "diagnostic_exit"}
    Overridable = {"slide"}
    HealthInterval = 1
    WatchdogTimeout = 2
    Duration = 1
    InterlockConditions <- DefaultConditions
    HealthSummaries = {}
INVARIANTS OverridesTracked
PROPERTIES ViolationsStop ExpiredOverrideReengages LeavingModeClearsOverrides
