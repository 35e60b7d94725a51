SPECIFICATION Spec
CONSTANTS
    Interlocks = {"slide", "awning", "leveling"}
    Conditions = {"stationary", "jacks", "park", "engine_off"}
    Violation_Threshold = 3
    Services = {"can"}
    RegistryAttached = FALSE
    AuthOutcomes = {TRUE, FALSE}
    AuditService = FALSE
    HealthCheckCalled = FALSE
    MayShutDown = FALSE
    Requests = {r1, r2}
    Offered = {"stop", "reset", "override", "maintenance", "maintenance_exit", "diagnostic", "diagnostic_exit"}
    Overridable = {"slide"}
    HealthInterval = 1
    WatchdogTimeout = 2
    Duration = 1
    InterlockConditions <- DefaultConditions
    HealthSummaries = {}
SYMMETRY Symmetry
INVARIANTS AllServicesTold
