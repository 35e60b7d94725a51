SPECIFICATION MCSpec
CONSTANTS
    Services = {s1, s2, s3, s4}
    Migrations = {m1, m2, m3}
    Torn = Torn
    Notifications = {n1, n2, n3, n4}
    BatchSize = 2
    Operations = {o1, o2}
    TicksPerMs = 2
    Deadline = 3
    MaxBrakeTime = 8
SYMMETRY MCSymmetry
INVARIANTS
    FailsOnlyByItself
    FailedStartupCleansUp
    MigrationAllOrNothing
    EnqueuedIsWritten
    BrakeDeadlinesSeen
CHECK_DEADLOCK FALSE
