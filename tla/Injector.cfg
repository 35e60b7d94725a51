SPECIFICATION FairSpec
CONSTANTS
    Jobs = {j1, j2, j3}
    Interfaces = {can0}
    Stops = {s1, s2}
    MaxCount = 4
    MaxFailures = 1
CHECK_DEADLOCK FALSE
INVARIANTS LiveTasksTracked
PROPERTIES QuietAfterStop TimedInjectionsEnd
