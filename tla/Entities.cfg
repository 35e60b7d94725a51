SPECIFICATION MCSpec
CONSTANTS
    Entities = {e1, e2}
    MaxBatchSize = 2
    MaxRetries = 2
    MaxChanges = 4
    MaxWriteFailures = 2
    MaxRestarts = 1
    Operations = {o1, o2}
    Lights = {l1, l2}
    MaxLevel = 2
    BulkConcurrency = 2
    MaxStops = 1
    MaxSendFailures = 1
    WriterStarted = TRUE
CHECK_DEADLOCK FALSE
INVARIANTS RunningOperationsTracked CleanStopSavesAll
PROPERTIES StateConverges OperationsEnd NotifiedChangeSaved PersistenceIsDurable
