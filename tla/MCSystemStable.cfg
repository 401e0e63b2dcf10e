CONSTANTS
    t1 = t1
    t2 = t2
    Tasks = {t1, t2}
    Workers = {w1, w2}
    Partitions <- MCPartitions
    PartitionOf <- MCPartitionOf
    EarlierResults <- MCEarlierResults
    MaxAttempts = 2
    MaxFaults = 2
    InvalidTasks = {}
    StableGroup = TRUE
SPECIFICATION SystemSpec
INVARIANTS
    SystemTypeOK
    OneWorkerChangesWorkload
    FaultFreeReportIsTrue
PROPERTIES
    ImplementsLedger
CHECK_DEADLOCK FALSE
