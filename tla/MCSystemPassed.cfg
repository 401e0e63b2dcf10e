CONSTANTS
    t1 = t1
    t2 = t2
    Tasks = {t1, t2}
    Workers = {w1, w2}
    Partitions <- MCPartitions
    PartitionOf <- MCPartitionOf
    EarlierResults <- MCEarlierResults
    MaxAttempts = 2
    MaxFaults = 2
    InvalidTasks = {}
    StableGroup = TRUE
SPECIFICATION SystemSpec
INVARIANT PassedMeansEveryWorkload
CHECK_DEADLOCK FALSE
