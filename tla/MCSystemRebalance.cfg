CONSTANTS
    t1 = t1
    t2 = t2
    Tasks = {t1, t2}
    Workers = {w1, w2}
    Partitions <- MCOnePartition
    PartitionOf <- MCSamePartition
    EarlierResults <- MCEarlierResults
    MaxAttempts = 2
    MaxFaults = 2
    InvalidTasks = {t2}
    StableGroup = FALSE
SPECIFICATION SystemSpec
INVARIANTS
    NoTaskIsLost
PROPERTIES
    EveryTaskSettles
CHECK_DEADLOCK FALSE
