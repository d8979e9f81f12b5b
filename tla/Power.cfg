SPECIFICATION PowerSpec
CONSTANTS
    Coords = {1, 2}
    Values = {a}
    Empty = empty
    Absent = absent
    MaxBatch = 1
    Durability = "fsync-wal"
    CheckpointTrigger = 2
    MaxVersion = 3
    MaxGeneration = 7
    Faults <- SyncFaults
    InitialImages <- NoImages
    WALGroupCommitUpdates = 1
    maxPendingSyncPaths = 2
 
PROPERTY BarrierCovers
PROPERTY GenerationSettles
CHECK_DEADLOCK FALSE
