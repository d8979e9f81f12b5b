SPECIFICATION Spec
CONSTANTS
    Coords = {1, 2}
    Values = {a}
    Empty = empty
    Absent = absent
    MaxBatch = 2
    Durability = "fsync-checkpoint"
    CheckpointTrigger = 2
    MaxVersion = 2
    MaxGeneration = 7
    Faults <- AllFaults
    InitialImages <- NoImages
INVARIANT VersionsWithinClock
PROPERTY ImplementsAtomicChunks
CHECK_DEADLOCK FALSE
