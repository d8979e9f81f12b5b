SPECIFICATION Spec
CONSTANTS
    Coords = {1, 2}
    Values = {a}
    Empty = empty
    Absent = absent
    MaxBatch = 2
    Durability = "fsync-checkpoint"
    CheckpointTrigger = 2
    MaxVersion = 3
    MaxGeneration = 5
    Faults <- SafeFaults
    InitialImages <- NoImages
INVARIANT ReadsCommitted
INVARIANT EvenGenerationIsStable
INVARIANT BoundaryCoversTail
INVARIANT UnrepairedIntentPoisons
CHECK_DEADLOCK FALSE
