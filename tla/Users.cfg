SPECIFICATION UsersSpec
CONSTANTS
    Coords = {1}
    Values = {a}
    Empty = empty
    Absent = absent
    MaxBatch = 1
    Durability = "fsync-checkpoint"
    CheckpointTrigger = 2
    MaxVersion = 3
    MaxGeneration = 7
    Faults <- StableFaults
    InitialImages <- NoImages
INVARIANT AcceptedReadIsCommitted
 
PROPERTY VersionsOrderContent
CHECK_DEADLOCK FALSE
