SPECIFICATION FairCacheSpec
CONSTANTS
    Coords = {1, 2, 3}
    Values = {a, b}
    Callers = {p, q}
    MaxLoaded = 2
    QueueSize = 1
    MaxEntries = 7
INVARIANT OneOwner
INVARIANT ResidentsAgree
INVARIANT HitIsLatest
PROPERTY CloseDrains
CHECK_DEADLOCK FALSE
