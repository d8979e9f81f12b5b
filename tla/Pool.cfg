SPECIFICATION FairSpec
CONSTANTS
    Users = {u1, u2, u3}
    Kinds = {append, scan}
    Append0 = append
    MaxOpen = 1
    MaxFiles = 3
INVARIANT LeaseStaysOpen
INVARIANT PoolAccounted
PROPERTY AcquireReturns
PROPERTY CloseReturns
CHECK_DEADLOCK FALSE
