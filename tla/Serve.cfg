SPECIFICATION FairSpec
CONSTANTS
    Conns = {c1, c2, c3, c4}
    Workers = {w1, w2}
    AcceptQueue = 1
    None = None
INVARIANT SlotsAccounted
INVARIANT NothingLeftOpen
INVARIANT FittedLimitsAreBest
PROPERTY ServeReturns
CHECK_DEADLOCK FALSE
