SPECIFICATION ThrottleSpec
CONSTANTS
    s1 = s1
    s2 = s2
    c1 = c1
    c2 = c2
    c3 = c3
    Sources = {s1, s2}
    Connections = {c1, c2, c3}
    Source <- SharedSource
    MaxSources = 1
    Limit = 2
    BanDuration = 2
    MaxTime = 3
INVARIANT LateFailuresBounded
PROPERTY BanHolds
