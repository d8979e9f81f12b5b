SPECIFICATION FairSpec
CONSTANTS
    Sessions = {s1, s2}
    reader = s1
    MaxChunk = 3
    o1 = o1
    o2 = o2
    stone = stone
    Offsets = {o1, o2}
    Values = {stone}
    Absent = Absent
    None = None
    Commands <- ReadingAndWriting
    ScanLimit = 1
    MaxWorldItems = 2
    MaxVersion = 3
INVARIANT NoLostUpdate
INVARIANT WorldReadsAreSnapshots
 
PROPERTY RequestsAnswered
