SPECIFICATION FairLockSpec
CONSTANTS
    Procs = {p1, p2, p3}
    Legacy = {l1}
    Sessions = {s1, s2}
    None = None
    StaleAfter = 1
    MaxInodes = 2
    MaxMishaps = 3
 
INVARIANT CloseRemovesRecord
PROPERTY DirectoryIsTaken
