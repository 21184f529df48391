SPECIFICATION FairSpec
CONSTANTS
    Files = {f1, f2}
    Openable = {f1, f2}
    Second = f2
    NoFile = NoFile
    MaxVersion = 2
    MaxWatches = 2
CONSTRAINT BurstOrRestart
INVARIANTS
    AllAccountedFor
    OneJobPerFile
PROPERTIES
    NeverHalfWritten
    PickedUp
    ThreadEnds
CHECK_DEADLOCK FALSE
