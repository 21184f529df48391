SPECIFICATION FairSpec
CONSTANTS
    Jobs = {j1, j2}
    Clients = {c1, c2}
    NoJob = NoJob
    MaxWorkers = 1
    MaxPending = 2
    RegistryBound = 0
    EvictBatch = 1
    MaxPools = 2
PROPERTIES
    PollerSees
    PollersTerminate
    ShutdownEnds
CHECK_DEADLOCK FALSE
