SPECIFICATION Spec
CONSTANTS
    Jobs = {j1, j2, j3, j4}
    Clients = {c1}
    NoJob = NoJob
    MaxWorkers = 1
    MaxPending = 1
    RegistryBound = 2
    EvictBatch = 1
    MaxPools = 2
SYMMETRY Symmetry
INVARIANTS
    NoPhantom
    EndedMeansStopped
    UnfinishedRegistered
    RegistryBounded
CHECK_DEADLOCK FALSE
