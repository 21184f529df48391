SPECIFICATION Spec
CONSTANTS
  a1 = a1 a2 = a2 b1 = b1 A0 = A0 B0 = B0 k1 = k1 k2 = k2 old = old new = new
  NoOne = NoOne NoRequest = NoRequest
  Threads <- MCThreads Procs <- MCProcs ProcOf <- MCProcOf
  Ids <- MCIds Legacy = {old} Regions = {new} Asks <- TwoAsks
  CanLock = TRUE ReadMayFail = FALSE MaxVersions = 2 Stuck = {B0}
INVARIANTS MutualExclusion SaveKeepsOthers ImportedOnce
PROPERTIES AtomicSpec Answered
CHECK_DEADLOCK FALSE
