SPECIFICATION Spec
CONSTANTS
  a1 = a1 a2 = a2 b1 = b1 A0 = A0 B0 = B0 k1 = k1 k2 = k2 old = old new = new
  NoOne = NoOne NoRequest = NoRequest
  Threads <- MCOneServer Procs = {A0} ProcOf <- MCOneOf
  Ids <- MCIds Legacy = {old} Regions = {new} Asks <- AllAsks
  CanLock = FALSE ReadMayFail = TRUE MaxVersions = 2 Stuck = {}
INVARIANTS MutualExclusion 
PROPERTY Answered
CHECK_DEADLOCK FALSE
