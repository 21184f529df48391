SPECIFICATION Spec
CONSTANTS
  Procs = {S, P} Server = S Dirs = {d1} NoDir = NoDir S = S P = P
  Threads = {t1, t2} MaxHandles = 2 MaxImages = 2
INVARIANTS OwnedStays SweepReclaims ListedIsUsable NavDescribesRaster NothingLeaks
SYMMETRY Symmetry
CHECK_DEADLOCK FALSE
