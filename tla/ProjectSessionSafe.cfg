SPECIFICATION Spec
CONSTANTS
  Ids = {i1, i2}
  Results = {r1}
  Paths = {p1}
  Threads = {t1, t2}
  Alone = {"relocate", "replace"}
  NoPath = NoPath
SYMMETRY Symmetry
INVARIANTS TypeOK SaveComplete
PROPERTY NothingDropped
CHECK_DEADLOCK FALSE
