SPECIFICATION Spec
CONSTANTS
  Ids = {i1, i2, i3}
  Results = {r1}
  Paths = {p1}
  Threads = {t1, t2}
  Alone = {"replace"}
  NoPath = NoPath
SYMMETRY Symmetry
INVARIANT SaveComplete
CHECK_DEADLOCK FALSE
