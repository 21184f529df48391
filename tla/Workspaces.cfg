SPECIFICATION Spec
CONSTANTS
  Slugs = {a, b} Threads = {t1, t2, t3} NoThread = NoThread
  MaxSaves = 2 ReadMayFail = TRUE
INVARIANTS SavedStaysListed DeletedStaysGone LoadIsCurrent
SYMMETRY Symmetry
CHECK_DEADLOCK FALSE
