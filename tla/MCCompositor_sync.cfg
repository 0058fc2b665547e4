SPECIFICATION Spec
CONSTANTS
  Producers = {p1}
  Contexts = {c1}
  Submitters = {}
  Sizes = {1}
  Intervals = {0, 1}
  SLOTS = 3
  SOURCES = 1
  CreateMayFail = FALSE
  MaxFrames = 4
INVARIANT NoSyncLeak
CHECK_DEADLOCK FALSE
