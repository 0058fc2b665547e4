SPECIFICATION Spec
CONSTANTS
  Producers = {p1, p2}
  Contexts = {c1, c2}
  Submitters = {}
  Sizes = {1}
  Intervals = {0, 1}
  SLOTS = 3
  SOURCES = 2
  CreateMayFail = FALSE
  MaxFrames = 6
INVARIANT NoTear
CHECK_DEADLOCK FALSE
