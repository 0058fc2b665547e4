SPECIFICATION Spec
CONSTANTS
  Producers = {p1}
  Contexts = {c1}
  Submitters = {q1}
  Sizes = {1}
  Intervals = {0, 1}
  SLOTS = 3
  SOURCES = 1
  CreateMayFail = FALSE
  MaxFrames = 2
INVARIANT LatestShown
CHECK_DEADLOCK FALSE
