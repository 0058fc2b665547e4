SPECIFICATION Spec
CONSTANTS
  Producers = {p1}
  Contexts = {c1}
  Submitters = {}
  Sizes = {1, 2}
  Intervals = {0}
  SLOTS = 3
  SOURCES = 1
  CreateMayFail = TRUE
  MaxFrames = 5
INVARIANT LiveImages
CHECK_DEADLOCK FALSE
