SPECIFICATION Spec
CONSTANTS
  Producers = {p1}
  Contexts = {c1, c2}
  Submitters = {q1, q2}
  Sizes = {1, 2}
  Intervals = {0, 1}
  SLOTS = 3
  SOURCES = 1
  CreateMayFail = FALSE
  MaxFrames = 3
INVARIANTS
  TypeOK
  NoTear
  DrawsShownFrame
  LiveImages
  SyncsLinear
CHECK_DEADLOCK FALSE
