SPECIFICATION FairSpec
CONSTANTS
  Producers = {p1}
  Contexts = {c1}
  Submitters = {q1}
  Sizes = {1}
  Intervals = {1}
  SLOTS = 3
  SOURCES = 1
  CreateMayFail = FALSE
  MaxFrames = 4
INVARIANTS
  CompAwake
  WaitsOnlyWhileQueued
PROPERTIES
  SubmitReturns
  FrameReachesScreen
CHECK_DEADLOCK FALSE
