SPECIFICATION Spec
CONSTANTS
  t1 = t1
  t2 = t2
  t3 = t3
  Threads <- MCThreads
  NoThread = NoThread
  Labels = {0}
  MaxGuards = 2
  MaxGaps = 1
SYMMETRY Symmetry
INVARIANTS
  TypeOK
  MutualExclusion
  DepthMatchesGuards
  NoLostWakeup
  NodeInUse
  WaitersCounted
PROPERTIES
  FifoOrder
