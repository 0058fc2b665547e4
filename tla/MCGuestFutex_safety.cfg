SPECIFICATION Spec
CONSTANTS
  w1 = w1
  w2 = w2
  c1 = c1
  p = p
  a1 = a1
  a2 = a2
  None = None
  Values = {0, 1}
  Many = 4
  MaxHandlers = 1
  Workers <- OneWorker
  Callbacks <- OneCallback
  Pumps <- OnePump
  Addrs <- TwoWords
  Timed <- WorkerAndCallback
  Signalled <- OneWorker
  Pollers <- OneWorker
SYMMETRY Symmetry
INVARIANTS
  Counted
  Listed
  TokensBacked
  WakeReaches
CHECK_DEADLOCK FALSE
