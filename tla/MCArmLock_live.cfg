SPECIFICATION FairSpec
CONSTANTS
  t1 = t1
  t2 = t2
  t3 = t3
  Threads <- MCThreads
  NoThread = NoThread
  Labels = {0}
  MaxGuards = 1
  MaxGaps = 0
PROPERTIES
  AcquireReturns
