SPECIFICATION Spec
CONSTANTS
  t1 = t1
  t2 = t2
  t3 = t3
  Threads <- TwoThreads
  NoThread = NoThread
  Labels = {0, 1}
  MaxGuards = 1
  MaxGaps = 2
PROPERTIES
  LabelResumes
