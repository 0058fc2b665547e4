SPECIFICATION FairSpec
CONSTANTS
  a = a
  b = b
  Names <- TwoNames
  FirstPid = 2
  PidStride = 2
  PidLimit = 7
  SocketSize = 1
  QueueMax = 1
  TickMax = 1
  MaxCommands = 2
PROPERTIES
  CommandResolved
  DeathReported
CHECK_DEADLOCK FALSE
