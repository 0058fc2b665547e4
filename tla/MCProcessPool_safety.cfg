SPECIFICATION Spec
CONSTANTS
  a = a
  b = b
  Names <- TwoNames
  FirstPid = 2
  PidStride = 2
  PidLimit = 6
  SocketSize = 1
  QueueMax = 1
  TickMax = 1
  MaxCommands = 4
INVARIANTS
  TypeOK
  OneProcessPerName
  NoticeMeansGone
  RepliesLostOnlyOnSendError
  CloseCollectsAll
CHECK_DEADLOCK FALSE
