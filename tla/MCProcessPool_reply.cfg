SPECIFICATION Spec
CONSTANTS
  a = a
  b = b
  Names <- TwoNames
  FirstPid = 2
  PidStride = 2
  PidLimit = 8
  SocketSize = 1
  QueueMax = 1
  TickMax = 1
  MaxCommands = 3
INVARIANT
  NoticeAfterReplies
CHECK_DEADLOCK FALSE
