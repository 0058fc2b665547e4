SPECIFICATION FairSpec
CONSTANTS
  a = a
  b = b
  Ends <- TwoEnds
  Sizes = {0, 2}
  HeaderSize = 2
  QueueMax = 4
  SocketSize = 3
  TickMax = 2
  MaxSends <- Sends
INVARIANTS
  TypeOK
  InOrder
  QueueAccounted
  FramingHolds
PROPERTIES
  LastPacketsArrive
  Arrives
CHECK_DEADLOCK FALSE
