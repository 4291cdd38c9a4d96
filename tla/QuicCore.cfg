SPECIFICATION FairSpec
CONSTANTS
  c1 = c1
  c2 = c2
  Conns <- TwoConns
  Streams <- ThreeStreams
  Frames = 2
  Replies = 1
  MaxStreams = 1
INVARIANTS
  TypeOK
  WakeupComing
  StreamOrder
  LockHeld
PROPERTIES
  EventsArrive
  SendReturns
CHECK_DEADLOCK FALSE
