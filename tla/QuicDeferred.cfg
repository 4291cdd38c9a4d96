SPECIFICATION Spec
CONSTANTS
  c1 = c1
  c2 = c2
  Conns <- TwoConns
  Streams <- OneStream
  Frames = 2
  Replies = 1
  MaxStreams = 61
INVARIANT
  DeferredIsKept
CHECK_DEADLOCK FALSE
