SPECIFICATION Spec
CONSTANTS
  QueueLen = 10
  GatherMaxResp = 24
  MaxRequests = 3
  Kinds <- OnlyCoro
INVARIANT
  StrictOrder
CHECK_DEADLOCK FALSE
