SPECIFICATION Spec
CONSTANTS
  QueueLen = 10
  MaxEntries = 4
INVARIANT
  ReferenceFollowsQueue
CHECK_DEADLOCK FALSE
