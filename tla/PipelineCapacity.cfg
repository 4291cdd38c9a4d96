SPECIFICATION Spec
CONSTANTS
  QueueLen = 10
  MaxEntries = 11
INVARIANT
  AlwaysASlot
CHECK_DEADLOCK FALSE
