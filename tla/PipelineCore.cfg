SPECIFICATION FairSpec
CONSTANTS
  QueueLen = 3
  MaxEntries = 5
INVARIANTS
  WindowContiguous
  InOrder
  NothingSkipped
  WakeupPending
  NoReferenceLeak
PROPERTIES
  ImplementsPromise
  HandedOn
CHECK_DEADLOCK FALSE
