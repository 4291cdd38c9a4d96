SPECIFICATION Spec
CONSTANTS
  InitialSize = 2
  MaxBytes = 6
INVARIANTS
  WindowIsRest
  SameForEveryCut
  MoreIsFollowed
CHECK_DEADLOCK FALSE
