SPECIFICATION Spec
CONSTANTS
  c1 = c1
  c2 = c2
  i0 = i0
  Streams <- TwoConnections
  Chunks = 2
INVARIANT OwnBody
CHECK_DEADLOCK FALSE
