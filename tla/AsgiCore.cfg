SPECIFICATION HttpFairSpec
CONSTANTS
  c1 = c1
  i0 = i0
  i4 = i4
  Streams <- Requests
  Chunks = 2
  Bodies = 2
INVARIANTS
  OwnBody
  EntriesAreTasks
  ResponsesHandedOver
PROPERTIES
  BodyEnds
CHECK_DEADLOCK FALSE
