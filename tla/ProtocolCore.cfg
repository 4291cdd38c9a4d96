SPECIFICATION FairSpec
CONSTANTS
  QueueLen = 3
  GatherMaxResp = 2
  MaxRequests = 4
  Kinds <- MixedKinds
INVARIANTS
  TypeOK
  NeverPassed
  ExactlyOnePlace
  GatherNotStranded
PROPERTIES
  UsesPipeline
  Answered
  ReleasedAfterLoss
CHECK_DEADLOCK FALSE
