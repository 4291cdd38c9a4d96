SPECIFICATION FairSpec
CONSTANTS
  c1 = c1
  c2 = c2
  Conns <- Clients
  CheckInterval = 2
  IdleTimeout = 3
  DrainRounds = 2
CHECK_DEADLOCK FALSE
PROPERTIES
  ReapedAfterSilence
  StaysOnlyIfReads
  GracefulStop
