SPECIFICATION FairSpec
CONSTANTS
  InitialBackoff = 1
  MaxBackoff = 3
  CloseWakesRecv = FALSE
  HandshakeEnds = TRUE
  MaxMessages = 3
  MaxConnects = 3
  MaxFailures = 4
CHECK_DEADLOCK FALSE
PROPERTY
  StopUnblocks
