SPECIFICATION FairSpec
CONSTANTS
  InitialBackoff = 1
  MaxBackoff = 3
  CloseWakesRecv = TRUE
  HandshakeEnds = TRUE
  MaxMessages = 3
  MaxConnects = 3
  MaxFailures = 4
CHECK_DEADLOCK FALSE
INVARIANTS
  StoppedStaysClosed
  StreamValid
  Accounted
  BackoffSchedule
PROPERTIES
  SourceSpec
  StopUnblocks
  RetriesForever
