SPECIFICATION DemoFairSpec
CONSTANTS
  W = 4
  Scale = 3
  Messages <- MCMessages
  Files <- MCFiles
  LiveStops = TRUE
  MaxMessages = 3
  MaxRuns = 3
CHECK_DEADLOCK FALSE
INVARIANTS
  CaptureComplete
  ReplayMatchesCapture
PROPERTY
  DemoEnds
