SPECIFICATION FairSpec
CONSTANTS
  Partitions = {p1, p2}
  Kinds = {"event", "malformed", "overflow"}
  MaxMessages = 2
  MaxRuns = 2
CHECK_DEADLOCK FALSE
INVARIANTS
  CountsAgree
  LossBound
  RedeliveryBound
PROPERTIES
  EveryMessageHandled
  ShutdownTerminates
