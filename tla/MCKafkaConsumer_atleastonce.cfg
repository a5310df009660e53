SPECIFICATION FairSpec
CONSTANTS
  Partitions = {p1, p2}
  Kinds = {"event"}
  MaxMessages = 2
  MaxRuns = 2
CHECK_DEADLOCK FALSE
INVARIANTS
  AtLeastOnce
