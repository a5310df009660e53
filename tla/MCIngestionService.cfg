SPECIFICATION ServiceFairSpec
CONSTANTS
  Event = {a}
  NoEvent = NoEvent
  Capacity = 1
  SourceKinds = {"live", "replay"}
  ThreadsMayFail = FALSE
  MaxEvents = 2
  MaxReports = 1
CHECK_DEADLOCK FALSE
INVARIANTS
  FinalStatsAddUp
  ReportTruthful
  DeathLoss
PROPERTY
  ServiceEnds
