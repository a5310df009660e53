SPECIFICATION FairSpec
CONSTANTS
  Event = {a}
  NoEvent = NoEvent
  Capacity = 0
  SourceKinds = {"live", "replay"}
  ThreadsMayFail = FALSE
  MaxEvents = 2
CHECK_DEADLOCK FALSE
PROPERTY
  DestructionTerminates
