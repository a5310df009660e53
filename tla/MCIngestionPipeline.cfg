SPECIFICATION FairSpec
CONSTANTS
  Event = {a, b}
  NoEvent = NoEvent
  Capacity = 1
  SourceKinds = {"live", "replay"}
  ThreadsMayFail = TRUE
  MaxEvents = 4
CHECK_DEADLOCK FALSE
INVARIANTS
  Conservation
  StoppedClean
  RecorderFaithful
  DestroyedQuiet
PROPERTIES
  FinishedIsFinal
  DestructionTerminates
  EveryEventHandled
