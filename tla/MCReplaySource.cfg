SPECIFICATION Spec
CONSTANTS
  W = 4
  Scale = 3
  Files <- MCFiles
CHECK_DEADLOCK FALSE
INVARIANTS
  ReplayFaithful
  RecaptureStable
PROPERTIES
  FalseIsFinal
  SourceSpec
