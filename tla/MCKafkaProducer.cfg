SPECIFICATION Spec
CONSTANTS
  Symbols = {s1, s2}
  QueueLimit = 2
  MaxEvents = 3
  MaxLosses = 2
SYMMETRY Symmetry
CHECK_DEADLOCK FALSE
INVARIANTS
  DeliveryAccounting
  OrderUnlessResent
PROPERTY
  PublisherSpec
