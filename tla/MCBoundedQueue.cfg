SPECIFICATION FairSpec
CONSTANTS
  Producers = {p1, p2}
  Consumers = {c1, c2}
  Stoppers = {s1}
  Item = {a}
  NoItem = NoItem
  NoThread = NoThread
  Capacity = 2
  MaxPushes = 4
INVARIANTS
  ItemWakeupPending
  SlotWakeupPending
  ShutdownWakeupPending
PROPERTIES
  ChannelSpec
  EveryItemDelivered
  ShutdownEndsConsumers
  PushProgress
