SPECIFICATION FairSpec
CONSTANTS
  Sinks <- MCSinks
  QueueCap = 1
  BatchSize = 2
  Sample = 2
  Aggregates <- MCAggregates
  Kinds <- MCKinds
  Slots <- MCSlots
  MaxEvents = 6
  MaxFaults = 2
INVARIANTS Accounted NoSendOnClosed
PROPERTY ShutdownEnds
CHECK_DEADLOCK FALSE
