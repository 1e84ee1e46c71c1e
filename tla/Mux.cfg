CHECK_DEADLOCK FALSE
SPECIFICATION Spec
CONSTANTS
  NbStreams = 3
  Microsecond = 4
  Setups <- MCSetups
  MaxPackets = 3
  Steps = {0, 1, 3}
INVARIANTS
  ListIntact
  BoundedHold
  InSync
PROPERTIES
  Interleaved
