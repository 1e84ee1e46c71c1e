CONSTANTS
  SEQ_MOD = 12
  TS_MOD = 12
  MaxDropout = 5
  MaxMisorder = 3
  NackBits = 3
  Setups <- MCSetups
  LastPacket = 6
  Gap = 6
  Late = 2
SPECIFICATION FairSpec
INVARIANTS
  QueueWaits
  NackExact
  ExpectedExact
  PtsExact
PROPERTIES
  ParsedInOrder
  QueueDrains
