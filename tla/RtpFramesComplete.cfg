CONSTANTS
  SEQ_MOD = 16
  TS_MOD = 16
  MaxDropout = 5
  MaxMisorder = 3
  NackBits = 3
  Setups <- MCSetups
  LastPacket = 6
  Gap = 6
  Late = 2
SPECIFICATION FairSpec
PROPERTY FramesComplete
