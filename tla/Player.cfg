CHECK_DEADLOCK FALSE
SPECIFICATION FairSpec
CONSTANTS
  QueueSize = 2
  MinFrames = 1
  Setups <- MCSetups
  Frames = 3
INVARIANTS
  NoTearing
PROPERTIES
  ShowOrder
  QuitTerminates
  PlayedOut
