CHECK_DEADLOCK FALSE
SPECIFICATION Spec
CONSTANTS
  QueueSize = 2
  MinFrames = 1
  Setups <- MCSetups
  Frames = 3
INVARIANT TargetsOrdered
