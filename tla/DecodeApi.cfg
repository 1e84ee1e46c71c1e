SPECIFICATION FairSpec
CONSTANTS
  Setups <- AllSetups
  OutOfMemory = TRUE
  MaxUnits = 2
  MaxHeld = 1
  MaxFlushes = 1
INVARIANTS
  InOrder
  LoopDrainComplete
  DrainEndsOnce
  ReadyAccepts
  CompatInSync
PROPERTIES
  CallReturns
