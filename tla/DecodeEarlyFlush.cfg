SPECIFICATION Spec
CONSTANTS
  Setups <- OneFilter
  OutOfMemory = FALSE
  MaxUnits = 1
  MaxHeld = 1
  MaxFlushes = 0
INVARIANTS
  DrainComplete
