SPECIFICATION Spec
CONSTANTS
  MaxThreads = 3
  Setups <- MCSetups
INVARIANTS
  OutputComplete
  UserContext
PROPERTIES
  KeepsDelayLine
