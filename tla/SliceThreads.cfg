SPECIFICATION FairSpec
CONSTANTS
  Workers = {w1, w2, w3}
  MaxJobs = 4
  MaxExecutes = 2
INVARIANTS
  ThreadNrDistinct
PROPERTIES
  KeepsPromise
  ExecuteReturns
  FreeTerminates
