SPECIFICATION FairSpec
CONSTANTS
  MaxThreads = 2
  Setups <- HwaccelSetups
INVARIANTS
  ContextChain
  HwaccelExclusion
PROPERTIES
  CallReturns
