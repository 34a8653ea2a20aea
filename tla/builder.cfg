CONSTANTS
  a = a
  b = b
  c = c
  Types <- MCTypes
  MaxDepth = 5
  MaxBuilds = 2
  Inputs <- MCInputs
  Malformed <- MCMalformed
  Overlapping <- MCOverlapping
SPECIFICATION FairSpec
CHECK_DEADLOCK FALSE
INVARIANTS
  TypeOK
  OneInstance
  OutcomeRight
  RoutesRegistered
PROPERTIES
  BuilderSpent
  BuildReturns
