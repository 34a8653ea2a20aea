CONSTANTS
  Rpcs = {r1}
  Requests = {q1}
  Configs <- MixedConfigs
SPECIFICATION FairSpec
CHECK_DEADLOCK FALSE
INVARIANTS
  TypeOK
  ReturnedIsQuiet
  SentinelMeansAsked
  ClientOutlivesHandlers
PROPERTIES
  ImplementsService
  DoneReturns
  ShutdownReturns
  LeftoverEnds
