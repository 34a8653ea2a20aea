CONSTANTS
  Replicas = {r1, r2, r3}
  Names = {"n1", "n2", "n3"}
  Definitions = {"d1", "d2"}
  Configs <- MCConfigs
  MaxFaults = 1
  None = None
  r1 = r1
  r2 = r2
  r3 = r3
SPECIFICATION FairSpec
CHECK_DEADLOCK FALSE
INVARIANTS
  TypeOK
  InPlace
  RefusalHasCause
PROPERTIES
  AllComeUp
