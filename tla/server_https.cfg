CONSTANTS
  Rpcs = {r1}
  Requests = {q1}
  Configs <- ManagerConfigs
SPECIFICATION FairSpec
CHECK_DEADLOCK FALSE
PROPERTIES
  HttpsServed
