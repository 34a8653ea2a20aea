CONSTANTS
  Replicas = {r1, r2}
  Apps = {}
  Tokens = {}
  Challenges = {}
  Hosts = {h1, h2}
  Configs <- EmptyConfigs
  MaxAttempts = 2
  Foreign = Foreign
  r1 = r1
  r2 = r2
  h1 = h1
  h2 = h2
  tok = tok
SPECIFICATION Spec
CHECK_DEADLOCK FALSE
INVARIANTS
  FirstCertificate
