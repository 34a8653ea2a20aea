CONSTANTS
  Replicas = {r1, r2}
  Apps = {r1}
  Tokens = {tok}
  Challenges <- MCChallenges
  Hosts = {h1, h2}
  Configs <- MCConfigs
  MaxAttempts = 2
  Foreign = Foreign
  r1 = r1
  r2 = r2
  h1 = h1
  h2 = h2
  tok = tok
SPECIFICATION FairSpec
CHECK_DEADLOCK FALSE
INVARIANTS
  TypeOK
  ReadsWhole
  SameCertificate
PROPERTIES
  PanicNeedsRace
  PrefetchEnds
