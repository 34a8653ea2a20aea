CONSTANTS
  MaxRetries = 4
  BaseDelay = 2
  Durations <- MCDurations
  Deadlines <- MCDeadlines
SPECIFICATION FairSpec
CHECK_DEADLOCK FALSE
INVARIANTS
  TypeOK
  WaitBounded
PROPERTIES
  StartsSpacedOut
  Terminates
