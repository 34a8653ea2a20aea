CONSTANTS
  Names = {"a", "b"}
  MaxMessages = 2
  Sizes <- MCSizes
SPECIFICATION Spec
CHECK_DEADLOCK FALSE
INVARIANTS
  BrowserServed
