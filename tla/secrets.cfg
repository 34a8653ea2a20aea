CONSTANTS
  p1 = p1
  p2 = p2
  None = None
  Prod = Prod
  Exported = Exported
  File = File
  Processes = {p1, p2}
  Files <- MCFiles
  Exports <- MCExports
  Sections = {Prod}
  Listed = {"ACCESS-SECRET", "API-KEY"}
  MaxVersion = 2
  MaxTokens = 1
SPECIFICATION Spec
SYMMETRY ProcessSymmetry
CHECK_DEADLOCK FALSE
INVARIANTS
  TypeOK
  RejectionNeedsCause
  StaleNeedsCause
