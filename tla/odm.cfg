CONSTANTS
  Saves = {s1, s2, s3}
  Edits = {s2, s3}
  Deletes = {d1, d2}
  Ids = {i1}
  Fields = {f1, f2}
  MaxInFlight = 5
  CallsMayFail = TRUE
  Zero = Zero
  None = None
SPECIFICATION Spec
SYMMETRY OpSymmetry
CHECK_DEADLOCK FALSE
INVARIANTS
  TypeOK
  UnstampedNeedsDelete
  StampsExact
PROPERTIES
  RewriteNeedsRace
  UnaskedNeedsOvertaking
