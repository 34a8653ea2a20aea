-------------------------- MODULE MCOdmCollection --------------------------
EXTENDS OdmCollection, TLC

OpSymmetry ==
  Permutations(Edits) \cup Permutations(Saves \ Edits) \cup Permutations(Deletes) \cup Permutations(Fields)
=============================================================================
