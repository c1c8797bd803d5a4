SPECIFICATION Spec
CONSTANTS
  Docs = {c1, c2}
  Files = {f1, f2}
  Saves = {s1, s2, s3}
  Readers = {r1}
  MaxControls = 2
  MaxFiles = 1
  Scopes = {web, api}
  Clashing = {{web, api}}
  CallsFail = TRUE
  MaxUnsure = 1
  None = None
SYMMETRY MCSymmetry
INVARIANTS
  TypeOK
  OwnerBounds
  EditsLandOnce
  EvidenceStored
CHECK_DEADLOCK FALSE
