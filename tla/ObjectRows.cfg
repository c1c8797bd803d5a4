SPECIFICATION FairSpec
CONSTANTS
  Jobs = {j1}
  Readers = {r1}
  CallsFail = TRUE
INVARIANTS
  TypeOK
  NamedIsStored
  ReadsAreWhole
PROPERTIES
  OrphansGo
CHECK_DEADLOCK FALSE
