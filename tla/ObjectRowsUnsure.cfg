SPECIFICATION Spec
CONSTANTS
  Jobs = {j1}
  Readers = {}
  CallsFail = TRUE
INVARIANTS
  RowsNameObjects
CHECK_DEADLOCK FALSE
