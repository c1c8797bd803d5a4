SPECIFICATION Spec
CONSTANTS
  Jobs = {j1, j2, j3}
  Identities = {i1, i2}
  Owners = {o1, o2}
  Requests = {r1, r2}
  Batches = {}
  Titles = {}
  Refusals = {}
  NoJob = NoJob
  NoOwner = NoOwner
  NoTitle = NoTitle
  NoRefusal = NoRefusal
  Ceiling = 1
  MaxJobs = 2
  OwnerTokens = 3
  GlobalTokens = 4
  Window = 1
  Reserved = 1
  Spends = {3}
  StoreFails = FALSE
  Modes = {"never"}
  Endings = {}
  MaxRevision = 0
  MaxClock = 2
SYMMETRY Symmetry
INVARIANTS
  CeilingHeld
  RateHeld
PROPERTIES
  AdmittedInBudget
CHECK_DEADLOCK FALSE
