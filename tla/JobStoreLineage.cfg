SPECIFICATION Spec
CONSTANTS
  Jobs = {j1, j2, j3}
  Identities = {i1}
  Owners = {o1}
  Requests = {r1, r2}
  Batches = {b1}
  Titles = {}
  Refusals = {}
  NoRefusal = NoRefusal
  NoJob = NoJob
  NoOwner = NoOwner
  NoTitle = NoTitle
  Ceiling = 2
  MaxJobs = 3
  OwnerTokens = 9
  GlobalTokens = 9
  Window = 0
  Reserved = 1
  Spends = {}
  StoreFails = FALSE
  Modes = {"ask", "continue", "never"}
  Endings = {"stopped"}
  MaxRevision = 1
  MaxClock = 0
SYMMETRY Symmetry
INVARIANTS
  OneLockingChild
  NoMissedBatch
  ParentOutlivesRun
  LineageInv
CHECK_DEADLOCK FALSE
