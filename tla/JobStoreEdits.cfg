SPECIFICATION Spec
CONSTANTS
  Jobs = {j1, j2}
  Identities = {i1}
  Owners = {o1}
  Requests = {r1}
  Batches = {b1}
  Titles = {t1}
  Refusals = {x1}
  NoJob = NoJob
  NoOwner = NoOwner
  NoTitle = NoTitle
  NoRefusal = NoRefusal
  Ceiling = 2
  MaxJobs = 2
  OwnerTokens = 9
  GlobalTokens = 9
  Window = 0
  Reserved = 1
  Spends = {0}
  StoreFails = TRUE
  Modes = {"ask", "continue"}
  Endings = {"failed"}
  MaxRevision = 1
  MaxClock = 0
SYMMETRY Symmetry
INVARIANTS
  TypeOK
  WorkerOwnsRun
PROPERTIES
  EndedStaysEnded
  NothingLost
CHECK_DEADLOCK FALSE
