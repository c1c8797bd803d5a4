SPECIFICATION Spec
CONSTANTS
  Requests = {r1}
  Cap = 2
  MaxMinted = 3
  Modes = {"ask", "continue"}
INVARIANTS
  TypeOK
PROPERTIES
  AskedJobsStay
  ContinueIsSettled
CHECK_DEADLOCK FALSE
