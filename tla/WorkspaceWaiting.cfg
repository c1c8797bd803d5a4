SPECIFICATION Spec
CONSTANTS
  Requests = {r1}
  Cap = 2
  MaxMinted = 3
  Modes = {"continue", "never"}
PROPERTIES
  WaitingJobsStay
CHECK_DEADLOCK FALSE
