SPECIFICATION FairSpec
CONSTANTS
  Readers = {r1}
  MaxStreams = 1
  MaxNodes = 3
  CallsFail = TRUE
  DeadlineFires = TRUE
  Restarts = TRUE
INVARIANTS
  TypeOK
  NeverRefused
  WorkerLeavesEnded
  ResultKept
PROPERTIES
  ImplementsJobLog
  RunEnds
  StopEndsRun
  StreamIsWhole
  StreamsClose
CHECK_DEADLOCK FALSE
