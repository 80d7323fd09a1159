CONSTANTS
  MaxSp = 4
  QSIZE = 40
  NBP = 2
  SNAPINFLIGHT = 4
  LDNBUF = 4
  NoPart = NoPart
  DRAINED = TRUE
  Jobs <- MCJobs
  Files <- MCFiles
SPECIFICATION Spec
INVARIANTS Transparent VideoRestored NothingHalfDone
PROPERTIES NeverPassed CopiesExact
CHECK_DEADLOCK FALSE
