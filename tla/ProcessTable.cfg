CONSTANTS
  NThreads = 4
  PROC_MAX = 3
  PID_MAX = 3
  ForkPermits = 1
  ExecPermits = 1
  MaxForks = 3
  MaxExecs = 1
  MaxForking = 2
  NULL = NULL
SPECIFICATION Spec
INVARIANTS PidsUniqueUnlessOverlap PickedSlotStillMine ForkPermitsAccounted
PROPERTY WaiterReturns
CHECK_DEADLOCK FALSE
