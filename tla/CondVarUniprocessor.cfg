CONSTANTS
  NTHREADS = 4
  NCVLOOPS = 2
  Nobody = Nobody
  CpuOf <- MCUniprocessor
SPECIFICATION Spec
INVARIANTS NoLostBroadcast
PROPERTY CvtestCompletes
CHECK_DEADLOCK FALSE
