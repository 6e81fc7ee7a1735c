CONSTANTS
  NTHREADS = 4
  NCVLOOPS = 2
  Nobody = Nobody
  CpuOf <- MCMultiprocessor
SPECIFICATION Spec
INVARIANT NoLostBroadcast
CHECK_DEADLOCK FALSE
