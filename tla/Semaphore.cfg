CONSTANTS
  t1 = t1
  t2 = t2
  t3 = t3
  Nobody = Nobody
  Threads <- MCThreads
  InitialCount = 1
  MaxV = 3
SPECIFICATION Spec
INVARIANTS SleepersAccountedFor NoLostWakeup
PROPERTY ImplementsSemaphore
CHECK_DEADLOCK FALSE
