CONSTANTS
  t1 = t1
  t2 = t2
  t3 = t3
  Nobody = Nobody
  Threads <- MCThreads
  Nesting <- MCNesting
  MaxDepth = 2
SPECIFICATION Spec
INVARIANTS
  MutualExclusion
  UnlockedTestStillHolds
  NoLostWakeup
PROPERTY
  ImplementsLock
