CONSTANTS
  t1 = t1
  t2 = t2
  t3 = t3
  NoThread = NoThread
  RWThreads <- MCThreads
  max_readers = 3
  MaxRounds = 2
SPECIFICATION RWSpec
INVARIANTS WriterExcludesAll
PROPERTY EveryCallServed
CHECK_DEADLOCK FALSE
