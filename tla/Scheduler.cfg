SPECIFICATION Spec
CONSTANTS
    NumCpus = 2
    t1 = t1
    t2 = t2
    t3 = t3
    t4 = t4
    Threads = {t1, t2, t3, t4}
    BootThread <- MCBootThread
SYMMETRY Symmetry
INVARIANTS
    StacksApart
    EveryThreadInOnePlace
    NoThreadStranded
CHECK_DEADLOCK FALSE
