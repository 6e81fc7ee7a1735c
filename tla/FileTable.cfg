SPECIFICATION Spec
CONSTANTS
    p1 = p1
    p2 = p2
    f1 = f1
    con = con
    h1 = h1
    h2 = h2
    NULL = NULL
    Procs = {p1, p2}
    Boot = p1
    Files = {f1}
    Console = con
    Dirs = {f1}
    OpenMax = 2
    StdFds = {0}
    Handles = {h1, h2}
    MaxOffset = 1
    MaxLost = 1
CONSTRAINT NotRaced
INVARIANTS
    NoDanglingHandle
    CountIsReferences
    OffsetHeldDuringIO
    VnodeCountsMatch
CHECK_DEADLOCK FALSE
