SPECIFICATION AsSpec
CONSTANTS
    cm_entries = 4
    ChunkSizes = {2}
    p1 = p1
    p2 = p2
    Procs = {p1, p2}
    PAGE_SIZE = 2
    AddrMod = 12
    CodeStart = 2
    ProgramPages = {1, 2}
    STACK_BASE = 10
    USERSTACK = 12
    Amounts = {3}
    PTABLE_ARRAY_SIZE = 1
CONSTRAINT Undamaged
SYMMETRY Symmetry
INVARIANTS
    
    NoFrameLeaked
    HeapBacked
    
CHECK_DEADLOCK FALSE
