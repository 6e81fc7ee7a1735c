SPECIFICATION Spec
CONSTANTS
    c1 = c1
    c2 = c2
    Clients = {c1, c2}
    n1 = n1
    n2 = n2
    Names = {n1, n2}
    SlotsPerBlock = 3
    PerIndirect = 1
    LastBlock = 5
    MaxFaults = 1
CONSTRAINT NotTainted
SYMMETRY Symmetry

INVARIANTS
    
    
    
    UnmountLeavesSound
    
CHECK_DEADLOCK FALSE
