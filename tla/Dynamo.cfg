SPECIFICATION Spec
CONSTANTS
    N = 5
    NodeHash <- MCNodeHash
    LastNode = 4
    KeyHash <- MCKeyHash
    k1 = k1
    k2 = k2
    Clients = {0, 3}
    Fallible = {0}
    MaxCalls = 2
    MaxCrashes = 1
    MaxTimeouts = 1
    None = None
INVARIANTS
    StoredOnlyOnReplicas
    AnswersTheQuestion
    QuietCopiesAreRight
    NoWaiterForgotten
CHECK_DEADLOCK FALSE
