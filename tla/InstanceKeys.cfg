SPECIFICATION Spec
CONSTANTS
    p1 = p1
    p2 = p2
    p3 = p3
    k1 = k1
    k2 = k2
    NoKey = NoKey
    None = None
    Pool = Pool
    Slots = 3
    Procs <- MCProcs
    Keys <- MCKeys
    MaxCalls <- Once
    Quitting <- First
    Unregistering <- First
    Detaching <- First
SYMMETRY Symmetry
CHECK_DEADLOCK FALSE
INVARIANTS KeyOwnership FindCorrect HoldersNeverWait
