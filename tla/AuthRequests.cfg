SPECIFICATION Spec
CONSTANTS
    r1 = r1
    r2 = r2
    a1 = a1
    s1 = s1
    q1 = q1
    NoOne = NoOne
    Requests <- TwoRequests
    Apps <- OneApp
    Senders <- OneSender
    States <- OneState
    Contents <- Everything
SYMMETRY Symmetric
CHECK_DEADLOCK FALSE
INVARIANTS
    AnsweredOnce
    EndTold
    PendingServed
