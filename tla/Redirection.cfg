SPECIFICATION FairSpec
CONSTANTS
    p1 = p1
    p2 = p2
    r1 = r1
    r2 = r2
    r3 = r3
    Requests <- MCRequests
    Procs <- MCProcs
    Owner <- MCOwner
    NoRequest = NoRequest
CHECK_DEADLOCK FALSE
CONSTANT Mortal <- Everybody
INVARIANTS NoLostWakeup WaitEndsAfterActivation RaisedOnceInOrder
PROPERTIES RequestsProgress
