SPECIFICATION FairListSpec
CONSTANTS
    p1 = p1
    p2 = p2
    p3 = p3
    Free = Free
    Pids <- MCPids
    Size = 2
    Ending <- MCEnding
    Looking <- MCLooking
CHECK_DEADLOCK FALSE
INVARIANTS ListConsistent
PROPERTIES EndedLeavesList
