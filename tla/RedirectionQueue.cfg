SPECIFICATION FairSpec
CONSTANTS
    w1 = w1
    w2 = w2
    i1 = i1
    i2 = i2
    i3 = i3
    Writers <- MCWriters
    Ids <- MCIds
    NullId = null
    Size = 2
CHECK_DEADLOCK FALSE
INVARIANTS WellFormed
PROPERTIES ImplementsFifo EnqueueReturns
