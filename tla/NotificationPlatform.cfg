SPECIFICATION Spec
CONSTANTS
    a1 = a1
    a2 = a2
    t1 = t1
    t2 = t2
    t3 = t3
    None = None
    Apps <- MCApps
    Threads <- MCThreads
    AppOf <- MCAppOf
    OpsOf <- MCOpsOf
    Calls <- MCCalls
    Either <- MCEither
    Packaged <- Second
    Handling <- First
    MaxIds = 3
    MaxStarts = 2
    MaxTries = 1
    MaxEnds <- MCEnds
    MaxNotes = 1
CHECK_DEADLOCK FALSE
INVARIANTS TrackedStays PlatformStarts RegistrationsKept QuietAfterUnregister
PROPERTIES UnregisterAllForgets
