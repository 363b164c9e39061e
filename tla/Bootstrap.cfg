SPECIFICATION FairBootstrapSpec
CONSTANTS
    Families <- OneFamily
    Kinds <- EveryKind
    FailingSteps <- AnyFailure
    MaxVersion = 2
    MaxCount = 2
    MaxManagers = 2
    MaxAppEntries = 1
CHECK_DEADLOCK FALSE
INVARIANTS
    InitializedWhole
    GrantKept
    PathEntryTemporary
PROPERTIES
    ManagersExit
