SPECIFICATION BootstrapSpec
CONSTANTS
    Families <- OneFamily
    Kinds <- EventKind
    FailingSteps <- NoFailure
    MaxVersion = 1
    MaxCount = 3
    MaxManagers = 1
    MaxAppEntries = 0
CHECK_DEADLOCK FALSE
INVARIANTS CompatibleAccepted
