SPECIFICATION ResolutionSpec
CONSTANTS
    Family <- MCFamily
    Version <- MCVersion
    Architecture <- MCArchitecture
    Neutral = "neutral"
    Current = "x86"
    Filters <- MCFilters
    MinVersion = 1
    NoPackage = "none"
    MaxContexts = 2
    MaxChanges = 2
CHECK_DEADLOCK FALSE
INVARIANTS NotFoundMeansNone HighestVersionFiltered
