\* What a call on packages leaves done, and what it says, while others deploy.
SPECIFICATION Spec
CONSTANTS
    f1 = f1
    f2 = f2
    Families <- MCFamilies
    MaxVersion = 2
    PackageSets <- MCPackageSets
    MaxItems = 2
    MaxChanges = 1
INVARIANTS
    SuccessMeansDone
    FailureLeavesPrefix
    ProgressTold
\* A call ends.
CHECK_DEADLOCK FALSE
