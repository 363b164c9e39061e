SPECIFICATION Spec
CONSTANTS
    fwk1 = fwk1
    fwk2 = fwk2
    d1 = d1
    Packages <- MCPackages
    Ranks <- MCRanks
    Dirs <- MCDirs
    MaxContext = 3
    MaxRevision = 4
    MaxPath = 2
    Failures <- AnyFailure
    AppResets = TRUE
CHECK_DEADLOCK FALSE
INVARIANTS GraphSorted PathServesGraph ContextsUsable
PROPERTIES CollisionOrder RevisionTracksGraph
