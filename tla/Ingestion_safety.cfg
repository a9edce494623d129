SPECIFICATION AnySpec
CONSTANTS
    p1 = p1
    main = main
    none = none
    w1 = w1
    w2 = w2
    Projects <- MCProjects
    Branches <- MCBranches
    Project = p1
    Branch = main
    NoBranch = none
    Workers <- MCWorkers
    MaxAttempts = 1
    MaxCommits = 2
    MaxFailures = 1
    AtCreation = 1
    LastCount = 1
    RetryCommits = TRUE
SYMMETRY Symmetry
INVARIANTS
    IngestTypeOK
    IndexAccounted
    ReportsHaveData
    IndexingExplained
PROPERTY IndexUndisturbed
CHECK_DEADLOCK FALSE
