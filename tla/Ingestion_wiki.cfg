SPECIFICATION Spec
CONSTANTS
    p1 = p1
    main = main
    none = none
    w1 = w1
    w2 = w2
    Projects <- MCProjects
    Branches <- MCBranches
    Project = p1
    Branch = main
    NoBranch = none
    Workers <- MCWorkers
    MaxAttempts = 1
    MaxCommits = 2
    MaxFailures = 0
    AtCreation = 1
    LastCount = 1
    RetryCommits = TRUE
INVARIANT WikiComplete
CHECK_DEADLOCK FALSE
