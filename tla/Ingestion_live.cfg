SPECIFICATION FairAnySpec
CONSTANTS
    p1 = p1
    main = main
    none = none
    w1 = w1
    w2 = w2
    Projects <- MCProjects
    Branches <- MCBranches
    Project = p1
    Branch = main
    NoBranch = none
    Workers <- MCWorkers
    MaxAttempts = 2
    MaxCommits = 2
    MaxFailures = 1
    AtCreation = 2
    LastCount = 1
    RetryCommits = TRUE
PROPERTIES
    Onboarded
    PushIndexed
CHECK_DEADLOCK FALSE
