SPECIFICATION MCSpec
CONSTANTS
    p1 = p1
    main = main
    NoBranch = NoBranch
    c1 = c1
    w1 = w1
    w2 = w2
    None = None
    Projects <- MCProjects
    Branches <- MCBranches
    Callers <- MCCallers
    Workers <- MCWorkers
    Requests <- MCRequests
    CliProject = p1
    MaxAttempts = 2
    MaxJobs = 2
    Crashes = FALSE
    RetryCommits = TRUE
INVARIANT CliExclusive
CHECK_DEADLOCK FALSE
