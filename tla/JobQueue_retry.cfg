SPECIFICATION Spec
CONSTANTS
    p1 = p1
    p2 = p2
    main = main
    NoBranch = NoBranch
    c1 = c1
    c2 = c2
    w1 = w1
    w2 = w2
    None = None
    Projects <- MCProjects
    Branches <- MCBranches
    Callers <- MCCallers
    Workers <- MCWorkers
    Requests <- LiveRequests
    MaxAttempts = 2
    MaxJobs = 3
    Crashes = FALSE
    RetryCommits = FALSE
INVARIANT RetryAccepted
CHECK_DEADLOCK FALSE
