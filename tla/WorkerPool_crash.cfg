SPECIFICATION FairPoolSpec
CONSTANTS
    p1 = p1
    main = main
    c1 = c1
    w1 = w1
    w2 = w2
    w3 = w3
    proc1 = proc1
    proc2 = proc2
    None = None
    Projects <- MCProjects
    Branches <- MCBranches
    Callers <- MCCallers
    Workers <- Pair
    Requests <- MCRequests
    Processes <- OneProcess
    ProcessOf <- PairOf
    LlmWorkers = 1
    MaxAttempts = 2
    MaxJobs = 1
    Crashes = TRUE
    RetryCommits = TRUE
PROPERTY CrashHealed
