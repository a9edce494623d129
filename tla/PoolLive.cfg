SPECIFICATION LiveSpec
CONSTANTS
    p1 = p1
    main = main
    c1 = c1
    c2 = c2
    w1 = w1
    w2 = w2
    w3 = w3
    proc1 = proc1
    proc2 = proc2
    None = None
    Projects <- MCProjects
    Branches <- MCBranches
    Callers <- TwoCallers
    Workers <- Pair
    Requests <- MCRequests
    Processes <- OneProcess
    ProcessOf <- PairOf
    LlmWorkers = 1
    MaxAttempts = 2
    MaxJobs = 2
    Crashes = FALSE
    RetryCommits = TRUE
INVARIANTS
    NoOrphan
    QueueShort
PROPERTIES
    JobsSettle
    ServedInTurn
