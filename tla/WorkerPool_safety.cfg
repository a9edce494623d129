SPECIFICATION PoolSpec
CONSTANTS
    p1 = p1
    main = main
    c1 = c1
    w1 = w1
    w2 = w2
    w3 = w3
    proc1 = proc1
    proc2 = proc2
    None = None
    Projects <- MCProjects
    Branches <- MCBranches
    Callers <- MCCallers
    Workers <- MCWorkers
    Requests <- MCRequests
    Processes <- MCProcesses
    ProcessOf <- MCProcessOf
    LlmWorkers = 1
    MaxAttempts = 2
    MaxJobs = 2
    Crashes = TRUE
    RetryCommits = TRUE
SYMMETRY Symmetry
INVARIANTS
    PoolTypeOK
    SemaphoreConserved
    LlmLimited
    ThreadsAccount
    
