SPECIFICATION Spec
CONSTANTS
    p1 = p1
    p2 = p2
    main = main
    NoBranch = NoBranch
    c1 = c1
    c2 = c2
    w1 = w1
    w2 = w2
    None = None
    Projects <- MCProjects
    Branches <- MCBranches
    Callers <- MCCallers
    Workers <- MCWorkers
    Requests <- MCRequests
    MaxAttempts = 2
    MaxJobs = 3
    Crashes = TRUE
    RetryCommits = TRUE
SYMMETRY Symmetry
INVARIANTS
    TypeOK
    WriteSerial
    OwnsRunning
    ExclusiveExecution
    AttemptsBounded
    RequestsCovered
PROPERTY Lifecycle
CHECK_DEADLOCK FALSE
