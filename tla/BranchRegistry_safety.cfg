SPECIFICATION Spec
CONSTANTS
    main = main
    dev = dev
    w1 = w1
    c1 = c1
    None = None
    Branches <- MCBranches
    Head = main
    Workers <- MCWorkers
    Callers <- MCCallers
    MaxCommit = 2
INVARIANTS
    RegistryTypeOK
    DefaultIncluded
    WhitelistAccounted
PROPERTY SyncKeepsOthers
