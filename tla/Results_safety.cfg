SPECIFICATION Spec
CONSTANTS
    Keys = {k1, k2}
    ScannerOf <- EveryScanner
    Enabled = {"gitleaks", "semgrep"}
    Tags = {t1, t2, t3}
    Scanners = {w1, w2}
    NoScan = NoScan
    UserStatuses = {"new", "ignored"}
    Branches = {b1, b2}
    Contents = {k1, k2}
    Modules = {m1, m2}
    NoModule = NoModule
    NoBranch = NoBranch
    Builders = {w1, w2}
    RecallK = 2
    SourceFiles = {"main.py", "src/a.py", "src/b.py"}
    Directory <- Directories
    GraphBuilders = {w1, w2}
    GraphReaders = {reader}
    MaxGraphs = 2
    Requests = {w1, w2}
    SuggestTTL = 2
    RecentLimit = 2
    PromptLimit = 1
    MaxTime = 3
    MaxAnalyses = 3
    Usernames = {"admin", "dev"}
    Admin = "admin"
    AccessIds = {p1, p2, gone}
    NoProject = {gone}
    Clients = {w1, w2}
    Nobody = Nobody
    Persons = {i1, i2, i3}
    NoPerson = NoPerson
    MaxLines = 4
    MaxFile = 6
    MaxLog = 4
    MaxDay = 21
SYMMETRY Symmetry
INVARIANTS
    BaselineCompared
    Searchable
    
    OneGraph
    SuggestionsFresh
    AccessWhole
    Represented
    ChunksCover
    LogConserved
    WeeksTile
    QualityFair
PROPERTIES
    OnlyTheGone
CHECK_DEADLOCK FALSE
