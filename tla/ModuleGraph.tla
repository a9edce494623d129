---------------------------- MODULE ModuleGraph ----------------------------
(***************************************************************************)
(* The module graph of one branch, as the built-in parser writes it (with  *)
(* code-review-graph installed, its file is the engine's affair), and its  *)
(* readers: the dashboard, the wiki, analyses, scans and answers, which    *)
(* ask several questions of one connection while builds go on.  The queue  *)
(* runs one build of a branch at a time, the CLI builds beside it.         *)
(***************************************************************************)
EXTENDS Naturals, FiniteSets

CONSTANTS
    SourceFiles,    \* source files a worktree may have
    Directory,      \* the module of each, from its path
    GraphBuilders,  \* the worker's thread and the CLI
    GraphReaders,   \* threads that use a GraphStore
    MaxGraphs       \* bound on the database files that builds create

ASSUME ModuleGraphAssumption ==
    IsFiniteSet(SourceFiles) /\ DOMAIN Directory = SourceFiles /\ MaxGraphs \in Nat

VARIABLES
    created,  \* database files there have been
    path,     \* the file that is at graph_db_path, 0 for none
    graphs,   \* graphs[n]: the tables of the n-th file and their committed rows
    parser,   \* parser[b]: how far build b is, and the file it has open
    shared,   \* history: files that a build opened after another had created them
    session   \* session[r]: the file that reader r has open, and what it was told last

graphVars == <<created, path, graphs, parser, shared, session>>

\* Rows of the table modules: how many files each module has.
Counted(files) ==
    [d \in {Directory[f] : f \in files} |-> Cardinality({f \in files : Directory[f] = d})]

NoRows == [tables |-> {}, files |-> {}, modules |-> Counted({})]
AtRest == [at |-> "idle", file |-> 0]
Closed == [open |-> 0, files |-> {}, modules |-> Counted({})]

GraphInit ==
    /\ created = 0 /\ path = 0
    /\ graphs = [n \in 1..MaxGraphs |-> NoRows]
    /\ parser = [b \in GraphBuilders |-> AtRest]
    /\ shared = {}
    /\ session = [r \in GraphReaders |-> Closed]

Proceeds(b, at, file) == parser' = [parser EXCEPT ![b] = [at |-> at, file |-> file]]

\* Mutant: the old file is not removed but written into.
Unlink_kept(b) ==
    /\ parser[b].at = "idle"
    /\ Proceeds(b, "connect", created)
    /\ UNCHANGED <<created, path, graphs, shared, session>>

\* Whoever has the old file open keeps it.  Until it connects, the build has no file;
\* the model notes the last one there was when it began.
Unlink(b) ==
    /\ parser[b].at = "idle"
    /\ path' = 0
    /\ Proceeds(b, "connect", created)
    /\ UNCHANGED <<created, graphs, shared, session>>

\* sqlite3.connect creates the file, unless another build has done so meanwhile.
Connect(b) ==
    /\ parser[b].at = "connect"
    /\ \/ /\ path = 0 /\ created < MaxGraphs
          /\ created' = created + 1 /\ path' = created + 1
          /\ Proceeds(b, "create", created + 1)
          /\ UNCHANGED shared
       \/ /\ path # 0
          /\ Proceeds(b, "create", path)
          /\ shared' = IF path > parser[b].file THEN shared \cup {path} ELSE shared
          /\ UNCHANGED <<created, path>>
    /\ UNCHANGED <<graphs, session>>

\* executescript commits each CREATE TABLE: "modules" is the first, "files" the last.
CreateTable(b, t) ==
    LET n == parser[b].file IN
    /\ parser[b].at = "create"
    /\ t = "files" => "modules" \in graphs[n].tables
    /\ graphs' = [graphs EXCEPT ![n].tables = @ \cup {t}]
    /\ Proceeds(b, IF t = "files" THEN "fill" ELSE "create", n)
    /\ UNCHANGED <<created, path, shared, session>>

Over(old, new) ==
    [d \in DOMAIN old \cup DOMAIN new |-> IF d \in DOMAIN new THEN new[d] ELSE old[d]]

\* All INSERTs are one transaction, and replace the rows of the same key.
Fill(b, tree) ==
    LET n == parser[b].file IN
    /\ parser[b].at = "fill"
    /\ graphs' = [graphs EXCEPT ![n] = [tables |-> @.tables, files |-> @.files \cup tree,
                                        modules |-> Over(@.modules, Counted(tree))]]
    /\ Proceeds(b, "idle", 0)
    /\ UNCHANGED <<created, path, shared, session>>

\* A file cannot be read, another build has the database locked, or the process is
\* killed: what was committed stays.
BuildBreaks(b) ==
    /\ parser[b].at # "idle"
    /\ Proceeds(b, "idle", 0)
    /\ UNCHANGED <<created, path, graphs, shared, session>>

\* GraphStore(project, branch); without a file it raises and the reader goes without.
OpenGraph(r) ==
    /\ session[r] = Closed
    /\ path # 0
    /\ session' = [session EXCEPT ![r].open = path]
    /\ UNCHANGED <<created, path, graphs, parser, shared>>

ReadModules(r) ==
    /\ session[r].open # 0
    /\ "modules" \in graphs[session[r].open].tables
    /\ session' = [session EXCEPT ![r].modules = graphs[session[r].open].modules]
    /\ UNCHANGED <<created, path, graphs, parser, shared>>

\* modules_for_files and all_files
ReadFiles(r) ==
    /\ session[r].open # 0
    /\ "files" \in graphs[session[r].open].tables
    /\ session' = [session EXCEPT ![r].files = graphs[session[r].open].files]
    /\ UNCHANGED <<created, path, graphs, parser, shared>>

\* The reader is done, or a table it asks for is not there yet and it raises.
CloseGraph(r) ==
    /\ session[r].open # 0
    /\ session' = [session EXCEPT ![r] = Closed]
    /\ UNCHANGED <<created, path, graphs, parser, shared>>

GraphNext ==
    \/ \E b \in GraphBuilders :
          \/ Unlink(b) \/ Connect(b) \/ BuildBreaks(b)
          \/ \E t \in {"modules", "files"} : CreateTable(b, t)
          \/ \E tree \in SUBSET SourceFiles : Fill(b, tree)
    \/ \E r \in GraphReaders :
          OpenGraph(r) \/ ReadModules(r) \/ ReadFiles(r) \/ CloseGraph(r)

GraphSpec == GraphInit /\ [][GraphNext]_graphVars
-----------------------------------------------------------------------------
\* What a reader is told over the time it keeps its connection is one graph: its modules
\* and its files are of one build, however many builds begin, overlap, end or break off
\* between its questions.  Only a build that connects to the file another has created
\* since the first removed the old one mixes its rows with the other's: of such a file
\* nothing is claimed.  (A question asked before a build commits finds nothing.)
OneGraph ==
    \A r \in GraphReaders :
        /\ session[r].open \notin shared
        /\ session[r].files # {} /\ DOMAIN session[r].modules # {}
        => session[r].modules = Counted(session[r].files)
=============================================================================
