----------------------------- MODULE CodeIndex -----------------------------
(***************************************************************************)
(* The vector store of a project: one table of chunks for all branches.    *)
(* An index build cuts a worktree into chunks, embeds those whose hash the *)
(* branch does not have yet and adds them; nothing is ever removed.        *)
(* Builds overlap when the CLI rebuilds beside the worker.  Questions are  *)
(* answered from the chunks nearest to them.                               *)
(***************************************************************************)
EXTENDS Naturals, FiniteSets

CONSTANTS
    Branches,   \* branches of the project
    Contents,   \* what a chunk may contain; a content and its hash are one
    Modules,    \* modules of the graph, "root" among them
    NoModule,   \* no module: there is no such chunk
    NoBranch,   \* what a resting builder works on
    Builders,   \* the worker's thread and the CLI
    RecallK     \* chunks a question asks for (8)

ASSUME CodeIndexAssumption ==
    /\ NoModule \notin Modules
    /\ NoBranch \notin Branches
    /\ RecallK \in Nat
    /\ IsFiniteSet(Branches) /\ IsFiniteSet(Contents)

VARIABLES
    rows,     \* rows[b][s]: the module of the chunk s of branch b, its vector beside it
    build,    \* build[x]: how far builder x is, and with what
    snapshot  \* history: the chunks of the last index of each branch that ended

codeIndexVars == <<rows, build, snapshot>>

\* What chunk_repo returns: each chunk with the module of the first file that has it.
ChunkLists == [Contents -> Modules \cup {NoModule}]
In(chunks) == {s \in Contents : chunks[s] # NoModule}

NoChunks == [s \in Contents |-> NoModule]
Unbuilt == [place |-> "idle", branch |-> NoBranch, chunks |-> NoChunks, fresh |-> {}]

CodeIndexInit ==
    /\ rows = [b \in Branches |-> NoChunks]
    /\ build = [x \in Builders |-> Unbuilt]
    /\ snapshot = [b \in Branches |-> {}]

\* add_worktree, build_graph, chunk_repo: a later commit, or another builder, may
\* move the worktree meanwhile, so any chunks may come out.
ChunkRepo(x, b, chunks) ==
    /\ build[x].place = "idle"
    /\ build' = [build EXCEPT ![x] =
                   [place |-> "chunked", branch |-> b, chunks |-> chunks, fresh |-> {}]]
    /\ UNCHANGED <<rows, snapshot>>

\* Mutant: WHERE branch=? forgotten.
ExistingShas_anyBranch(b) == UNION {In(rows[c]) : c \in Branches}

ExistingShas(b) == In(rows[b])

SelectFresh(x) ==
    /\ build[x].place = "chunked"
    /\ LET fresh == In(build[x].chunks) \ ExistingShas(build[x].branch)
       IN  build' = [build EXCEPT ![x].fresh = fresh,
                                  ![x].place = IF fresh = {} THEN "stored" ELSE "embed"]
    /\ UNCHANGED <<rows, snapshot>>

\* embed_texts, whose failure gives hash vectors, and upsert_chunks in one transaction;
\* INSERT OR IGNORE leaves the rows another builder has added.
UpsertChunks(x) ==
    /\ build[x].place = "embed"
    /\ rows' = [rows EXCEPT ![build[x].branch] =
                  [s \in Contents |-> IF s \in build[x].fresh /\ @[s] = NoModule
                                      THEN build[x].chunks[s] ELSE @[s]]]
    /\ build' = [build EXCEPT ![x].place = "stored", ![x].fresh = {}]
    /\ UNCHANGED snapshot

\* The handler goes on to mark the branch as indexed.
IndexEnds(x) ==
    /\ build[x].place = "stored"
    /\ snapshot' = [snapshot EXCEPT ![build[x].branch] = In(build[x].chunks)]
    /\ build' = [build EXCEPT ![x] = Unbuilt]
    /\ UNCHANGED rows

\* A step raises ("database is locked", git, the parser) or the process is killed:
\* what was not committed is rolled back.
IndexRaises(x) ==
    /\ build[x].place # "idle"
    /\ build' = [build EXCEPT ![x] = Unbuilt]
    /\ UNCHANGED <<rows, snapshot>>

CodeIndexNext ==
    \E x \in Builders :
        \/ \E b \in Branches, chunks \in ChunkLists : ChunkRepo(x, b, chunks)
        \/ SelectFresh(x) \/ UpsertChunks(x) \/ IndexEnds(x) \/ IndexRaises(x)

CodeIndexSpec == CodeIndexInit /\ [][CodeIndexNext]_codeIndexVars
-----------------------------------------------------------------------------
(***************************************************************************)
(* Recall.  distance[s] is how far the vector of s is from the question's, *)
(* in the metric of the search: sqlite-vec ranks by Euclidean distance     *)
(* (the table names no metric), the search without it by cosine, and as    *)
(* vectors are not normalised the two may rank differently.  Where         *)
(* distances are equal any order may come out, so a search has a set of    *)
(* possible results.                                                       *)
(***************************************************************************)
AllRows == {r \in Branches \X Contents : rows[r[1]][r[2]] # NoModule}

\* The WHERE conditions: an empty list of modules is no condition.
Matching(b, modules) ==
    {r \in AllRows : r[1] = b /\ (modules = {} \/ rows[r[1]][r[2]] \in modules)}

Nearest(R, k, distance) ==
    IF Cardinality(R) <= k THEN {R}
    ELSE {T \in SUBSET R : /\ Cardinality(T) = k
                           /\ \A t \in T, r \in R \ T : distance[t[2]] <= distance[r[2]]}

KnnBruteforce(b, modules, k, cosine) == Nearest(Matching(b, modules), k, cosine)

\* Mutant: the branch is left out of the WHERE conditions.
KnnVec_anyBranch(b, modules, k, euclid) == Nearest(AllRows, k, euclid)

\* sqlite-vec takes the k nearest of all rows, and the join filters them afterwards.
KnnVec(b, modules, k, euclid) ==
    {T \cap Matching(b, modules) : T \in Nearest(AllRows, k, euclid)}
-----------------------------------------------------------------------------
\* Every chunk of the last completed index of a branch can be found in that branch,
\* whatever builds overlapped it, broke off before it or came after it.
Searchable ==
    \A b \in Branches : snapshot[b] \subseteq In(rows[b])

\* Whatever the vectors and whatever the metric it ranks by, what a search returns is part
\* of the nearest chunks of the branch and the modules in that metric: it may miss chunks,
\* but never shows foreign ones, nor a farther one while it withholds a nearer one.
KnnSound ==
    AllRows # {} =>
    \A b \in Branches, modules \in SUBSET Modules, distance \in [Contents -> 1..2] :
        \A found \in KnnVec(b, modules, RecallK, distance)
                       \cup KnnBruteforce(b, modules, RecallK, distance) :
            \E T \in Nearest(Matching(b, modules), RecallK, distance) : found \subseteq T
=============================================================================
