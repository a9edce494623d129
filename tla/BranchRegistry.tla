--------------------------- MODULE BranchRegistry ---------------------------
(***************************************************************************)
(* The branches of a project whose repository is cloned: rows that         *)
(* _sync_branches derives from git, users whitelist, and builds mark as    *)
(* indexed.  _sync_branches runs in worker threads (fetch, index_build)    *)
(* and, outside the queue, in API threads (sync_remote): it reads git and  *)
(* the database in several steps and then writes all rows in one           *)
(* transaction, so what it writes may be old.                              *)
(***************************************************************************)
EXTENDS Naturals

CONSTANTS
    Branches,      \* branch names
    Head,          \* the branch HEAD of the bare repository names
    None,          \* no row, no default branch, nobody's branch
    Workers,       \* threads that run write jobs of the project
    Callers,       \* API threads
    MaxCommit      \* bound: commits ever pushed

Row == [whitelisted : BOOLEAN, isDefault : BOOLEAN, commit : Nat, indexed : BOOLEAN]

ASSUME RegistryAssumption ==
    /\ Head \in Branches
    /\ None \notin Branches \cup Row
    /\ Workers \cap Callers = {}
    /\ MaxCommit \in Nat \ {0}

Threads == Workers \cup Callers

VARIABLES
    remote,    \* remote[b]: last commit of b at the remote, 0 when there is no b
    pushed,    \* commits pushed so far
    tracking,  \* refs/remotes/origin, likewise
    rows,      \* rows[b]: the row of branches, None when there is none
    default,   \* projects.default_branch
    at,        \* where each thread is in its call or job
    seen,      \* seen[t]: the refs and the default branch its sync has read
    todo,      \* todo[t]: branches its build has to index, or its call to enqueue
    trees,     \* branches that have a worktree
    queued,    \* an index_build is queued
    wanted,    \* branches whose index_incremental is queued, or failed last
    refused    \* branches whose last whitelist call answered with an error

gitVars == <<remote, pushed, tracking>>
jobVars == <<queued, wanted, refused>>
threadVars == <<at, seen, todo>>
vars == <<gitVars, rows, default, threadVars, trees, jobVars>>

Known == {b \in Branches : rows[b] # None}
Whitelisted == {b \in Known : rows[b].whitelisted}

Nothing == [refs |-> [b \in Branches |-> 0], default |-> None]

\* The project exists, its first index_build is queued and its repository cloned.
Init ==
    /\ remote = [b \in Branches |-> IF b = Head THEN 1 ELSE 0]
    /\ pushed = 1
    /\ tracking = [b \in Branches |-> 0]
    /\ rows = [b \in Branches |-> None]
    /\ default = None
    /\ at = [t \in Threads |-> "idle"]
    /\ seen = [t \in Threads |-> Nothing]
    /\ todo = [t \in Threads |-> {}]
    /\ trees = {}
    /\ queued = TRUE
    /\ wanted = {}
    /\ refused = {}

(***************************************************************************)
(* The remote host: branches move, appear and vanish.                      *)
(***************************************************************************)
Push(b) ==
    /\ pushed < MaxCommit
    /\ pushed' = pushed + 1
    /\ remote' = [remote EXCEPT ![b] = pushed + 1]
    /\ UNCHANGED <<tracking, rows, default, threadVars, trees, jobVars>>

Vanish(b) ==
    /\ remote[b] # 0
    /\ remote' = [remote EXCEPT ![b] = 0]
    /\ UNCHANGED <<pushed, tracking, rows, default, threadVars, trees, jobVars>>

Goto(t, here, next) == at[t] = here /\ at' = [at EXCEPT ![t] = next]

(***************************************************************************)
(* What begins: write jobs of the project, one at a time, and sync_remote, *)
(* which excludes nobody.  A fetch job is a sync without a build.          *)
(***************************************************************************)
NoWriteJob == \A w \in Workers : at[w] = "idle"

BeginBuild(w) ==
    /\ NoWriteJob
    /\ queued
    /\ Goto(w, "idle", "build: fetch")
    /\ queued' = FALSE
    /\ UNCHANGED <<gitVars, rows, default, seen, todo, trees, wanted, refused>>

BeginIncremental(w, b) ==
    /\ NoWriteJob
    /\ b \in wanted
    /\ Goto(w, "idle", "incremental: fetch")
    /\ todo' = [todo EXCEPT ![w] = {b}]
    /\ wanted' = wanted \ {b}
    /\ UNCHANGED <<gitVars, rows, default, seen, trees, queued, refused>>

BeginSync(t) ==
    /\ t \in Workers => NoWriteJob
    /\ Goto(t, "idle", "sync: fetch")
    /\ UNCHANGED <<gitVars, rows, default, seen, todo, trees, jobVars>>

Reindex ==
    /\ queued' = TRUE
    /\ UNCHANGED <<gitVars, rows, default, threadVars, trees, wanted, refused>>

(***************************************************************************)
(* fetch and _sync_branches.                                               *)
(***************************************************************************)
Fetch(t) ==
    /\ \/ Goto(t, "build: fetch", "build: default")
       \/ Goto(t, "sync: fetch", "sync: default")
       \/ Goto(t, "incremental: fetch", "incremental: index")
    /\ tracking' = remote
    /\ UNCHANGED <<remote, pushed, rows, default, seen, todo, trees, jobVars>>

\* The stored default branch wins over HEAD of the bare repository.
ReadDefault(t) ==
    /\ \/ Goto(t, "build: default", "build: list")
       \/ Goto(t, "sync: default", "sync: list")
    /\ seen' = [seen EXCEPT ![t].default = IF default # None THEN default ELSE Head]
    /\ UNCHANGED <<gitVars, rows, default, todo, trees, jobVars>>

ListRemote(t) ==
    /\ \/ Goto(t, "build: list", "build: upsert")
       \/ Goto(t, "sync: list", "sync: upsert")
    /\ seen' = [seen EXCEPT ![t].refs = tracking]
    /\ UNCHANGED <<gitVars, rows, default, todo, trees, jobVars>>

\* Mutant: is_default is not among the columns of the INSERT.
NewRow_noDefault(b, s) ==
    [whitelisted |-> b = s.default, isDefault |-> None,
     commit |-> s.refs[b], indexed |-> FALSE]

NewRow(b, s) ==
    [whitelisted |-> b = s.default, isDefault |-> b = s.default,
     commit |-> s.refs[b], indexed |-> FALSE]

\* Mutant: INSERT OR REPLACE, the whitelist value carried over.
Upsert_replaces(b, s) ==
    IF s.refs[b] = 0 THEN rows[b]
    ELSE IF rows[b] = None THEN NewRow(b, s)
    ELSE [NewRow(b, s) EXCEPT !.whitelisted = @ \/ rows[b].whitelisted]

\* INSERT ... ON CONFLICT DO UPDATE of a listed branch; other rows stay.
Upsert(b, s) ==
    IF s.refs[b] = 0 THEN rows[b]
    ELSE IF rows[b] = None THEN NewRow(b, s)
    ELSE [rows[b] EXCEPT !.commit = s.refs[b],
                         !.isDefault = (b = s.default),
                         !.whitelisted = @ \/ b = s.default]

WriteRows(t) ==
    /\ \/ Goto(t, "build: upsert", "build: branches")
       \/ Goto(t, "sync: upsert", "idle")
    /\ rows' = [b \in Branches |-> Upsert(b, seen[t])]
    /\ default' = seen[t].default
    /\ seen' = [seen EXCEPT ![t] = Nothing]
    /\ UNCHANGED <<gitVars, todo, trees, jobVars>>

(***************************************************************************)
(* The rest of index_build: the whitelisted branches one after the other.  *)
(* index_incremental does the same for one.                                *)
(***************************************************************************)
ReadWhitelist(w) ==
    /\ Whitelisted # {}
    /\ Goto(w, "build: branches", "build: index")
    /\ todo' = [todo EXCEPT ![w] = Whitelisted]
    /\ UNCHANGED <<gitVars, rows, default, seen, trees, jobVars>>

\* produced = 0: a permanent failure, on record as such
EmptyBuild(w) ==
    /\ Whitelisted = {}
    /\ Goto(w, "build: branches", "idle")
    /\ UNCHANGED <<gitVars, rows, default, seen, todo, trees, jobVars>>

Indexing(w) == at[w] \in {"build: index", "incremental: index"}

AddWorktree(w, b) ==
    /\ Indexing(w)
    /\ b \in todo[w] \ trees
    /\ tracking[b] # 0
    /\ trees' = trees \cup {b}
    /\ UNCHANGED <<gitVars, rows, default, threadVars, jobVars>>

\* build_graph, _index_vectors, _mark_branch_indexed; a worktree that was there
\* is used even if its branch is gone (reset with check=False).
IndexBranch(w, b) ==
    /\ Indexing(w)
    /\ b \in todo[w] \cap trees
    /\ rows' = [rows EXCEPT ![b].indexed = TRUE]
    /\ todo' = [todo EXCEPT ![w] = @ \ {b}]
    /\ UNCHANGED <<gitVars, default, at, seen, trees, jobVars>>

JobEnds(w) ==
    /\ todo[w] = {}
    /\ Goto(w, "build: index", "idle") \/ Goto(w, "incremental: index", "idle")
    /\ UNCHANGED <<gitVars, rows, default, seen, todo, trees, jobVars>>

InIncremental(w) == at[w] \in {"incremental: fetch", "incremental: index"}

Stop(t) ==
    /\ at' = [at EXCEPT ![t] = "idle"]
    /\ seen' = [seen EXCEPT ![t] = Nothing]
    /\ todo' = [todo EXCEPT ![t] = {}]

\* Mutant: the exception is swallowed, the job is done.
HandlerRaises_done(w) ==
    /\ at[w] # "idle"
    /\ Stop(w)
    /\ UNCHANGED <<gitVars, rows, default, trees, jobVars>>

\* An exception in a handler, whatever the cause: the job is on record as failed,
\* or queued again, and the branches that remained are not looked at.
HandlerRaises(w) ==
    /\ at[w] # "idle"
    /\ Stop(w)
    /\ wanted' = IF InIncremental(w) THEN wanted \cup todo[w] ELSE wanted
    /\ UNCHANGED <<gitVars, rows, default, trees, queued, refused>>

\* In particular: git worktree add of a branch that is not in origin.
NoSuchBranch(w, b) ==
    /\ Indexing(w)
    /\ b \in todo[w] \ trees
    /\ tracking[b] = 0
    /\ HandlerRaises(w)

(***************************************************************************)
(* PUT .../whitelist: a BEGIN IMMEDIATE transaction, then an enqueue.      *)
(***************************************************************************)
\* Mutant: no answer 409 for the default branch.
SetWhitelist_any(c, b, on) ==
    /\ b \in Known
    /\ Goto(c, "idle", IF on THEN "enqueue" ELSE "idle")
    /\ rows' = [rows EXCEPT ![b].whitelisted = on]
    /\ todo' = [todo EXCEPT ![c] = IF on THEN {b} ELSE {}]
    /\ refused' = refused \ {b}
    /\ UNCHANGED <<gitVars, default, seen, trees, queued, wanted>>

SetWhitelist(c, b, on) ==
    /\ b \in Known
    /\ rows[b].isDefault => on
    /\ Goto(c, "idle", IF on THEN "enqueue" ELSE "idle")
    /\ rows' = [rows EXCEPT ![b].whitelisted = on]
    /\ todo' = [todo EXCEPT ![c] = IF on THEN {b} ELSE {}]
    /\ refused' = refused \ {b}
    /\ UNCHANGED <<gitVars, default, seen, trees, queued, wanted>>

EnqueueIndex(c) ==
    /\ Goto(c, "enqueue", "idle")
    /\ wanted' = wanted \cup todo[c]
    /\ todo' = [todo EXCEPT ![c] = {}]
    /\ UNCHANGED <<gitVars, rows, default, seen, trees, queued, refused>>

\* The fetch or a statement of an API call raises: the caller gets an error.
ApiStops(c) ==
    /\ at[c] # "idle"
    /\ Stop(c)
    /\ refused' = refused \cup todo[c]
    /\ UNCHANGED <<gitVars, rows, default, trees, queued, wanted>>

Next ==
    \/ \E b \in Branches : Push(b) \/ Vanish(b)
    \/ Reindex
    \/ \E t \in Threads : BeginSync(t) \/ Fetch(t) \/ ReadDefault(t) \/ ListRemote(t) \/ WriteRows(t)
    \/ \E w \in Workers : BeginBuild(w) \/ ReadWhitelist(w) \/ EmptyBuild(w) \/ JobEnds(w)
                          \/ HandlerRaises(w)
    \/ \E w \in Workers, b \in Branches :
          BeginIncremental(w, b) \/ AddWorktree(w, b) \/ IndexBranch(w, b) \/ NoSuchBranch(w, b)
    \/ \E c \in Callers, b \in Branches, on \in BOOLEAN : SetWhitelist(c, b, on)
    \/ \E c \in Callers : EnqueueIndex(c) \/ ApiStops(c)

Spec == Init /\ [][Next]_vars
-----------------------------------------------------------------------------
Places == {"idle", "enqueue", "sync: fetch", "sync: default", "sync: list", "sync: upsert",
           "build: fetch", "build: default", "build: list", "build: upsert",
           "build: branches", "build: index", "incremental: fetch", "incremental: index"}

Refs == [Branches -> Nat]

\* Every variable holds a value of its type.
RegistryTypeOK ==
    /\ remote \in Refs /\ pushed \in Nat /\ tracking \in Refs
    /\ rows \in [Branches -> Row \cup {None}]
    /\ default \in Branches \cup {None}
    /\ at \in [Threads -> Places]
    /\ seen \in [Threads -> [refs : Refs, default : Branches \cup {None}]]
    /\ todo \in [Threads -> SUBSET Branches]
    /\ trees \subseteq Branches
    /\ queued \in BOOLEAN
    /\ wanted \subseteq Branches /\ refused \subseteq Branches

\* "the default branch is included by force and cannot be excluded"
\* (projects.py:118), whatever syncs write while a user changes the whitelist.
DefaultIncluded ==
    \A b \in Known : rows[b].isDefault => rows[b].whitelisted

\* A sync, of whatever age its data are, keeps what it does not own: only users
\* change the whitelist of a branch, and an indexed branch stays indexed.
SyncKeepsOthers ==
    [][\A b \in Known :
         /\ rows'[b] # None
         /\ rows'[b].whitelisted # rows[b].whitelisted =>
                \E c \in Callers : SetWhitelist(c, b, ~rows[b].whitelisted)
         /\ rows[b].indexed => rows'[b].indexed]_vars

\* A branch that a user whitelisted is indexed, or its index_incremental is queued,
\* running or on record as failed, or the API call is about to enqueue it
\* (projects.py:121) or told the user that it failed, whatever builds and syncs do
\* to the rows meanwhile.  The default branch is left out: a sync whitelists it
\* without enqueueing anything.
WhitelistAccounted ==
    \A b \in Whitelisted :
        \/ rows[b].isDefault
        \/ rows[b].indexed
        \/ b \in wanted \cup refused
        \/ \E c \in Callers : b \in todo[c]
        \/ \E w \in Workers : InIncremental(w) /\ b \in todo[w]
=============================================================================
