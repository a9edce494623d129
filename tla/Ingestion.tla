----------------------------- MODULE Ingestion -----------------------------
(***************************************************************************)
(* One project with one branch, its default, from its creation: pushes     *)
(* and webhook deliveries, the jobs they enqueue, and what the handlers do *)
(* to the refs of the bare repository, the worktree, the index, the commit *)
(* analyses and a wiki page.  Commits are numbered 1, 2, ... along the     *)
(* branch and a ref is the number of its commit, 0 when it does not exist. *)
(* enqueue is one step here: JobQueue has the interleavings inside it.     *)
(***************************************************************************)
EXTENDS JobTable, SequencesExt

CONSTANTS
    Project, Branch, NoBranch,
    Workers,       \* worker threads
    MaxCommits,    \* bound: commits ever pushed
    MaxFailures,   \* bound: exceptions of handlers, and failures they do not notice
    AtCreation,    \* commits of the branch when the project is created
    LastCount      \* settings.analysis.backfill.last_count

ASSUME IngestionAssumption ==
    /\ Project \in Projects
    /\ {Branch, NoBranch} \subseteq Branches
    /\ MaxCommits \in Nat \ {0}
    /\ MaxFailures \in Nat
    /\ AtCreation \in 1..MaxCommits
    /\ LastCount \in Nat \ {0}

VARIABLES
    exec,      \* the job each thread runs, 0 for none
    at,        \* how far its handler is
    read,      \* the commits its handler read before a slow call
    remote,    \* the branch at the remote host
    local,     \* refs/heads/<branch> of the bare repository
    origin,    \* refs/remotes/origin/<branch>
    tree,      \* the worktree's commit
    index,     \* the commit that graph and chunks were built from
    listed,    \* branches has the branch, whitelisted
    status,    \* projects.status
    analysed,  \* commits in commit_analysis
    page,      \* wiki page: the analyses in it, and those older than updated_at
    hook,      \* deliveries to come, and what the current one has still to enqueue
    asked,     \* history: by type, the newest commit a webhook enqueued it for
    raised,    \* history: failures so far, noticed or not
    gaveUp,    \* history: the newest commit asked for when an incremental build failed for good
    unnoticed, \* history: jobs a git command of which failed and check=False said nothing
    unreset    \* history: the newest commit that a failed reset of the worktree was to bring

jobVars == <<jobs, exec, at>>
gitVars == <<remote, local, origin, tree>>
dataVars == <<index, listed, status, analysed, page>>
hookVars == <<hook, asked>>
faults == <<raised, gaveUp, unnoticed, unreset>>
vars == <<jobVars, read, gitVars, dataVars, hookVars, faults>>

Idle(w) == exec[w] = 0
Type(w) == jobs[exec[w]].type

(***************************************************************************)
(* Requests and how they are added to the table.                           *)
(***************************************************************************)
Req(type, branch, priority) ==
    [type |-> type, project |-> Project, branch |-> branch, priority |-> priority]

WEBHOOK == 10
BACKFILL == 1

\* Mutant: debounces against running jobs too.
Add_running(table, r) ==
    IF \E i \in DOMAIN table : /\ table[i].status \in {"queued", "running"}
                               /\ Key(table[i]) = Key(r)
    THEN table
    ELSE Append(table, NewRow(r))

Add(table, r) ==
    IF \E i \in DOMAIN table : table[i].status = "queued" /\ Key(table[i]) = Key(r)
    THEN table
    ELSE Append(table, NewRow(r))

Pushed ==
    <<Req("fetch", NoBranch, WEBHOOK), Req("index_incremental", Branch, WEBHOOK),
      Req("commit_analyze", Branch, WEBHOOK)>>

\* Mutant: the reports are enqueued with the analyses they aggregate.
PostIndex_reports ==
    <<Req("commit_analyze", Branch, BACKFILL), Req("security_scan", Branch, BACKFILL),
      Req("wiki_gen", NoBranch, BACKFILL), Req("period_report", NoBranch, BACKFILL)>>

\* Mutant: the analysis of the commits is left to the webhook.
PostIndex_noAnalysis ==
    <<Req("security_scan", Branch, BACKFILL), Req("wiki_gen", NoBranch, BACKFILL)>>

PostIndex ==
    <<Req("commit_analyze", Branch, BACKFILL), Req("security_scan", Branch, BACKFILL),
      Req("wiki_gen", NoBranch, BACKFILL)>>

PostAnalysis ==
    <<Req("period_report", NoBranch, BACKFILL), Req("contributor_report", NoBranch, BACKFILL)>>

\* create_project has stored the project and enqueued its first build.
Init ==
    /\ jobs = Add(<<>>, Req("index_build", NoBranch, BACKFILL))
    /\ exec = [w \in Workers |-> 0]
    /\ at = [w \in Workers |-> "idle"]
    /\ read = [w \in Workers |-> {}]
    /\ remote = AtCreation
    /\ local = 0 /\ origin = 0 /\ tree = 0 /\ index = 0
    /\ listed = FALSE
    /\ status = "pending"
    /\ analysed = {}
    /\ page = [body |-> {}, seen |-> {}, exists |-> FALSE]
    /\ hook = [deliveries |-> 0, todo |-> <<>>]
    /\ asked = [t \in {"fetch", "index_incremental", "commit_analyze"} |-> 0]
    /\ raised = 0 /\ gaveUp = 0 /\ unnoticed = {} /\ unreset = 0

(***************************************************************************)
(* The remote host and the webhook, which runs on the API's event loop and *)
(* so handles one delivery at a time.                                      *)
(***************************************************************************)
Push ==
    /\ remote < MaxCommits
    /\ remote' = remote + 1
    /\ hook' = [hook EXCEPT !.deliveries = @ + 1]
    /\ UNCHANGED <<jobVars, read, local, origin, tree, dataVars, asked, faults>>

\* A delivery for a branch that is not whitelisted triggers nothing.
Receive ==
    /\ hook.deliveries > 0
    /\ hook.todo = <<>>
    /\ hook' = [deliveries |-> hook.deliveries - 1, todo |-> IF listed THEN Pushed ELSE <<>>]
    /\ UNCHANGED <<jobVars, read, gitVars, dataVars, asked, faults>>

HookEnqueues ==
    /\ hook.todo # <<>>
    /\ jobs' = Add(jobs, Head(hook.todo))
    /\ asked' = [asked EXCEPT ![Head(hook.todo).type] = remote]
    /\ hook' = [hook EXCEPT !.todo = Tail(@)]
    /\ UNCHANGED <<exec, at, read, gitVars, dataVars, faults>>

(***************************************************************************)
(* Claiming a job and recording its outcome.                               *)
(***************************************************************************)
Entry(type) ==
    CASE type \in WRITE_TYPES -> "git"
      [] type = "commit_analyze" -> "list"
      [] type = "wiki_gen" -> "gather"
      [] OTHER -> "report"

Claim(w) ==
    /\ Idle(w)
    /\ \E i \in Ids :
         /\ ClaimRow(i)
         /\ exec' = [exec EXCEPT ![w] = i]
         /\ at' = [at EXCEPT ![w] = Entry(jobs[i].type)]
    /\ UNCHANGED <<read, gitVars, dataVars, hookVars, faults>>

Leave(w) ==
    /\ exec' = [exec EXCEPT ![w] = 0]
    /\ at' = [at EXCEPT ![w] = "idle"]
    /\ read' = [read EXCEPT ![w] = {}]
    /\ UNCHANGED <<gitVars, dataVars, hookVars>>

Done(w) == at[w] = "done" /\ CompleteRow(exec[w]) /\ Leave(w) /\ UNCHANGED faults

\* produced = 0
Empty(w) == at[w] = "empty" /\ FailRow(exec[w], TRUE) /\ Leave(w) /\ UNCHANGED faults

\* git, the parser, the LLM or the database raises wherever the handler is.
Raise(w) ==
    /\ raised < MaxFailures
    /\ ~Idle(w)
    /\ raised' = raised + 1
    /\ gaveUp' = IF Type(w) = "index_incremental" /\ Exhausted(exec[w])
                 THEN asked["index_incremental"]
                 ELSE gaveUp
    /\ FailRow(exec[w], FALSE)
    /\ Leave(w)
    /\ UNCHANGED <<unnoticed, unreset>>

Elapse(i) == BackoffElapses(i) /\ UNCHANGED <<exec, at, read, gitVars, dataVars, hookVars, faults>>

Goes(w, here, next) ==
    /\ at[w] = here
    /\ at' = [at EXCEPT ![w] = next]
    /\ UNCHANGED <<exec, hookVars>>

From(w, here, next) == Goes(w, here, next) /\ UNCHANGED faults

\* run_git with check=False: git fails and the handler goes on with what it printed.
Swallows(w) ==
    /\ raised < MaxFailures
    /\ raised' = raised + 1
    /\ unnoticed' = unnoticed \cup {exec[w]}
    /\ UNCHANGED gaveUp

(***************************************************************************)
(* Write jobs.                                                             *)
(***************************************************************************)
\* git clone --bare copies the branch to refs/heads, where no fetch updates it.
Clone(w) ==
    /\ local = 0
    /\ From(w, "git", "git")
    /\ Type(w) # "index_incremental"
    /\ local' = remote
    /\ UNCHANGED <<jobs, read, remote, origin, tree, dataVars>>

\* Mutant: an incremental build relies on the fetch job before it.
Fetch_notIncremental(w) ==
    /\ local # 0
    /\ From(w, "git", CASE Type(w) = "index_incremental" -> "checkout"
                        [] Type(w) = "index_build" -> "status"
                        [] OTHER -> "sync")
    /\ origin' = IF Type(w) = "index_incremental" THEN origin ELSE remote
    /\ UNCHANGED <<jobs, read, remote, local, tree, dataVars>>

Fetch(w) ==
    /\ local # 0
    /\ From(w, "git", CASE Type(w) = "index_incremental" -> "checkout"
                        [] Type(w) = "index_build" -> "status"
                        [] OTHER -> "sync")
    /\ origin' = remote
    /\ UNCHANGED <<jobs, read, remote, local, tree, dataVars>>

SetIndexing(w) ==
    /\ From(w, "status", "sync")
    /\ status' = "indexing"
    /\ UNCHANGED <<jobs, read, gitVars, index, listed, analysed, page>>

\* The default branch is what the project has stored or git symbolic-ref says; without
\* one no branch is whitelisted, and a full build ends with nothing to index.
SyncBranches(w) ==
    /\ \/ /\ From(w, "sync", IF Type(w) = "fetch" THEN "done" ELSE "checkout")
          /\ listed' = TRUE
          /\ UNCHANGED status
       \/ /\ ~listed
          /\ Goes(w, "sync", IF Type(w) = "fetch" THEN "done" ELSE "empty")
          /\ Swallows(w)
          /\ status' = IF Type(w) = "fetch" THEN status ELSE "active"
          /\ UNCHANGED <<listed, unreset>>
    /\ UNCHANGED <<jobs, read, gitVars, index, analysed, page>>

\* git worktree add raises when it fails; git reset --hard, for a worktree that
\* exists, fails without a word and leaves the commit that was checked out.
AddWorktree(w) ==
    /\ Goes(w, "checkout", "build")
    /\ \/ tree' = origin /\ UNCHANGED faults
       \/ /\ tree # 0 /\ UNCHANGED tree
          /\ Swallows(w)
          /\ unreset' = IF Type(w) = "index_incremental" THEN origin ELSE unreset
    /\ UNCHANGED <<jobs, read, remote, local, origin, dataVars>>

\* build_graph, _index_vectors and the mark in branches.
BuildIndex(w) ==
    /\ From(w, "build", IF Type(w) = "index_build" THEN "activate" ELSE "done")
    /\ index' = tree
    /\ UNCHANGED <<jobs, read, gitVars, listed, status, analysed, page>>

\* Mutant: the status is left to the commit analysis.
Activate_later(w) ==
    /\ From(w, "activate", "follow")
    /\ UNCHANGED <<jobs, read, gitVars, dataVars>>

Activate(w) ==
    /\ From(w, "activate", "follow")
    /\ status' = "active"
    /\ UNCHANGED <<jobs, read, gitVars, index, listed, analysed, page>>

FollowUps(w) ==
    /\ From(w, "follow", "done")
    /\ jobs' = FoldLeft(Add, jobs, IF Type(w) = "index_build" THEN PostIndex ELSE PostAnalysis)
    /\ UNCHANGED <<read, gitVars, dataVars>>

(***************************************************************************)
(* commit_analyze: the log of the first ref that exists, newest first.     *)
(* The longer of two lists is taken, the commits of the last days and the  *)
(* last LastCount ones.  Rows are permanent, and a commit that has one is  *)
(* skipped.                                                                *)
(***************************************************************************)
BareRef == IF local # 0 THEN local ELSE origin

Newest(ref, n) == {c \in 1..ref : c > ref - n}

\* rev-parse and either log may fail unnoticed: another ref, or a shorter list.
ListCommits(w) ==
    \E ref \in {BareRef, origin}, n \in 0..MaxCommits :
        /\ n <= ref
        /\ Goes(w, "list", IF n = 0 THEN "empty" ELSE "analyse")
        /\ read' = [read EXCEPT ![w] = Newest(ref, n)]
        /\ \/ ref = BareRef /\ (n = ref \/ n >= LastCount) /\ UNCHANGED faults
           \/ Swallows(w) /\ UNCHANGED unreset
        /\ UNCHANGED <<jobs, gitVars, dataVars>>

AnalyseCommit(w) ==
    /\ read[w] # {}
    /\ From(w, "analyse", "analyse")
    /\ analysed' = analysed \cup {Max(read[w])}
    /\ read' = [read EXCEPT ![w] = @ \ {Max(@)}]
    /\ UNCHANGED <<jobs, gitVars, index, listed, status, page>>

AnalysisEnds(w) ==
    /\ read[w] = {}
    /\ From(w, "analyse", "follow")
    /\ UNCHANGED <<jobs, read, gitVars, dataVars>>

(***************************************************************************)
(* wiki_gen: a module's page, if analyses are newer than it; the LLM call  *)
(* is between reading them and writing the page with updated_at = now.     *)
(***************************************************************************)
Gather(w) ==
    /\ From(w, "gather", CASE index = 0 -> "empty"
                           [] page.exists /\ analysed \subseteq page.seen -> "done"
                           [] OTHER -> "write")
    /\ read' = [read EXCEPT ![w] = analysed]
    /\ UNCHANGED <<jobs, gitVars, dataVars>>

WritePage(w) ==
    /\ From(w, "write", "done")
    /\ page' = [body |-> read[w], seen |-> analysed, exists |-> TRUE]
    /\ UNCHANGED <<jobs, read, gitVars, index, listed, status, analysed>>

(***************************************************************************)
(* Jobs that read: finding nothing is a permanent failure (produced = 0).  *)
(***************************************************************************)
Reads(w, type, data) ==
    /\ ~Idle(w) /\ Type(w) = type
    /\ From(w, "report", IF data THEN "done" ELSE "empty")
    /\ UNCHANGED <<jobs, read, gitVars, dataVars>>

\* Without a worktree nothing is scanned; a scan may also find nothing.
Scan(w) == \E found \in BOOLEAN : Reads(w, "security_scan", tree # 0 /\ found)

PeriodReport(w) == Reads(w, "period_report", analysed # {})

\* By log: whoever has commits in the log of the branch, nobody when git log fails.
ContributorReport(w) ==
    \/ Reads(w, "contributor_report", BareRef # 0)
    \/ /\ ~Idle(w) /\ Type(w) = "contributor_report"
       /\ Goes(w, "report", "empty")
       /\ Swallows(w)
       /\ UNCHANGED <<jobs, read, gitVars, dataVars, unreset>>

Handler(w) ==
    \/ Clone(w) \/ Fetch(w) \/ SetIndexing(w) \/ SyncBranches(w)
    \/ AddWorktree(w) \/ BuildIndex(w) \/ Activate(w) \/ FollowUps(w)
    \/ ListCommits(w) \/ AnalyseCommit(w) \/ AnalysisEnds(w)
    \/ Gather(w) \/ WritePage(w)
    \/ Scan(w) \/ PeriodReport(w) \/ ContributorReport(w)

Work(w) == Handler(w) \/ Done(w) \/ Empty(w)

Next ==
    \/ Push \/ Receive \/ HookEnqueues
    \/ \E w \in Workers : Claim(w) \/ Work(w) \/ Raise(w)
    \/ \E i \in Ids : Elapse(i)

Spec == Init /\ [][Next]_vars

\* The webhook finishes what it began, threads poll and their handlers go on.
Fairness ==
    /\ WF_vars(Receive) /\ WF_vars(HookEnqueues)
    /\ \A w \in Workers : WF_vars(Claim(w)) /\ WF_vars(Work(w))
    /\ WF_vars(\E i \in Ids : Elapse(i))

FairSpec == Spec /\ Fairness
-----------------------------------------------------------------------------
Stages == {"idle", "git", "status", "sync", "checkout", "build", "activate", "follow",
           "list", "analyse", "gather", "write", "report", "empty", "done"}

Commits == 1..MaxCommits

\* Every variable holds a value of its type.
IngestTypeOK ==
    /\ jobs \in Seq(Row)
    /\ exec \in [Workers -> Nat]
    /\ at \in [Workers -> Stages]
    /\ read \in [Workers -> SUBSET Commits]
    /\ {remote, local, origin, tree, index} \subseteq 0..MaxCommits
    /\ listed \in BOOLEAN
    /\ status \in {"pending", "indexing", "active"}
    /\ analysed \subseteq Commits
    /\ page \in [body : SUBSET Commits, seen : SUBSET Commits, exists : BOOLEAN]
    /\ hook.deliveries \in 0..MaxCommits /\ hook.todo \in Seq(Request)
    /\ raised \in 0..MaxFailures /\ {gaveUp, unreset} \subseteq 0..MaxCommits
    /\ unnoticed \subseteq Ids

IsIncremental(i) == jobs[i].type = "index_incremental"

\* What was asked for last is still to be fetched and indexed, or on record as failed.
ComesOrFailed ==
    \/ \E i \in Ids : IsIncremental(i) /\ jobs[i].status = "queued"
    \/ \E w \in Workers : /\ ~Idle(w) /\ Type(w) = "index_incremental"
                          /\ \/ at[w] = "git"
                             \/ at[w] = "checkout" /\ origin >= asked["index_incremental"]
                             \/ at[w] = "build" /\ tree >= asked["index_incremental"]
    \/ /\ gaveUp = asked["index_incremental"]
       /\ \E i \in Ids : IsIncremental(i) /\ jobs[i].status = "failed"

\* A commit whose webhook was handled is indexed, or an index_incremental that
\* will fetch it is under way, or one failed for good after it was asked for and
\* is on record: neither debouncing nor a build that was running when the push
\* came nor a retry that comes after a newer build loses it.  One thing does: the
\* reset of the worktree to it failed unnoticed.
IndexAccounted ==
    asked["index_incremental"] > index =>
        ComesOrFailed \/ unreset >= asked["index_incremental"]

\* The worktree an index is being built from does not move until it is built.
IndexUndisturbed ==
    [][tree' # tree => \A w \in Workers : at[w] # "build"]_vars

\* "period and contribution reports must wait for commit_analyze, or they fail
\* with nothing produced" (handlers.py:80): those that handlers enqueue never do,
\* unless their own git log fails unnoticed.
ReportsHaveData ==
    \A w \in Workers :
        at[w] = "empty" /\ Type(w) \in {"period_report", "contributor_report"}
            => exec[w] \in unnoticed

\* A push to the branch, once its webhook is handled, is eventually indexed, unless
\* the reset of the worktree failed unnoticed: exceptions are retried.
PushIndexed ==
    \A n \in Commits : asked["index_incremental"] = n ~> index >= n \/ unreset >= n

\* A created project ends up open to users and, unless a git command failed
\* unnoticed, indexed and with the last commits as of the clone analysed.
Onboarded ==
    <>[](/\ status = "active" /\ local # 0
         /\ unnoticed = {} => index # 0 /\ Newest(local, LastCount) \subseteq analysed)

\* "with a webhook, a push to a whitelisted branch is analysed" (README.md:207).
PushAnalysed ==
    \A n \in Commits : asked["commit_analyze"] = n ~> n \in analysed

\* A project that is shown as being indexed ("indexing", Dashboard.tsx:136, which
\* then refuses to open it) has a build to come, or a failed one that a user can
\* find in the list of jobs: no chain of jobs leaves it so without a trace.
IndexingExplained ==
    status = "indexing" =>
        \E i \in Ids : jobs[i].type = "index_build" /\ jobs[i].status # "done"

\* The page of a module is written from its structure and the analyses of its
\* commits (generator.py:3): when all jobs are done it has them all.
Quiet == hook.todo = <<>> /\ \A i \in Ids : jobs[i].status \in {"done", "failed"}

WikiComplete == Quiet /\ page.exists => page.body = analysed
=============================================================================
