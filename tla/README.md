# Verification of the CodeReview platform

TLA+ models of `backend/app`: what the platform's task queue, its workers and
the jobs they run do to the shared state, model-checked with TLC on small
instances and, where it says so, proved with TLAPS for every value of the
constants. Paths below are relative to the repository root (`src/`), and
`queue.py:54` abbreviates `src/backend/app/queue/queue.py:54`.

## 1. The system

A FastAPI process (`api/`), one or more worker processes (`queue/worker.py`,
`docker-compose.yml` starts two) and an operator's CLI (`cli.py`) share one
SQLite database in WAL mode (`db/schema.sql`), one bare git repository with
worktrees per project, one graph database per branch and one vector database per
project. Nothing else coordinates them: every interaction is a row, a ref or a
file that one side writes and another reads later.

    push -> webhook --\                       /-> fetch, index_build, index_incremental  (write jobs)
    user -> API ------ enqueue -> jobs -> claim -> commit_analyze, wiki_gen              (LLM jobs)
    operator -> CLI --/             ^         \-> security_scan, period_report, contributor_report
                                    |------------ handlers enqueue follow-up jobs

### Components

| component | state | operations | depends on |
|---|---|---|---|
| jobs table, `queue/queue.py` | `jobs` rows: type, project, branch, priority, status, attempts, run_after | enqueue, claim, complete, fail, update_progress, retry_job | SQLite's single writer |
| worker, `queue/worker.py` | threads, `_LLM_SEM` and `_stop` per process | claim loop, `_process`, shutdown | jobs table, handlers |
| CLI, `cli.py` | none of its own | doctor, checks, `reindex` in the foreground | handlers, jobs table |
| handlers, `queue/handlers.py` | project status and statistics, branch rows | one per job type; enqueue follow-ups | every layer below |
| git layer, `git/` | bare repository (`refs/heads`, `refs/remotes/origin`), worktrees | clone, fetch, list branches, worktree add/reset, log, blame | remote host |
| branch registry, `handlers.py:203-264`, `api/projects.py:87-124` | `branches` rows, `projects.default_branch` | sync from git, whitelist by users, mark indexed | git layer |
| index, `parsing/` | graph database per branch, `chunks` and `vec_chunks` per project | build graph, chunk, upsert, KNN | worktree, embedder |
| commit analysis, `analysis/` | `commit_analysis` rows, kept for ever | analyse the commits of a branch | git log, graph, LLM |
| wiki, `wiki/` | `wiki_pages` with `updated_at` | regenerate pages that have new analyses | graph, analyses, LLM |
| scanner, `security/` | `findings` rows with a status | scan a worktree, save, reconcile with the previous scan | worktree, external scanners, LLM |
| reports, `analytics/`, `reports/weekly.py` | `reports` rows | aggregate analyses, log, blame | analyses, git log, identities |
| identities, `auth/identity.py` | `identities` rows, `merged_into` | resolve from the platform, list, merge | platform API |
| Q&A, `qa/retriever.py` | suggestion cache with a TTL | retrieve and answer | graph, vectors, analyses, LLM |
| API, webhook, `api/` | none of its own | CRUD, enqueue, sync_remote | jobs table, handlers |
| accounts and keys, `auth/users.py`, `auth/keys.py`, `core/` | `users`, `api_keys`, settings | CRUD, tokens, configuration | - |
| frontend, `frontend/`; an older copy, `backend/code-review/`; `deploy/` | - | - | API |

### What is hard

* **Interleaving.** Two worker processes of four threads each, API threads, the
  webhook and the CLI run the same Python functions on the same rows. Most
  functions are several autocommitted statements (`enqueue`, `_sync_branches`,
  `analyze_commit`, `_has_new_commits` followed by `_upsert_page`); only `claim`
  and the users of `tx()` take the write lock before they read.
* **Exclusion.** Write jobs of one project share a bare repository and
  worktrees. The only lock is the set of rows with status `running`, so whoever
  changes a status without owning the row breaks or jams it; whoever does not go
  through `claim` (the CLI, `sync_remote`) is not excluded at all.
* **Failure.** Handlers raise, produce nothing, or die with their thread or their
  process. Retries and backoff live in the row; a dead thread's row is not
  repaired by anything. Some git commands run with `check=False`, so that their failure
  looks like a result.
* **Ordering.** A push enqueues fetch, incremental indexing and analysis with the
  same priority, and the last is not a write job. Reports and wiki pages depend
  on analyses that may or may not be there.
* **Limits.** `max_attempts`, one LLM semaphore per process whose waiters hold a
  worker thread and a running row.

### What makes each component correct

* queue: write jobs of a project run one at a time, with and without crashes; a
  job has one owner; attempts are bounded; a debounced request is not lost; the queue
  stays short and nobody waits for ever behind requests of his own priority; every job
  is settled in the end.
* worker: a permit of the semaphore is returned on every path; every path out of
  a handler records an outcome; write handlers of a project exclude each other through
  kills and restarts.
* CLI: a foreground rebuild should exclude the workers' write jobs.
* branch registry: the default branch stays whitelisted, and users' choices survive
  syncs, whoever runs them and whatever they interleave with.
* ingestion (webhook, handlers, git, index): a push to a whitelisted branch is
  indexed and analysed, or a failed job says that it was not; a project is not
  shown as indexing when nothing indexes it.
* findings: a finding that disappeared is resolved, one that did not stays as the
  scan or a user left it.
* index: what was indexed last can be found, and a search shows nothing foreign and
  nothing farther before something nearer.
* Q&A: suggestions from the cache know, of the commits a prompt has room for, every one
  whose analysis is older than the cache's TTL.
* accounts: an account sees the projects of one call's list, not a part or a mixture.
* reports: each line of a git log counts once, for the right person and week.
* wiki: every analysis reaches its module's page.
* identities: merging accounts of the list hides the merged one, never the surviving
  one: every account is represented by one on the list.

## 2. Plan

The order the modules were written in, the most important behaviour first.

1. `JobTable`, `JobQueue` (with `JobLifecycle`, the abstract specification it
   implements, and `JobQueue_proofs`), `WorkerPool` (threads and processes over
   `JobQueue`), `ClaimOrder` (`JobQueue` under requests that never cease), `CliReindex`
   (the CLI beside `JobQueue`).
2. `BranchRegistry`: branch rows under concurrent syncs, the whitelist API and
   index marks; `BranchRegistry_proofs`.
3. `Ingestion`: the webhook, the handlers of all job types and the refs of the git
   layer over the job table: liveness of a push, project status, order of fetch
   and analysis, the wiki's freshness.
4. What is made of an index, and for whom: `Findings`, `CodeIndex`, `ModuleGraph`,
   `Suggestions`, `Accounts`, `Identities`, and the pure functions in `Chunker` and
   `WeeklyReport`, all instantiated by `MCResults`.
5. Proofs: `WorkerPool_proofs` about 1, `Retrieval_proofs` and `Results_proofs` about 4,
   `Ingestion_proofs` about 3, and `FoldLemmas`, which the proofs about functions need.

What would come next: the graph's edges and blast radius, and kills inside git commands.

Runs stay few: one for each question. `Ingestion` and `MCResults` answer several
questions from one state space each.

No module that is proved about declares a RECURSIVE operator; parameters are
CONSTANTS with named assumptions; an invariant is a conjunction of named parts.

## 3. Modules and code

### JobTable, JobQueue, JobLifecycle

`JobTable` is the table and its SQL: `jobs[i]` is the row with id `i`, and there is
one operator for each statement of `queue.py` that changes a row (`InsertRow`,
`ClaimRow`, `CompleteRow`, `FailRow`, `RetryRow`). `Claimable` and `IsNext` are the
`WHERE` and `ORDER BY` of the claim. Timestamps survive only where a query reads
them: `created_at` is the id, `run_after` is the Boolean `due`. Payload, detail,
progress and error text are left out.

`JobQueue` puts threads around the statements.

| action | code | atomic because |
|---|---|---|
| `EnqueueSkips`, `EnqueueSelects`, `EnqueueInserts` | `enqueue` | two autocommitted statements, so two steps |
| `Claim` | `claim` | `BEGIN IMMEDIATE` around select and update |
| `Complete`, `Fail` | `complete`, `fail` | one row, written by the thread that runs it |
| `Retry` | `retry_job` | one `UPDATE ... WHERE status='failed'` |
| `Elapse` | `run_after` passes | clock |
| `Die` | a thread's end without an outcome | nothing resets its row |

`waiting` and `refused` are history variables: keys requested since their last
claim, and retries answered with an error. `RetryCommits` says which of the two
things `retry_job` does: with CPython 3.11, which `backend/Dockerfile` installs, its
commit is refused while the `RETURNING` statement is pending; later interpreters
commit. Every run but one takes TRUE, the behaviour the code intends.

`JobLifecycle` is what the queue promises, without callers, keys or priorities: a
job is submitted, started at most `MaxAttempts` times per submission, finished or
postponed, and write jobs of a project are never running together. `Lifecycle` is
the refinement: `life[i]` is row `i` reduced to project, kind, status and attempts.

### WorkerPool

Extends `JobQueue` with `worker.py`: `pc` follows `_worker_loop` and `_process` (`loop`,
`claim`, `dispatch`, `handler`, `complete` / `empty` / `except`, `finally`), `sem` and
`holds` are the LLM semaphore, `stop` is the flag of the signal handler or "down".
`RecordRaises` is a `queue.complete` that raises inside the `try`, `FailureRaises` a
`queue.fail` that raises in the `except` clause: the thread unwinds through `finally`
and is gone. `ProcessEnds` and `ProcessStarts` are kill, exit and restart by whoever
operates the system; a start leaves the jobs table alone, as `init_db` does. Every
action is written as a `JobQueue` action or leaves the queue's variables unchanged.
`LLM_JOB_TYPES` is the list of `worker.py:18`: the LLM review of a `security_scan`
(`scanner.py:62`) is not on it and outside the semaphore, in the model as in the code.

### ClaimOrder

`JobQueue` bounds the rows there ever are, so that its requests cease. Here they do not:
a row that is done or failed is dropped when its handler ends (`Settle`), as neither
`enqueue` nor `claim` reads it, and the state space is finite because the queue stays
short. `QueueShort` says how short: debouncing admits a request only when none of its
key is queued, so there are never more rows of a key than callers between SELECT and
INSERT and threads whose jobs failed and came back. `ServedInTurn` says who is served.
`queue.py:69` orders by priority before age: unending webhook requests (10) keep a
backfill job (1) from ever being claimed, and the property therefore asks that requests
of a higher priority cease. Among equals the oldest row goes first, and a retried one
keeps its place. Deaths and users' retries are left to `JobQueue`.

### CliReindex

`cmd_reindex` beside the queue: it enqueues like any caller and then runs
`handle_index_build` itself, whatever workers do.

### BranchRegistry

One project, its branches at the remote (external: `Push`, `Vanish`), its rows, the
worker that has the write lock and API threads. A sync (`_sync_branches`) is four
steps, `Fetch`, `ReadDefault`, `ListRemote`, `WriteRows`: only the last is a
transaction, and what the others read may be old by then. `ReadWhitelist`,
`AddWorktree`, `IndexBranch`, `JobEnds` are the loop of `handle_index_build` and the
body of `handle_index_incremental`. `SetWhitelist` and `EnqueueIndex` are the two
halves of the whitelist endpoint. `HandlerRaises` and `ApiStops` may happen anywhere.

Two things the model shows and no property states. A branch that vanishes at the
remote keeps its row and its whitelist mark, so `git worktree add` raises for it in
every later build (`NoSuchBranch`) and the branches after it in the loop of
`handlers.py:62` are not reached. And a sync whitelists a new default branch without
enqueueing an index for it, which is why `WhitelistAccounted` leaves it out.

### Ingestion

One project with one branch from `POST /projects` on: `Push` and `Receive` (external
delivery), `HookEnqueues` (the three enqueues of `webhook.py`), the claim loop, and the
steps of each handler. A ref is the number of its commit: `local` is
`refs/heads/<branch>` of the bare repository, written by `clone --bare` only; `origin`
is `refs/remotes/origin/<branch>`; `tree` is the worktree, `index` the commit the graph
and the vectors were built from; `analysed` the commits with a row; `page` a module's
wiki page with the analyses it was written from (`body`) and those older than its
`updated_at` (`seen`). `ListCommits` takes the longer of two logs, the commits of the
last days (any number of them) and the last `LastCount` ones, and `AnalyseCommit` goes
through them newest first. `Raise` is an exception in a handler at any step, bounded by
`MaxFailures`. The job table is `JobTable`'s; `enqueue` is one step here, because
`JobQueue` has the interleavings inside it and its `RequestsCovered` is what Ingestion
needs from it. `gaveUp` is a history variable, the newest commit that had been asked for
when an incremental build failed for the last time: a failure of an older request is no
excuse for a newer one, and `IndexAccounted` does not accept it as one.

Git commands that run with `check=False` fail without an exception (`Swallows`, counted
by `MaxFailures` too, the jobs noted in `unnoticed`):

* `git reset --hard` of an existing worktree (`worktree.py:31`): the old commit stays
  checked out, is indexed, and the job ends done. The docstring says that an existing
  worktree is brought to the newest commit (`worktree.py:25`). Nothing is retried and
  nothing is on record, so the push is not in the index until another one comes;
  `unreset` notes which commit was missed, and `IndexAccounted` and `PushIndexed` allow
  for commits up to that one and for no others.
* `rev-parse` and `git log` (`history.py:56`, `history.py:71`, `history.py:76`): another
  ref, a shorter list, or none, which is `produced = 0` and failed for good, although
  `fail` keeps that for results that are certain (`queue.py:102`). `Onboarded` and
  `ReportsHaveData` exempt jobs this happened to.
* `git symbolic-ref` (`repo.py`): a sync without a default branch lists none as
  whitelisted, and a full build then has nothing to index.

A failed build leaves `projects.status` at "indexing": `Dashboard.tsx:41` then refuses
to open the project and line 136 shows it as being indexed, until somebody looks into
the list of jobs. `IndexingExplained` states what does hold: there is a failed or
pending build to be found there.

### Findings

`scan_branch` on one branch. A thread's `SaveFindings` is one transaction, and
`_reconcile` after it is a read (`ReadLastTwo`, `NothingToCompare`) and a write
(`Resolve`); `security_scan` is no write job, so several threads are in between at once,
and users set statuses (`UpdateFinding`) at any point. What a scanner reports is any set
of keys (rule, file, line) of the scanners that are switched on: the tree moves under
it, and one that is missing or times out reports nothing (`Reports`). `Tags` are the
four characters of the scan id that finding ids are made of; a save whose tag is in use
raises and stores nothing. `second` is `datetime('now')`: scans of one second have no
order, and `LastTwo` is then any order.

The model shows what the properties leave room for. A scan without findings stores no
row, so it is never "the last scan" and resolves nothing; the findings it no longer has
stay "new" (`scanner.py:199`). An ignored finding that is gone becomes resolved. A
finding that is still there is inserted again with every scan as "new", so a user's
"ignored" holds for the row of one scan only, while the button says "忽略此规则"
(`Security.tsx:294`).

### CodeIndex, Chunker

`CodeIndex` is the vector database: `rows[b]` are the chunks of branch `b` by content,
which stands for its SHA-256. `_index_vectors` is `ChunkRepo`, `SelectFresh` (what the
branch does not have yet), `UpsertChunks` (embedding and the transaction) and
`IndexEnds`; builders overlap because the CLI does not claim (`CliReindex`), and any of
them may raise or be killed at any step (`IndexRaises`). `KnnVec` and `KnnBruteforce`
are the two searches, `Nearest` the sets they may return when distances tie. Each has a
metric of its own: the `vec0` table names none and ranks by Euclidean distance
(`vectors.py:61`), the search without it by cosine (`vectors.py:134`), and nobody
normalises the vectors, so the two may rank, and return, different chunks. `KnnSound`
compares a search with the nearest chunks in its own metric, for every metric.

Nothing is ever removed: chunks of code that is gone are still found, a file that moves
keeps its old module label, and the hash vectors of an unreachable embedding provider
are kept for good although `embedder.py:3` calls them a fallback. `vectors.py:4` and
`vectors.py:97` say that modules filter before the search; `_knn_vec` takes the k
nearest of all branches first, so it may return few chunks or none although k match
(`KnnSound` says that what it returns is right, not that it is all).
`graph_store.py:169` looks up a module's id among symbols, so the radius that `answer`
adds is empty with the engine; the filter is then by the seed modules only.

`Chunker` is `chunk_file` over lines that begin a definition, hold other code or are
blank: line numbers and boundaries are kept, text is not.

### ModuleGraph

The graph file of a branch as the built-in parser (`engine.py:89`) writes it: `Unlink`,
`Connect`, the `CREATE TABLE`s, each committed by itself, and one transaction with all
rows (`Fill`). The queue runs one build at a time; the CLI's runs beside it
(`CliReindex`), so builders overlap. A reader (`GraphStore`) keeps the file it has
opened, even when it is no longer at the path, so `graphs` is indexed by file.
`OneGraph` says that its answers come from one build; the mutant keeps the old file and
writes into it. There is one exception, which the property names: a build that connects
to a file another one has created after the first removed the old one (`shared`) writes
its rows among the other's, and a reader of that file may be told of both.

A reader that comes between the first `CREATE TABLE` and the commit is told that there
are no modules, or that a table is missing, and after a build that breaks off there the
next ones are, too. `backend/pyproject.toml:20` installs `code-review-graph`; where it
is there the file is the engine's, whose code is not in the repository, and the module
says nothing about it.

### Suggestions

The cache entry of one project and branch: `made` is the set of analyses it was made
from. The commits are numbered in the order of `committed_at`; `arrived` is when the
analysis of each was stored, in any order. A request is three steps (`Misses`,
`ReadCommits`, then `Questions` or `NoQuestions`), with time, analyses and other
requests in between. It reads the newest `RecentLimit` (20) analysed commits of the
project, whatever the branch, and its prompt has the newest `PromptLimit` (15) of them.
`now` is taken once, at the start (`retriever.py:48`), which is what makes
`SuggestionsFresh` true however long the LLM takes; the mutant stamps the entry at its
end. Commits beyond the limits are unknown to the suggestions, and the property claims
nothing of them.

### Accounts, Identities

`Accounts` is `tx` (`BEGIN IMMEDIATE`, commit, rollback, the 30 s time-out) with its
three users that write more than one row: `bootstrap_admin`, `create_user`,
`set_access`. `draft` is what the open transaction sees, `db` what all others see.
Disabling, logging in and API keys are single statements and left out.

`Identities` is the rows of one project: `ResolveIdentities` is the upsert of the
authors the platform names, `Merge` one `UPDATE`. `merge_identities` accepts anything
(`identity.py:131`), the API asks only for an administrator, and `Merge` has no guard
either: an account may be merged into itself, into one that does not exist, or again.
`misled` notes that a merge was not one of two different accounts that the list shows at
that time; until then everybody is represented. The list a page shows may be older than
that: two merges from one list (a into b, b into a) hide both, although the page says
that several identities of a developer can be merged by hand (`Users.tsx:344`). Reports
map an address to an account with `LIKE '%email%'` and do not look at `merged_into`.

### WeeklyReport

The functions of `reports/weekly.py` and the log reader and adder of the contributor
report: weeks as intervals of days, `Selected` what git takes `--since` and `--until` to
mean (a date without a time is that day at the hour it is now, and both ends are
included), `ReadLine` and
`ParseGitLog` over lines that are a commit, a file or anything else, `ReadIncluded` and
`ParseNumstat`, which leave out files of excluded directories, `AggregateByAuthor`
with the `AuthorStats` of each author, and `Quality`, the score times 550000 times the
number of commits, which makes it an integer without rounding. `Attributed` says what
statistics of a log ought to be without reading it line by line: a file is its
author's whose commit line is the last one above it.

The comment of `weekly.py:88` says "git --until 为开区间,用本周一 00:00 截止", an open interval
that ends this Monday at 00:00. It does not: a report made at 9 takes in the commits of
this Monday up to 9 and leaves out those of last Monday before 9, and reports of two
weeks made at different hours may both have a commit of the Monday between them, or
neither. `WeeksTile` (`Tiles`) states what does hold: commits of other days are in the
report of their week and in no other, whatever the hour; one of a Monday is in no report
but those of its week and the week before, in one of them when both are made at the same
hour, and in both only when it was made at that very hour.

## 4. Runs

| run | result | question and bounds |
|---|---|---|
| `queue_safety` | passes, 170 000 states | Is a project's repository never in two write handlers, a row never run twice, an attempt never too many, a request never lost, and is the queue an implementation of `JobLifecycle`? Two callers, two threads that may die, three rows, two projects, two attempts |
| `queue_retry` | `RetryAccepted` violated | Can a failed job be retried on the deployed interpreter? |
| `pool_safety` | passes, 670 000 states | Are permits conserved, LLM handlers limited and jobs accounted for on every path, and do write handlers of one project exclude each other? Two processes, three threads, two rows, deaths and restarts |
| `pool_live` | passes, 100 000 states | Pool: is every job settled (`JobsSettle`), is no row orphaned? One process, two threads, one permit. Queue under unending requests: does it stay short, is each served unless higher priorities never cease (`ServedInTurn`)? Two callers, three keys of two priorities, two of them write jobs, one attempt; and one caller, two keys, two attempts |
| `pool_crash` | `CrashHealed` violated | Does a restart heal the jobs of a killed process? |
| `cli_serial` | `CliExclusive` violated | Does the CLI's rebuild exclude the write jobs of the workers? |
| `registry_safety` | passes, 510 000 states | Do syncs of any age keep what users and builds wrote? One worker, one API thread, two branches, two commits |
| `ingest_safety` | passes, 2 300 000 states | Is a delivered push accounted for, do reports wait for data, is a project never left indexing without a trace, does no worktree move under an index? Two threads, one push, one failure, raised or swallowed |
| `ingest_live` | passes, 130 000 states | With one failure, raised and retried or swallowed: is a created project onboarded, is a push indexed? |
| `ingest_analyse` | `PushAnalysed` violated | Is a pushed commit analysed? |
| `ingest_wiki` | `WikiComplete` violated | Does the wiki have all analyses when everything is done? |
| `results_safety` | passes, 520 000 states | Findings: does a finding change only when a user or a newer scan says so (`OnlyTheGone`), and are the last two scans compared (`BaselineCompared`)? Index: can all of the last index be found (`Searchable`), is a search right (`KnnSound`)? `OneGraph`, `SuggestionsFresh`, `AccessWhole`, `Represented`. Functions: `ChunksCover`, `LogConserved`, `WeeksTile`, `QualityFair` |

`queue_safety` also covers the one divergence of the queue that has no run of its own:
`enqueue` says "同 project+type+branch 已有 queued 则跳过" (`queue.py:28`), but two callers
between its SELECT and its INSERT both insert. The cost is a superfluous job, not a
lost one: `RequestsCovered` holds with both rows there. The key it compares leaves the
payload out (`queue.py:33`): a `period_report` for 90 days is dropped while one for 30
days is queued; the models have no payload.

The other divergences that section 3 describes (a reset or a log that fails unnoticed, a
search with fewer chunks than match, merges from an old list, the hour of the weekly
reports) have no violated run either: each is an exception that a property of a passing
run names, or a case it says nothing about.

What the violations show:

* `RetryAccepted`: `queue.py:145` commits before it fetches the returned row; on
  CPython 3.11 the commit raises, the row stays failed and the request answers 500.
* `CrashHealed`: nothing resets a row whose process is gone. If it is a write job the
  project's write lock is gone with it. (Requeueing at start would be wrong with two
  processes: that is the mutant `Die_requeuesAll`, which breaks `OwnsRunning`.)
* `CliExclusive`: `cli.py:348` calls the handler while a worker is inside a write
  handler of the same project, possibly of the very job the CLI has enqueued.
* `PushAnalysed`: `history.py:56` prefers `refs/heads/<branch>`, which the clone
  creates and no fetch moves; new commits are never in the log that is analysed.
* `WikiComplete`: a page written while, or before, the last commits are analysed
  stays without them, since nothing enqueues `wiki_gen` when an analysis ends and
  the page's timestamp is that of its writing.

### Why the bounds are enough

* Every exclusion or ownership property is about two parties: two threads, and for
  the write lock two rows of one project beside one of another. A third row is what
  lets a queued row be claimed while one runs and one has failed.
* `MaxAttempts = 2` has both outcomes of the comparison in `fail`; 1 in
  `ingest_safety` makes the one exception final, 2 in `ingest_live` makes it a retry.
  `MaxFailures = 1` is one failure at any place, an exception or an unnoticed one.
* In the part of `pool_live` where requests never cease `MaxJobs` is more than
  `QueueShort` lets be queued, so that no request is ever cut off by it.
* Three threads on two processes have two that share a semaphore of one permit and
  one that must not count.
* `MaxCommits = 2` is one push after the clone. A second push while the first is
  being processed differs from it in numbers only, except for debouncing, which
  `BusyInit` covers: an onboarded project with a manual `index_incremental` queued, so
  that a push meets a job of its own key in every stage.
* Two branches are the default one and another; a sync, a build and a whitelist call
  on each are what interleaves.
* The parts of `MCResults` share no state, so a behaviour runs one of them. Two threads
  on three scans of two keys: the last two and one that is in neither place; scans of
  one second and of different ones. Two builders, branches, contents and modules with k
  = 2: fewer, as many and more rows than a search returns. Two overlapping graph builds
  of three files in two modules, two database files, and one reader, since readers do
  not affect each other. Two requests around a TTL of two ticks on a clock of three,
  three commits of which a request reads two and its prompt has one. Two clients, two
  accounts, two projects and one that does not exist. Three identities: a chain of two
  merges, and every cycle.
* Files of six lines with chunks of at most four; logs of four lines of two authors;
  three weeks of days with every hour of a commit and four hours of the report; weeks
  of one to four commits with churn around each threshold of the score. For these
  functions the bounds only decide what TLC sees: `FilesCovered`, `LogsAttributed`,
  `WeeksMeet` and `WeeksFair` prove the same of all inputs.
* Symmetry is used in safety runs only, over threads, callers and projects that no
  action tells apart.

Deadlock is checked where the system always has a step (`registry_safety`, the pool
runs); the other runs switch it off because their behaviours end: the bounds on rows,
commits and failures are used up and all jobs are settled.

### Fairness

`FairPoolSpec`: weak fairness of each thread's step, of the insert that follows a
select, of backoffs and of restarts. Justification: a thread loops until it is told to
stop (`worker.py`), and an LLM call and a scanner have timeouts. Two assumptions are not
the code's: that git commands return (they have no timeout, `git/repo.py:60`; listed as
a hazard), and that a worker that is down is started again (`docker-compose.yml` has no
restart policy). Only `pool_crash` rests on the latter, and it refutes `CrashHealed` in
spite of it. Users and callers that have not begun have no fairness; the liveness
properties are conditional on users no longer retrying (`PoolRetriesStop`). Weak
fairness of a thread is enough although the thread may wait for a permit: with one
process and no deaths the holder always comes to its `finally`.

`LiveFairness` (`MCPoolLive`) is that in the pool. In the queue under unending requests
it is weak fairness of the insert, of each thread's claim, of the end of each handler
(whichever it is) and of each backoff. No caller has to begin, none has to stop.

`FairSpec` of Ingestion: the webhook, once delivered, ends; each thread's claim and
handler steps, and backoffs. Nothing is assumed of pushes or failures, noticed or not.

## 5. Proofs

Eight modules prove their theorems for every value of the constants that satisfies the
named assumptions, which TLC evaluates in the runs: any number of callers, threads,
projects, branches, rows, commits, exceptions, scans, builders or requests. Every
invariant and every action property of a passing run is stated by a theorem, except
`QueueShort`.

| module | about |
|---|---|
| `FoldLemmas` | lemmas about numbers, recursive functions, folds and sums |
| `JobTable_proofs` | lemmas: what each statement on the jobs table does to which row |
| `JobQueue_proofs`, `WorkerPool_proofs` | the queue, the pool over it |
| `BranchRegistry_proofs` | the branch rows |
| `Ingestion_proofs` | the webhook, the handlers, the refs |
| `Retrieval_proofs` | `CodeIndex`, `ModuleGraph`, `Suggestions` |
| `Results_proofs` | `Findings`, `Accounts`, `Identities`, `WeeklyReport`, `Chunker`, and all parts together |

What the assumptions say beyond the constants' types: the sets of workers (of the pool),
branches and contents (of `CodeIndex`) and persons are finite; a "none" is not one of
the things it stands beside; workers and API threads are different threads; the limits
(`MaxAttempts`, `LlmWorkers`, `MaxLines`, a project's first commit) are at least one.

**JobQueue_proofs.** `IInv` is `TypeOK`, `WriteSerial`, `OwnsRunning` and
`AttemptsBounded`. None is inductive alone. `complete` and `fail` write their row
whatever its status is, so `WriteSerial` and `AttemptsBounded` (whose second half says
that a queued row has an attempt left) need `OwnsRunning`: the row they write is
running, and its attempts were counted by the claim. `OwnsRunning` in turn needs `Claim`
to select a queued row only, and `Retry` a failed one. Each statement on the table has a
lemma that says which row it sets to what and that it leaves the others alone
(`ClaimSets`, `CompleteSets`, ...); the step for each action cites it.

| theorem | property |
|---|---|
| `TypeCorrect` | `TypeOK` |
| `SerialWrites` | `WriteSerial`: rows of write jobs of a project |
| `Exclusion` | `ExclusiveExecution`: threads inside write handlers, from `WriteSerial` and `OwnsRunning` |
| `BoundedAttempts` | `AttemptsBounded` |
| `NoRequestLost` | `RequestsCovered`, inductive together with `IInv` |
| `Ownership` | `OwnsRunning` |
| `NoneOrphaned` | `NoOrphan`, when nothing crashes: a running row has a thread that is alive |
| `Implements` | `Lifecycle`: `Init` maps to `Init`, each action to `Submit`, `Start`, `Finish`, `Postpone`, `Resubmit` or a stutter |

`Implements` uses `IInv` on both sides of a step: `Start` needs `tries < MaxAttempts`
and no running write job, `Finish` and `Postpone` need the row to be running.

**BranchRegistry_proofs.** `IInv` adds three facts to the properties. `TodoKnown`: what
a build or a caller still has to do has a row; without it `IndexBranch` could update a
row that is not there. `DefaultIsHead`: a stored default branch wins over HEAD
(`handlers.py`), so no two syncs ever disagree about it, and the mark `isDefault` never
moves to a branch a user has excluded. `NothingOwed`: a caller outside the whitelist
endpoint has nothing to enqueue. `RowsStep` summarises what any step does to the rows;
it gives `DefaultIncluded` and `SyncKeepsOthers` at once. `WhitelistAccounted` is one
lemma for each place a branch that is owed an index can be in: asked for, queued, with a
caller, with a worker.

| theorem | property |
|---|---|
| `RegistryTypeCorrect` | `RegistryTypeOK` |
| `DefaultStaysIncluded` | `DefaultIncluded` |
| `WhitelistIsAccounted` | `WhitelistAccounted` |
| `SyncsKeepOthers` | `SyncKeepsOthers` |

Assumed: `HEAD` of the bare repository is one branch for the project's life (nothing in
the code sets it after the clone), and a row is not the value `None`.

**WorkerPool_proofs.** `PoolInv` is `IInv` of the queue, the types, and four facts.
`HasJob`: a thread is past its claim exactly if it has a job. `PermitsHeld`: permits are
held inside `_process` only, and by every thread in an LLM handler. `DownDead`: a
process that is down has no thread. `SemaphoreConserved`: the permits that are left and
the threads that hold one add up; its step is arithmetic on the cardinality of the
holders, a finite set because the workers are. A step of the pool is one of the queue or
none (`StepsOfQueue`, by the way its actions are written), so the invariant of
`JobQueue_proofs` is kept by it; `PoolExclusion` follows through kills and restarts.

| theorem | property |
|---|---|
| `PoolExclusion` | `ExclusiveExecution`, of the pool |
| `PoolTypeCorrect`, `Accounted` | `PoolTypeOK`, `ThreadsAccount` |
| `PermitsConserved`, `LlmRateLimited` | `SemaphoreConserved`, `LlmLimited` |

**Ingestion_proofs.** `IInv` has seven parts, each of which some property rests on.

* `Types`, which need the others: a handler that reads a row has one (`Owner`), and a
  ref that is read is there (`Behind`).
* `Control`: all rows are of the project; a busy thread runs a running row that is no
  other thread's (`Owner`) and is at a step its job type has (`InPlace`); write handlers
  exclude each other (`Exclusive`). This is what `JobQueue_proofs` shows with `enqueue`
  in two steps, here with handlers that enqueue further rows in the middle.
* `Overlooked`: what is noted of unnoticed failures is of rows there are.
* `Behind`: index, worktree, tracking ref and remote are one behind the other, so that a
  fetch or a checkout never takes something away; a commit that a failed reset missed
  (`unreset`) had been fetched.
* `Accounting`: an incremental build is at a step that already has what was asked for,
  or another one is queued, or none is since one has failed for good (`Building`,
  `Pending`, `GaveUpOnRecord`). The case that matters is a push that comes while a build
  is behind its fetch: debouncing looks at queued rows only, so the push queues a second
  build. What a build behind its checkout has is the worktree's commit, and that may be
  less than it fetched: then the reset failed and `unreset` is at least what was asked
  for, which is the one excuse `Building` and `Pending` admit.
* `DataFirst`: an analysis enqueues reports only when it has stored something, so that a
  report comes up empty only if its own log failed unnoticed.
* `Unfinished`: while the status is "indexing" there is a build that has not set it to
  "active" yet, with a row that is queued, failed or a thread's.

Each part has a lemma for its step (`ControlStep`, `BehindStep`, `TypesStep`,
`AccountingStep`, `DataFirstStep`, `UnfinishedStep`). They rest on what all handlers
have in common: a step moves one thread from a place of its type to another
(`HandlerMoves`), and enqueueing only adds rows, and only those of the requests
(`Grown`).

| theorem | property |
|---|---|
| `IngestionInductive` | `IInv` |
| `IngestionTypes` | `IngestTypeOK` |
| `CommitsAccounted` | `IndexAccounted` |
| `ReportsFindData` | `ReportsHaveData` |
| `IndexingHasBuild` | `IndexingExplained` |
| `IndexNotDisturbed` | `IndexUndisturbed`, an action property: only the thread that builds moves the worktree |

**FoldLemmas.** The functions of the model are folds and recursive functions over logs,
files and sets, and what they compute is proved by induction. The library's induction
theorems take an operator as a parameter, which the provers cannot instantiate; these
lemmas take a set instead. `CountingUp`: a set of numbers that has 0 and the successor
of each of its elements below N has all numbers up to N, because the numbers it lacks
would have a least one (`LeastNumber`, from the library's facts on well-founded
relations). `SmallSets` is the same for finite sets. `Iterates` and `FoldExists` show
that the recursive functions and the folds of the community modules exist and what they
are at each step; `Total`, `TotalUnion`, `TotalOnes` and `TotalOfTotals` are the
arithmetic of `SumFunctionOnSet`.

**Retrieval_proofs, CodeIndex.** `Accounted`: each chunk a builder has cut is in its
branch already or among those it is about to store, and after the store all are. Rows
only grow, so a chunk that was there before the embedding is there when the build ends.
`RecallSound` is about the two searches: the one with sqlite-vec takes the k nearest
rows of all branches and keeps those of the branch and the modules, which are then part
of some k nearest of these; that set is completed row by row, by induction over what is
missing. The distance is any function to numbers, so the theorem holds of each search in
its own metric, Euclidean or cosine, and says nothing that needs them to agree.

**Retrieval_proofs, ModuleGraph.** `Began`: a build that has no file yet remembers the
last one there was, and one that has created a file, or found it, is at work on one that
exists. `OneBuild`: the committed rows of a file that is not shared are of one build,
and there are none before it commits; two builders are at one such file never. `Told`: a
reader has been told nothing yet, or what is in the file it has open, if that is not
shared; rows that it has read stay, since a build writes into a file of its own or makes
it a shared one.

**Retrieval_proofs, Suggestions.** `Complete(read, at)`: what was read contains every
analysis stored before `at` that is among the newest. It holds of a request and its
`now`, because the read comes after `now` and analyses arrive at the present time, and
is handed to the cache with that `now` as the timestamp. Commits that arrive later push
others off the end of the list, never onto it (`NewestOfPart`), so a commit that is
among the newest now and was analysed before the read was among the newest then, and the
prompt, which is the newest part of what was read, has it. An analysis one TTL old was
stored before the timestamp of an entry that is still fresh.

**Results_proofs, Findings.** `ReadInOrder`: what a thread behind its read compares are
two scans on record, the first not older; rows on record keep their time and their keys,
so that stays true. With it each step changes a status for one of the two reasons of
`OnlyTheGone`. `BaselineInv`: of the last two scans, what is gone is closed, or a thread
is behind its save and will read, or has read just these two. A save that makes two
other scans the last two is itself behind its save, and a thread that resolves an older
pair leaves this one to the thread that saved last.

**Results_proofs, Accounts.** `Locked`: the writer, and nobody else, is inside a
transaction. `Owned`: access rows belong to accounts, so a new account begins with none.
`Progress`: the draft differs from the committed rows at the account of the call only,
which has what was asked for except what is still to be inserted.

**Results_proofs, Identities.** The invariant says that there is a function `D`, for
each account itself and the accounts that were merged into it, directly or not
(`Following`); `merged_into` leads to an account that has strictly more of them, so that
a walk along it ends, on an account that is merged into none. It is claimed until a
merge is recorded in `misled`: a merge of two accounts that the list shows extends `D`
(`MergeListed`), because neither is merged into another; one whose source has no row
changes nothing; `WalkIs` shows that the accounts `MergedInto` visits are those of such
a walk.

**Results_proofs, Chunker.** `FilesCovered`, by induction over the lines of the file:
after each line the buffer holds the last ones, fewer than the limit (`CutAt`), and the
chunks are pieces of those before it, in order, that have each line with text once
(`Covered`).

**Results_proofs, WeeklyReport.** `LogsAttributed`: after k lines there is a commit for
each commit line among them, in their order, with the files and the churn that follow it
up to the next one (`AsRead`); the statistics are sums over an author's commits, and so,
by `TotalOfTotals`, sums over the author's files. `WeeksMeet` is the arithmetic of `%`
and `\div` on `Tiles`, for every day, hour of the report and hour of a commit,
`WeeksFair` that of the score, with lemmas for the two terms that have cases (`FocusOf`,
`SizeOf`).

**All parts.** The parts of `MCResults` share no variable: `SideBySide` shows that each
of its behaviours is a behaviour of every part, and `ResultsSafe` collects what follows.
The functions are evaluated in the states that hold an input, which are inputs of the
theorems.

| theorem | property |
|---|---|
| `OnlyTheGoneChanges`, `Compared` | `OnlyTheGone`, `BaselineCompared` |
| `NothingUnsearchable`, `AlwaysSound` | `Searchable`, `KnnSound` |
| `AlwaysOneGraph` | `OneGraph` |
| `AlwaysFresh` | `SuggestionsFresh` |
| `WholeLists` | `AccessWhole` |
| `AlwaysRepresented` | `Represented` |
| `FilesCovered`, `AlwaysCovered` | for files of any length; `ChunksCover` |
| `LogsAttributed`, `AlwaysConserved` | for logs of any lines; `LogConserved` |
| `WeeksMeet`, `AlwaysTiled` | for all days and hours, both ends of a week included; `WeeksTile` |
| `WeeksFair`, `AlwaysFair` | for all weeks; `QualityFair` |
| `SideBySide`, `ResultsSafe` | the parts together |

## 6. What is only model-checked

Liveness under fairness is out of the prover's reach and stays with TLC: `JobsSettle`,
`ServedInTurn`, `Onboarded` and `PushIndexed`, within the bounds of section 4. So do
`QueueShort`, which is checked together with `ServedInTurn`, and the five properties
that a run violates, for which one behaviour is enough.

## 7. What is not modelled

* What an analysis, an answer, a page or a finding says, and with it the placeholder of
  a failed LLM call that stays in the permanent cache of analyses, and the analysis of a
  commit whose `git show` failed unnoticed (`history.py:99`), which stays there as well.
* The embedder: one vector for each text is assumed. A provider that returns fewer
  leaves the last chunks out without an error (`vectors.py:77`, a `zip`).
* LLM calls outside the LLM job types (`scanner.py:62`), which no semaphore counts.
* The graph's edges, layout and blast radius; drift; DuckDB aggregation, blame, and
  the wording of reports. `period_report` reads its own window, whatever
  `range_spec` it is sent.
* The names of branches: `worktree.py:15` maps `a/b` and `a__b` to one directory.
* Passwords, sessions, API keys, settings: single statements on single rows, or
  constants of the models. Frontend, deployment and the older copy under
  `backend/code-review`: no part of the running state.
* A kill in the middle of a git command (a half clone, a stale lock) and a git
  command that never returns: listed as hazards with the reason.
