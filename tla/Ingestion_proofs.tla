-------------------------- MODULE Ingestion_proofs --------------------------
(* Theorems about Ingestion, for any number of threads, commits, attempts and exceptions. *)
EXTENDS Ingestion, JobTable_proofs, FoldLemmas, TLAPS

(***************************************************************************)
(* The inductive invariant, part by part.                                  *)
(***************************************************************************)
AskedTypes == {"fetch", "index_incremental", "commit_analyze"}

ThreadTypes ==
    /\ jobs \in Seq(Row)
    /\ exec \in [Workers -> Nat]
    /\ at \in [Workers -> Stages]

GitTypes == {remote, local, origin, tree, index} \subseteq 0..MaxCommits

DataTypes ==
    /\ read \in [Workers -> SUBSET Commits]
    /\ listed \in BOOLEAN
    /\ status \in {"pending", "indexing", "active"}
    /\ analysed \subseteq Commits
    /\ page \in [body : SUBSET Commits, seen : SUBSET Commits, exists : BOOLEAN]

HistoryTypes ==
    /\ hook \in [deliveries : Nat, todo : Seq(Request)]
    /\ asked \in [AskedTypes -> 0..MaxCommits]
    /\ raised \in 0..MaxFailures /\ {gaveUp, unreset} \subseteq 0..MaxCommits

Types == ThreadTypes /\ GitTypes /\ DataTypes /\ HistoryTypes

\* What failed unnoticed is a job.
Overlooked == unnoticed \subseteq Ids

\* All rows, and all requests to come, are of the one project.
OneProject ==
    /\ \A i \in Ids : jobs[i].project = Project
    /\ \A k \in DOMAIN hook.todo : /\ hook.todo[k].project = Project
                                   /\ hook.todo[k].type \in AskedTypes

\* A busy thread runs a row that is running, and is the only one that does.
Owner ==
    \A w \in Workers :
        /\ Idle(w) <=> at[w] = "idle"
        /\ ~Idle(w) => exec[w] \in Ids /\ jobs[exec[w]].status = "running"
        /\ ~Idle(w) => \A v \in Workers : exec[v] = exec[w] => v = w

\* Where the handler of a job of some type can be.
Places(type) ==
    CASE type = "fetch" -> {"git", "sync", "done"}
      [] type = "index_build" ->
            {"git", "status", "sync", "checkout", "build", "activate", "follow", "empty", "done"}
      [] type = "index_incremental" -> {"git", "checkout", "build", "done"}
      [] type = "commit_analyze" -> {"list", "analyse", "follow", "empty", "done"}
      [] type = "wiki_gen" -> {"gather", "write", "empty", "done"}
      [] OTHER -> {"report", "empty", "done"}

InPlace == \A w \in Workers : ~Idle(w) => at[w] \in Places(Type(w))

\* Write handlers run one at a time.
Exclusive ==
    \A v, w \in Workers :
        /\ ~Idle(v) /\ Type(v) \in WRITE_TYPES
        /\ ~Idle(w) /\ Type(w) \in WRITE_TYPES
        => v = w

Control == OneProject /\ Owner /\ InPlace /\ Exclusive

\* What is built is behind what is checked out, and so on up to the remote.
Behind ==
    /\ 0 < remote
    /\ index <= tree /\ tree <= origin /\ origin <= remote /\ local <= remote
    /\ unreset <= origin
    /\ hook.deliveries <= remote
    /\ \A t \in AskedTypes : asked[t] <= remote

IncrementalQueued == \E i \in Ids : IsIncremental(i) /\ jobs[i].status = "queued"

IncrementalRuns == \E w \in Workers : ~Idle(w) /\ Type(w) = "index_incremental"

\* An incremental build that has fetched has what was asked for, or another is queued,
\* or a reset to it failed.
Building ==
    \A w \in Workers :
        ~Idle(w) /\ Type(w) = "index_incremental" =>
            \/ IncrementalQueued
            \/ asked["index_incremental"] <= unreset
            \/ at[w] = "git"
            \/ at[w] = "checkout" /\ asked["index_incremental"] <= origin
            \/ at[w] = "build" /\ asked["index_incremental"] <= tree
            \/ at[w] = "done" /\ asked["index_incremental"] <= index

\* What was asked for and is not indexed has a build to come, or none since one failed
\* or the reset to it did.
Pending ==
    index < asked["index_incremental"] =>
        \/ IncrementalQueued
        \/ asked["index_incremental"] <= unreset
        \/ IncrementalRuns
        \/ gaveUp = asked["index_incremental"]

GaveUpOnRecord ==
    gaveUp # 0 => \E i \in Ids : IsIncremental(i) /\ jobs[i].status = "failed"

Accounting == Building /\ Pending /\ GaveUpOnRecord

ReportTypes == {"period_report", "contributor_report"}

\* There are no reports before there are analyses, and an analysis that has listed
\* commits has analysed some when none are left.
Listed(w) ==
    /\ at[w] = "analyse" => BareRef # 0 /\ (read[w] # {} \/ analysed # {})
    /\ at[w] = "follow" /\ Type(w) = "commit_analyze" => BareRef # 0 /\ analysed # {}
    /\ at[w] = "empty" /\ Type(w) \in ReportTypes => exec[w] \in unnoticed

DataFirst ==
    /\ (\E i \in Ids : jobs[i].type \in ReportTypes) => analysed # {} /\ BareRef # 0
    /\ \A w \in Workers : Listed(w)

\* Build i is still to come, or has failed, or has not set the status yet.
StillToBuild(i) ==
    /\ i \in Ids /\ jobs[i].type = "index_build"
    /\ \/ jobs[i].status \in {"queued", "failed"}
       \/ \E w \in Workers : exec[w] = i /\ at[w] \notin {"idle", "follow", "done"}

\* While the status is "indexing" there is a build that has not set it to "active" yet.
Unfinished == status = "indexing" => \E i : StillToBuild(i)

IInv == Types /\ Overlooked /\ Control /\ Behind /\ Accounting /\ DataFirst /\ Unfinished
-----------------------------------------------------------------------------
(***************************************************************************)
(* Enqueueing.                                                             *)
(***************************************************************************)
\* t is s and rows that were made from requests of R.
Grown(s, t, R) ==
    /\ t \in Seq(Row)
    /\ DOMAIN s \subseteq DOMAIN t
    /\ \A i \in DOMAIN s : t[i] = s[i]
    /\ \A i \in DOMAIN t \ DOMAIN s : \E r \in R : t[i] = NewRow(r)

LEMMA NewRowIs ==
    ASSUME NEW r \in Request
    PROVE  /\ NewRow(r) \in Row /\ NewRow(r).status = "queued" /\ Key(NewRow(r)) = Key(r)
           /\ NewRow(r).type = r.type /\ NewRow(r).project = r.project
  BY DEF NewRow, Request, Row, Statuses, Key

\* enqueue keeps the rows, and what was asked for is queued then.
LEMMA AddGrows ==
    ASSUME NEW s \in Seq(Row), NEW r \in Request
    PROVE  /\ Grown(s, Add(s, r), {r})
           /\ \E i \in DOMAIN Add(s, r) : /\ Add(s, r)[i].status = "queued"
                                         /\ Key(Add(s, r)[i]) = Key(r)
  <1>1. CASE \E i \in DOMAIN s : s[i].status = "queued" /\ Key(s[i]) = Key(r)
    <2>1. Add(s, r) = s
      BY <1>1 DEF Add
    <2>2. QED
      BY <1>1, <2>1 DEF Grown
  <1>2. CASE ~\E i \in DOMAIN s : s[i].status = "queued" /\ Key(s[i]) = Key(r)
    <2>1. Add(s, r) = Append(s, NewRow(r))
      BY <1>2 DEF Add
    <2> DEFINE t == Add(s, r)
    <2>2. /\ t \in Seq(Row)
          /\ DOMAIN t = DOMAIN s \cup {Len(s) + 1}
          /\ t[Len(s) + 1] = NewRow(r)
          /\ \A i \in DOMAIN s : t[i] = s[i]
      BY <2>1, NewRowIs, AppendRow
    <2> HIDE DEF t
    <2>3. Grown(s, t, {r})
      BY <2>2 DEF Grown
    <2>4. t[Len(s) + 1].status = "queued" /\ Key(t[Len(s) + 1]) = Key(r)
      BY <2>2, NewRowIs
    <2>5. QED
      BY <2>2, <2>3, <2>4 DEF t
  <1>3. QED
    BY <1>1, <1>2

LEMMA GrownTwice ==
    ASSUME NEW s, NEW t, NEW u, NEW R, NEW Q, Q \subseteq R, Grown(s, t, R), Grown(t, u, Q)
    PROVE  Grown(s, u, R)
  BY DEF Grown

\* Enqueueing several requests, in order.
LEMMA AddAllGrows ==
    ASSUME NEW s \in Seq(Row), NEW rs \in Seq(Request), NEW R, \A k \in DOMAIN rs : rs[k] \in R
    PROVE  Grown(s, FoldLeft(Add, s, rs), R)
  <1> DEFINE Acc == Seq(Row)
             N == Len(rs)
             Step == [p \in Acc \X Nat |-> IF p[2] \in 1..N THEN Add(p[1], rs[p[2]]) ELSE p[1]]
             Eq(f) == f = [T \in SUBSET DOMAIN rs |->
                             IF T = {} THEN s ELSE Add(f[T \ {Max(T)}], rs[Max(T)])]
             iter == CHOOSE f : Eq(f)
  <1>1. N \in Nat /\ DOMAIN rs = 1..N /\ \A k \in 1..N : rs[k] \in Request
    OBVIOUS
  <1>2. Step \in [Acc \X Nat -> Acc]
    <2>1. \A t \in Acc, k \in 1..N : Add(t, rs[k]) \in Acc
      BY <1>1, AddGrows DEF Grown
    <2>2. QED
      BY <2>1
  <1>3. \E g \in [SUBSET (1..N) -> Acc] : Folds1(g, N, s, Step)
    <2> HIDE DEF Step, Acc
    <2>1. s \in Acc
      BY DEF Acc
    <2>2. QED
      BY <1>1, <1>2, <2>1, FoldExists
  <1>4. PICK g \in [SUBSET (1..N) -> Acc] : Folds1(g, N, s, Step)
    BY <1>3
  <1>5. Eq(g)
    <2>1. ASSUME NEW T \in SUBSET (1..N), T # {}
          PROVE  Step[<<g[T \ {Max(T)}], Max(T)>>] = Add(g[T \ {Max(T)}], rs[Max(T)])
      <3>1. Max(T) \in T
        BY <1>1, <2>1, MaxIs, T \subseteq 0..N
      <3>2. g[T \ {Max(T)}] \in Acc /\ Max(T) \in 1..N /\ Max(T) \in Nat
        <4>1. Max(T) \in 1..N /\ T \ {Max(T)} \in SUBSET (1..N)
          BY <3>1
        <4>2. g[T \ {Max(T)}] \in Acc
          BY <1>4, <4>1
        <4>3. QED
          BY <1>1, <4>1, <4>2
      <3>3. QED
        BY <3>2
    <2>2. \A T \in SUBSET (1..N) :
            g[T] = IF T = {} THEN s ELSE Step[<<g[T \ {Max(T)}], Max(T)>>]
      BY <1>4 DEF Folds1
    <2>3. \A T \in SUBSET (1..N) :
            g[T] = IF T = {} THEN s ELSE Add(g[T \ {Max(T)}], rs[Max(T)])
      BY <2>1, <2>2
    <2>4. g = [T \in SUBSET (1..N) |-> g[T]]
      BY <1>4
    <2>5. QED
      BY <1>1, <2>3, <2>4
  <1>6. Eq(iter)
    BY <1>5
  <1>7. FoldLeft(Add, s, rs) = iter[DOMAIN rs]
    BY DEF FoldLeft, MapThenFoldSet
  <1> HIDE DEF iter
  <1>8. iter[{}] = s
    BY <1>6
  <1>9. \A k \in Nat : k < N => iter[1..(k + 1)] = Add(iter[1..k], rs[k + 1])
    <2>1. SUFFICES ASSUME NEW k \in Nat, k < N
                   PROVE  iter[1..(k + 1)] = Add(iter[1..k], rs[k + 1])
      OBVIOUS
    <2>2. 1..(k + 1) \in SUBSET DOMAIN rs
      BY <1>1, <2>1
    <2>3. iter[1..(k + 1)] = Add(iter[(1..(k + 1)) \ {Max(1..(k + 1))}], rs[Max(1..(k + 1))])
      BY <1>6, <2>2, UpTo
    <2>4. QED
      BY <2>3, UpTo
  <1> DEFINE S == {k \in Nat : Grown(s, iter[1..k], R)}
  <1>10. 0 \in S
    BY <1>8, 1..0 = {} DEF Grown
  <1>11. \A k \in Nat : k < N /\ k \in S => k + 1 \in S
    <2>1. SUFFICES ASSUME NEW k \in Nat, k < N, Grown(s, iter[1..k], R)
                   PROVE  Grown(s, iter[1..(k + 1)], R)
      OBVIOUS
    <2>2. rs[k + 1] \in Request /\ rs[k + 1] \in R
      BY <1>1, <2>1
    <2>3. iter[1..k] \in Seq(Row)
      BY <2>1 DEF Grown
    <2>4. Grown(iter[1..k], iter[1..(k + 1)], {rs[k + 1]})
      BY <1>9, <2>1, <2>2, <2>3, AddGrows
    <2>5. QED
      BY <2>1, <2>2, <2>4, GrownTwice
  <1> HIDE DEF S
  <1>12. N \in S
    <2> HIDE DEF N
    <2>1. \A k \in 0..N : k \in S
      BY <1>1, <1>10, <1>11, CountingUp
    <2>2. QED
      BY <1>1, <2>1
  <1>13. QED
    BY <1>1, <1>7, <1>12 DEF S

\* The requests of the project for jobs of some types.
Requests(types) == {r \in Request : r.project = Project /\ r.type \in types}

PostIndexTypes == {"commit_analyze", "security_scan", "wiki_gen"}

LEMMA ReqIs ==
    ASSUME NEW type \in JobTypes, NEW branch \in {Branch, NoBranch}, NEW priority \in Nat,
           NEW types, type \in types
    PROVE  Req(type, branch, priority) \in Requests(types)
  BY IngestionAssumption DEF Req, Requests, Request

\* What the webhook and the handlers ask for.
LEMMA Posts ==
    /\ Pushed \in Seq(Request)
    /\ \A k \in DOMAIN Pushed : Pushed[k] \in Requests(AskedTypes)
    /\ PostIndex \in Seq(Request)
    /\ \A k \in DOMAIN PostIndex : PostIndex[k] \in Requests(PostIndexTypes)
    /\ PostAnalysis \in Seq(Request)
    /\ \A k \in DOMAIN PostAnalysis : PostAnalysis[k] \in Requests(ReportTypes)
  <1>1. /\ Req("fetch", NoBranch, WEBHOOK) \in Requests(AskedTypes)
        /\ Req("index_incremental", Branch, WEBHOOK) \in Requests(AskedTypes)
        /\ Req("commit_analyze", Branch, WEBHOOK) \in Requests(AskedTypes)
    BY ReqIs DEF WEBHOOK, AskedTypes, JobTypes, WRITE_TYPES
  <1>2. /\ Req("commit_analyze", Branch, BACKFILL) \in Requests(PostIndexTypes)
        /\ Req("security_scan", Branch, BACKFILL) \in Requests(PostIndexTypes)
        /\ Req("wiki_gen", NoBranch, BACKFILL) \in Requests(PostIndexTypes)
    BY ReqIs DEF BACKFILL, PostIndexTypes, JobTypes
  <1>3. /\ Req("period_report", NoBranch, BACKFILL) \in Requests(ReportTypes)
        /\ Req("contributor_report", NoBranch, BACKFILL) \in Requests(ReportTypes)
    BY ReqIs DEF BACKFILL, ReportTypes, JobTypes
  <1>4. ASSUME NEW types, NEW a \in Requests(types), NEW b \in Requests(types),
               NEW c \in Requests(types)
        PROVE  /\ <<a, b, c>> \in Seq(Request) /\ <<a, b>> \in Seq(Request)
               /\ \A k \in DOMAIN <<a, b, c>> : <<a, b, c>>[k] \in Requests(types)
               /\ \A k \in DOMAIN <<a, b>> : <<a, b>>[k] \in Requests(types)
    <2>1. a \in Request /\ b \in Request /\ c \in Request
      BY DEF Requests
    <2>2. QED
      BY <2>1
  <1>5. QED
    BY <1>1, <1>2, <1>3, <1>4 DEF Pushed, PostIndex, PostAnalysis

(***************************************************************************)
(* What each kind of step does to the table and to the threads.            *)
(***************************************************************************)
LEMMA Typing ==
    ASSUME Types
    PROVE  /\ jobs \in Seq(Row) /\ exec \in [Workers -> Nat] /\ at \in [Workers -> Stages]
           /\ read \in [Workers -> SUBSET Commits]
           /\ remote \in Nat /\ local \in Nat /\ origin \in Nat /\ tree \in Nat /\ index \in Nat
           /\ asked["index_incremental"] \in Nat /\ gaveUp \in Nat /\ unreset \in Nat
           /\ \A i \in Ids : jobs[i] \in Row /\ jobs[i].type \in JobTypes /\ i \in Nat \ {0}
  <1>1. /\ jobs \in Seq(Row) /\ exec \in [Workers -> Nat] /\ at \in [Workers -> Stages]
        /\ read \in [Workers -> SUBSET Commits]
    BY DEF Types, ThreadTypes, GitTypes, DataTypes, HistoryTypes
  <1>2. MaxCommits \in Nat
    BY IngestionAssumption
  <1>3. /\ remote \in Nat /\ local \in Nat /\ origin \in Nat /\ tree \in Nat /\ index \in Nat
        /\ gaveUp \in Nat /\ unreset \in Nat
    <2>1. {remote, local, origin, tree, index} \subseteq 0..MaxCommits
      BY DEF Types, ThreadTypes, GitTypes, DataTypes, HistoryTypes
    <2>2. {gaveUp, unreset} \subseteq 0..MaxCommits
      BY DEF Types, ThreadTypes, GitTypes, DataTypes, HistoryTypes
    <2>3. QED
      BY <1>2, <2>1, <2>2
  <1>4. asked["index_incremental"] \in Nat
    BY <1>2 DEF Types, AskedTypes, HistoryTypes
  <1>5. \A i \in Ids : jobs[i] \in Row /\ i \in Nat \ {0}
    BY <1>1 DEF Ids
  <1>6. \A r \in Row : r.type \in JobTypes
    BY DEF Row
  <1>7. QED
    BY <1>1, <1>3, <1>4, <1>5, <1>6

\* A git command of a handler failed and the handler did not notice; when it was the
\* reset of an incremental build, the commit it was to bring is on record.
Overlooks(w) ==
    /\ Swallows(w)
    /\ \/ unreset' = unreset
       \/ unreset' = origin /\ origin' = origin /\ at[w] = "checkout"

\* The step of a handler: its thread goes on to a place of its type, and jobs may be added.
Moves(w, types) ==
    /\ ~Idle(w)
    /\ exec' = exec
    /\ \E next \in Places(Type(w)) : at' = [at EXCEPT ![w] = next]
    /\ Grown(jobs, jobs', Requests(types))
    /\ UNCHANGED <<hook, asked>>
    /\ UNCHANGED faults \/ Overlooks(w)

LEMMA SameGrown ==
    ASSUME NEW s \in Seq(Row), NEW R
    PROVE  Grown(s, s, R)
  BY DEF Grown

LEMMA FromMoves ==
    ASSUME Types, Control, NEW w \in Workers, NEW here, NEW next, NEW types,
           Goes(w, here, next), UNCHANGED faults \/ Overlooks(w),
           here # "idle", here \in Places(Type(w)) => next \in Places(Type(w)),
           Grown(jobs, jobs', Requests(types))
    PROVE  Moves(w, types)
  <1>1. ~Idle(w)
    BY DEF Control, Owner, Goes
  <1>2. here \in Places(Type(w))
    BY <1>1 DEF Control, InPlace, Goes
  <1>3. QED
    BY <1>1, <1>2 DEF Moves, Goes, hookVars

\* The one step of a handler that adds jobs.
LEMMA FollowUpsGrow ==
    ASSUME Types, NEW w \in Workers, FollowUps(w)
    PROVE  Grown(jobs, jobs',
                 Requests(IF Type(w) = "index_build" THEN PostIndexTypes ELSE ReportTypes))
  BY Typing, Posts, AddAllGrows DEF FollowUps

\* Everything that handlers enqueue.
FollowUpTypes == PostIndexTypes \cup ReportTypes

LEMMA HandlerMoves ==
    ASSUME Types, Control, NEW w \in Workers, Handler(w)
    PROVE  Moves(w, FollowUpTypes)
  <1>1. jobs' = jobs => Grown(jobs, jobs', Requests(FollowUpTypes))
    BY Typing, SameGrown
  <1>2. ASSUME NEW here, NEW next, Goes(w, here, next), UNCHANGED faults \/ Overlooks(w),
               here # "idle", jobs' = jobs, here \in Places(Type(w)) => next \in Places(Type(w))
        PROVE  Moves(w, FollowUpTypes)
    BY <1>1, <1>2, FromMoves
  <1> USE DEF Places
  <1>3. CASE Clone(w)
    BY <1>2, <1>3 DEF From, Clone
  <1>4. CASE Fetch(w)
    BY <1>2, <1>4 DEF From, Fetch
  <1>5. CASE SetIndexing(w)
    BY <1>2, <1>5 DEF From, SetIndexing
  <1>6. CASE SyncBranches(w)
    <2>1. CASE From(w, "sync", IF Type(w) = "fetch" THEN "done" ELSE "checkout")
      BY <1>2, <1>6, <2>1 DEF From, SyncBranches
    <2>2. CASE /\ Goes(w, "sync", IF Type(w) = "fetch" THEN "done" ELSE "empty")
               /\ Swallows(w) /\ UNCHANGED unreset
      BY <1>2, <1>6, <2>2 DEF SyncBranches, Overlooks
    <2>3. QED
      BY <1>6, <2>1, <2>2 DEF SyncBranches
  <1>7. CASE AddWorktree(w)
    <2>1. Goes(w, "checkout", "build") /\ jobs' = jobs /\ at[w] = "checkout" /\ origin' = origin
      BY <1>7 DEF AddWorktree, Goes
    <2>2. UNCHANGED faults \/ Overlooks(w)
      BY <1>7, <2>1 DEF AddWorktree, Overlooks
    <2>3. QED
      BY <1>2, <2>1, <2>2
  <1>8. CASE BuildIndex(w)
    BY <1>2, <1>8 DEF From, BuildIndex
  <1>9. CASE Activate(w)
    BY <1>2, <1>9 DEF From, Activate
  <1>10. CASE FollowUps(w)
    <2>1. Grown(jobs, jobs', Requests(FollowUpTypes))
      <3>1. Requests(IF Type(w) = "index_build" THEN PostIndexTypes ELSE ReportTypes)
              \subseteq Requests(FollowUpTypes)
        BY DEF Requests, FollowUpTypes
      <3>2. QED
        BY <1>10, <3>1, FollowUpsGrow DEF Grown
    <2>2. QED
      BY <1>10, <2>1, FromMoves DEF From, FollowUps
  <1>11. CASE ListCommits(w)
    <2>1. PICK n \in 0..MaxCommits :
            /\ Goes(w, "list", IF n = 0 THEN "empty" ELSE "analyse") /\ jobs' = jobs
            /\ UNCHANGED faults \/ (Swallows(w) /\ UNCHANGED unreset)
      BY <1>11 DEF ListCommits
    <2>2. QED
      BY <1>2, <2>1 DEF Overlooks
  <1>12. CASE AnalyseCommit(w)
    BY <1>2, <1>12 DEF From, AnalyseCommit
  <1>13. CASE AnalysisEnds(w)
    BY <1>2, <1>13 DEF From, AnalysisEnds
  <1>14. CASE Gather(w)
    BY <1>2, <1>14 DEF From, Gather
  <1>15. CASE WritePage(w)
    BY <1>2, <1>15 DEF From, WritePage
  <1>16. CASE Scan(w) \/ PeriodReport(w) \/ ContributorReport(w)
    <2>1. ASSUME NEW type, NEW data, Reads(w, type, data)
          PROVE  Moves(w, FollowUpTypes)
      BY <1>2, <2>1 DEF From, Reads
    <2>2. CASE /\ Type(w) = "contributor_report" /\ Goes(w, "report", "empty")
               /\ Swallows(w) /\ UNCHANGED <<jobs, unreset>>
      BY <1>2, <2>2 DEF Overlooks
    <2>3. QED
      BY <1>16, <2>1, <2>2 DEF Scan, PeriodReport, ContributorReport
  <1>17. QED
    BY <1>3, <1>4, <1>5, <1>6, <1>7, <1>8, <1>9, <1>10, <1>11, <1>12, <1>13, <1>14, <1>15,
       <1>16 DEF Handler

\* A thread takes a queued row; no other thread that writes is busy if it is a write job.
Takes(w, i) ==
    /\ Idle(w)
    /\ i \in Ids /\ jobs[i].status = "queued"
    /\ IsWrite(i) => RunningWrite(jobs[i].project) = {}
    /\ Sets(i, [jobs[i] EXCEPT !.status = "running", !.attempts = @ + 1])
    /\ exec' = [exec EXCEPT ![w] = i]
    /\ at' = [at EXCEPT ![w] = Entry(jobs[i].type)]
    /\ UNCHANGED <<read, gitVars, dataVars, hookVars, faults>>

LEMMA ClaimTakes ==
    ASSUME Types, NEW w \in Workers, Claim(w)
    PROVE  \E i \in Ids : Takes(w, i)
  <1>1. PICK i \in Ids : /\ ClaimRow(i)
                         /\ exec' = [exec EXCEPT ![w] = i]
                         /\ at' = [at EXCEPT ![w] = Entry(jobs[i].type)]
    BY DEF Claim
  <1>2. Sets(i, [jobs[i] EXCEPT !.status = "running", !.attempts = @ + 1])
    BY <1>1, ClaimSets, Typing
  <1>3. jobs[i].status = "queued" /\ (IsWrite(i) => RunningWrite(jobs[i].project) = {})
    BY <1>1 DEF ClaimRow, IsNext, Claimable
  <1>4. QED
    BY <1>1, <1>2, <1>3 DEF Takes, Claim

\* A thread records an outcome of its job and leaves it.
Outcome(w, outcome) ==
    /\ ~Idle(w)
    /\ \E due \in BOOLEAN : Sets(exec[w], [jobs[exec[w]] EXCEPT !.status = outcome, !.due = due])
    /\ Leave(w)

LEMMA EndsWith ==
    ASSUME Types, Control, NEW w \in Workers, Done(w) \/ Empty(w) \/ Raise(w)
    PROVE  \/ at[w] = "done" /\ Outcome(w, "done") /\ UNCHANGED faults
           \/ at[w] = "empty" /\ Outcome(w, "failed") /\ UNCHANGED faults
           \/ /\ Outcome(w, "queued") \/ Outcome(w, "failed")
              /\ raised < MaxFailures /\ raised' = raised + 1 /\ UNCHANGED <<unnoticed, unreset>>
              /\ \/ gaveUp' = gaveUp /\ (Type(w) = "index_incremental" => Outcome(w, "queued"))
                 \/ /\ Type(w) = "index_incremental" /\ Outcome(w, "failed")
                    /\ gaveUp' = asked["index_incremental"]
  <1>1. Done(w) \/ Empty(w) => ~Idle(w)
    BY DEF Done, Empty, Control, Owner
  <1>2. ~Idle(w)
    BY <1>1 DEF Raise
  <1>3. exec[w] \in Ids /\ jobs[exec[w]] \in Row
    BY <1>2, Typing DEF Control, Owner
  <1>4. ASSUME NEW outcome, NEW due \in BOOLEAN, due = jobs[exec[w]].due
        PROVE  [jobs[exec[w]] EXCEPT !.status = outcome] =
                 [jobs[exec[w]] EXCEPT !.status = outcome, !.due = due]
    BY <1>3, <1>4 DEF Row
  <1>5. jobs[exec[w]].due \in BOOLEAN
    BY <1>3 DEF Row
  <1>6. ASSUME NEW outcome, Sets(exec[w], [jobs[exec[w]] EXCEPT !.status = outcome]), Leave(w)
        PROVE  Outcome(w, outcome)
    BY <1>2, <1>4, <1>5, <1>6 DEF Outcome
  <1>7. CASE Done(w)
    BY <1>3, <1>6, <1>7, CompleteSets, Typing DEF Done
  <1>8. CASE Empty(w)
    <2>1. Sets(exec[w], [jobs[exec[w]] EXCEPT !.status = "failed"])
      BY <1>3, <1>8, FailSets, Typing DEF Empty
    <2>2. QED
      BY <1>6, <1>8, <2>1 DEF Empty
  <1>9. CASE Raise(w)
    <2>1. Sets(exec[w], IF Exhausted(exec[w])
                        THEN [jobs[exec[w]] EXCEPT !.status = "failed"]
                        ELSE [jobs[exec[w]] EXCEPT !.status = "queued", !.due = FALSE])
      BY <1>3, <1>9, FailSets, Typing DEF Raise
    <2>2. CASE Exhausted(exec[w])
      <3>1. Outcome(w, "failed")
        BY <1>6, <1>9, <2>1, <2>2 DEF Raise
      <3>2. QED
        BY <1>9, <2>2, <3>1 DEF Raise
    <2>3. CASE ~Exhausted(exec[w])
      <3>1. Outcome(w, "queued")
        BY <1>2, <1>9, <2>1, <2>3 DEF Raise, Outcome
      <3>2. QED
        BY <1>9, <2>3, <3>1 DEF Raise
    <2>4. QED
      BY <2>2, <2>3
  <1>10. QED
    BY <1>7, <1>8, <1>9

LEMMA ElapseChanges ==
    ASSUME Types, NEW i \in Ids, Elapse(i)
    PROVE  /\ jobs[i].status = "queued"
           /\ Sets(i, [jobs[i] EXCEPT !.due = TRUE])
           /\ UNCHANGED <<exec, at, read, gitVars, dataVars, hookVars, faults>>
  BY ElapseSets, Typing DEF Elapse, BackoffElapses

\* The rows are of the same types, projects and statuses.
SameRows ==
    /\ jobs' \in Seq(Row) /\ Ids' = Ids
    /\ \A j \in Ids : /\ jobs'[j].type = jobs[j].type /\ jobs'[j].project = jobs[j].project
                      /\ jobs'[j].status = jobs[j].status

LEMMA ElapseSame ==
    ASSUME Types, NEW i \in Ids, Elapse(i)
    PROVE  SameRows
  <1> DEFINE r == [jobs[i] EXCEPT !.due = TRUE]
  <1>1. Sets(i, r)
    BY ElapseChanges
  <1>2. r.type = jobs[i].type /\ r.project = jobs[i].project /\ r.status = jobs[i].status
    BY Typing DEF Row
  <1> HIDE DEF r
  <1>3. QED
    BY <1>1, <1>2 DEF Sets, SameRows

(***************************************************************************)
(* Control is inductive.                                                   *)
(***************************************************************************)
LEMMA NeverIdle ==
    ASSUME NEW type
    PROVE  "idle" \notin Places(type)
  BY DEF Places

\* Requests of the project become rows of the project.
LEMMA GrownRows ==
    ASSUME NEW types, Grown(jobs, jobs', Requests(types))
    PROVE  /\ jobs' \in Seq(Row) /\ Ids \subseteq Ids' /\ \A i \in Ids : jobs'[i] = jobs[i]
           /\ \A i \in Ids' \ Ids : /\ jobs'[i].project = Project /\ jobs'[i].type \in types
                                    /\ jobs'[i].status = "queued"
  <1>1. ASSUME NEW r \in Requests(types)
        PROVE  /\ NewRow(r).project = Project /\ NewRow(r).type \in types
               /\ NewRow(r).status = "queued"
    BY NewRowIs DEF Requests
  <1>2. QED
    BY <1>1 DEF Grown, Ids

\* Adding jobs, and going on inside a handler.
LEMMA ControlGrows ==
    ASSUME Types, Control, NEW types, Grown(jobs, jobs', Requests(types)), exec' = exec,
           \A w \in Workers : at'[w] = at[w] \/ (~Idle(w) /\ at'[w] \in Places(Type(w))),
           \A k \in DOMAIN hook'.todo : /\ hook'.todo[k].project = Project
                                        /\ hook'.todo[k].type \in AskedTypes
    PROVE  Control'
  <1>1. \A w \in Workers : /\ Idle(w)' <=> Idle(w)
                           /\ ~Idle(w) => /\ exec[w] \in Ids /\ exec[w] \in Ids'
                                          /\ jobs'[exec[w]] = jobs[exec[w]] /\ Type(w)' = Type(w)
    BY GrownRows DEF Control, Owner, Idle, Type
  <1>2. OneProject'
    BY GrownRows DEF Control, OneProject
  <1>3. Owner'
    <2>1. SUFFICES ASSUME NEW w \in Workers
                   PROVE  /\ Idle(w)' <=> at'[w] = "idle"
                          /\ ~Idle(w)' => exec'[w] \in Ids' /\ jobs'[exec'[w]].status = "running"
                          /\ ~Idle(w)' => \A v \in Workers : exec'[v] = exec'[w] => v = w
      BY DEF Owner
    <2>2. Idle(w) <=> at'[w] = "idle"
      BY NeverIdle DEF Control, Owner
    <2>3. QED
      BY <1>1, <2>2 DEF Control, Owner
  <1>4. InPlace'
    BY <1>1 DEF Control, InPlace
  <1>5. Exclusive'
    BY <1>1 DEF Control, Exclusive
  <1>6. QED
    BY <1>2, <1>3, <1>4, <1>5 DEF Control

LEMMA ControlTakes ==
    ASSUME Types, Control, NEW w \in Workers, NEW i \in Ids, Takes(w, i)
    PROVE  Control'
  <1> DEFINE r == [jobs[i] EXCEPT !.status = "running", !.attempts = @ + 1]
  <1>1. /\ r.status = "running" /\ r.type = jobs[i].type /\ r.project = jobs[i].project
        /\ jobs[i].type \in JobTypes
    BY Typing DEF Row
  <1>2. /\ Ids' = Ids /\ jobs'[i] = r /\ \A j \in Ids : j # i => jobs'[j] = jobs[j]
    BY DEF Takes, Sets
  <1> HIDE DEF r
  <1>3. /\ \A j \in Ids : jobs'[j].type = jobs[j].type /\ jobs'[j].project = jobs[j].project
        /\ jobs'[i].status = "running"
    BY <1>1, <1>2
  <1>4. /\ exec'[w] = i /\ at'[w] = Entry(jobs[i].type)
        /\ \A v \in Workers \ {w} : exec'[v] = exec[v] /\ at'[v] = at[v]
    BY Typing DEF Takes
  <1>5. i # 0 /\ jobs[i].status # "running" /\ Idle(w)
    BY Typing DEF Takes
  <1>6. \A v \in Workers \ {w} : ~Idle(v) => exec[v] \in Ids /\ exec[v] # i
    BY <1>5 DEF Control, Owner
  <1>7. Entry(jobs[i].type) \in Places(jobs[i].type)
    BY <1>1 DEF Entry, Places, JobTypes, WRITE_TYPES
  <1>8. \A v \in Workers \ {w} : Idle(v)' <=> Idle(v)
    BY <1>4 DEF Idle
  <1>9. \A v \in Workers \ {w} : ~Idle(v) => Type(v)' = Type(v)
    BY <1>3, <1>4, <1>6 DEF Type
  <1>10. ~Idle(w)' /\ Type(w)' = jobs[i].type
    BY <1>3, <1>4, <1>5 DEF Idle, Type
  <1>11. OneProject'
    BY <1>2, <1>3 DEF Control, OneProject, Takes, hookVars
  <1>12. Owner'
    <2>1. ASSUME NEW v \in Workers
          PROVE  Idle(v)' <=> at'[v] = "idle"
      <3>1. CASE v = w
        BY <1>4, <1>7, <1>10, <3>1, NeverIdle
      <3>2. CASE v # w
        BY <1>4, <1>8, <3>2 DEF Control, Owner
      <3>3. QED
        BY <3>1, <3>2
    <2>2. ASSUME NEW v \in Workers, ~Idle(v)'
          PROVE  /\ exec'[v] \in Ids' /\ jobs'[exec'[v]].status = "running"
                 /\ \A u \in Workers : exec'[u] = exec'[v] => u = v
      <3>1. CASE v = w
        <4>1. \A u \in Workers \ {w} : exec[u] # i
          BY <1>5, <1>6 DEF Idle
        <4>2. QED
          BY <1>2, <1>3, <1>4, <3>1, <4>1
      <3>2. CASE v # w
        <4>1. ~Idle(v) /\ exec'[v] = exec[v] /\ exec[v] # i
          BY <1>4, <1>6, <1>8, <2>2, <3>2
        <4>2. /\ exec[v] \in Ids /\ jobs[exec[v]].status = "running"
              /\ \A u \in Workers : exec[u] = exec[v] => u = v
          BY <4>1 DEF Control, Owner
        <4>3. QED
          BY <1>2, <1>4, <4>1, <4>2
      <3>3. QED
        BY <3>1, <3>2
    <2>3. QED
      BY <2>1, <2>2 DEF Owner
  <1>13. InPlace'
    <2>1. SUFFICES ASSUME NEW v \in Workers, ~Idle(v)'
                   PROVE  at'[v] \in Places(Type(v)')
      BY DEF InPlace
    <2>2. CASE v = w
      BY <1>4, <1>7, <1>10, <2>2
    <2>3. CASE v # w
      BY <1>4, <1>8, <1>9, <2>1, <2>3 DEF Control, InPlace
    <2>4. QED
      BY <2>2, <2>3
  <1>14. Exclusive'
    <2>1. ASSUME NEW v \in Workers \ {w}, ~Idle(v), Type(v) \in WRITE_TYPES,
                 jobs[i].type \in WRITE_TYPES
          PROVE  FALSE
      <3>1. exec[v] \in RunningWrite(jobs[i].project)
        BY <2>1 DEF Control, Owner, OneProject, RunningWrite, IsWrite, Type
      <3>2. QED
        BY <2>1, <3>1 DEF Takes, IsWrite
    <2>2. QED
      BY <1>8, <1>9, <1>10, <2>1 DEF Control, Exclusive
  <1>15. QED
    BY <1>11, <1>12, <1>13, <1>14 DEF Control

LEMMA ControlOutcome ==
    ASSUME Types, Control, NEW w \in Workers, NEW outcome, Outcome(w, outcome)
    PROVE  Control'
  <1>1. /\ Ids' = Ids
        /\ \A j \in Ids : jobs'[j].type = jobs[j].type /\ jobs'[j].project = jobs[j].project
        /\ \A j \in Ids : j # exec[w] => jobs'[j] = jobs[j]
    BY Typing DEF Outcome, Sets, Row
  <1>2. /\ exec'[w] = 0 /\ at'[w] = "idle"
        /\ \A v \in Workers \ {w} : exec'[v] = exec[v] /\ at'[v] = at[v]
    BY Typing DEF Outcome, Leave
  <1>3. Idle(w)' /\ \A v \in Workers \ {w} : Idle(v)' <=> Idle(v)
    BY <1>2 DEF Idle
  <1>4. \A v \in Workers \ {w} : ~Idle(v) =>
            exec[v] \in Ids /\ exec[v] # exec[w] /\ Type(v)' = Type(v)
    BY <1>1, <1>2 DEF Control, Owner, Type, Outcome
  <1>5. OneProject'
    BY <1>1 DEF Control, OneProject, Outcome, Leave, hookVars
  <1>6. Owner'
    <2>1. ASSUME NEW v \in Workers
          PROVE  Idle(v)' <=> at'[v] = "idle"
      BY <1>2, <1>3 DEF Control, Owner
    <2>2. ASSUME NEW v \in Workers, ~Idle(v)'
          PROVE  /\ exec'[v] \in Ids' /\ jobs'[exec'[v]].status = "running"
                 /\ \A u \in Workers : exec'[u] = exec'[v] => u = v
      <3>1. v # w /\ ~Idle(v) /\ exec'[v] = exec[v] /\ exec[v] # exec[w] /\ exec[v] # 0
        BY <1>2, <1>3, <1>4, <2>2 DEF Idle
      <3>2. /\ exec[v] \in Ids /\ jobs[exec[v]].status = "running"
            /\ \A u \in Workers : exec[u] = exec[v] => u = v
        BY <3>1 DEF Control, Owner
      <3>3. QED
        BY <1>1, <1>2, <3>1, <3>2
    <2>3. QED
      BY <2>1, <2>2 DEF Owner
  <1>7. InPlace'
    BY <1>2, <1>3, <1>4 DEF Control, InPlace
  <1>8. Exclusive'
    BY <1>3, <1>4 DEF Control, Exclusive
  <1>9. QED
    BY <1>5, <1>6, <1>7, <1>8 DEF Control

LEMMA ControlElapse ==
    ASSUME Types, Control, NEW i \in Ids, Elapse(i)
    PROVE  Control'
  <1>1. SameRows
    BY ElapseSame
  <1>2. exec' = exec /\ at' = at /\ hook' = hook
    BY ElapseChanges DEF hookVars
  <1>3. \A w \in Workers : (Idle(w)' <=> Idle(w)) /\ (~Idle(w) => Type(w)' = Type(w))
    BY <1>1, <1>2 DEF Control, Owner, Idle, Type, SameRows
  <1>4. OneProject'
    BY <1>1, <1>2 DEF Control, OneProject, SameRows
  <1>5. Owner'
    BY <1>1, <1>2, <1>3 DEF Control, Owner, SameRows
  <1>6. InPlace'
    BY <1>2, <1>3 DEF Control, InPlace
  <1>7. Exclusive'
    BY <1>3 DEF Control, Exclusive
  <1>8. QED
    BY <1>4, <1>5, <1>6, <1>7 DEF Control

LEMMA HookGrows ==
    ASSUME Types, Control, HookEnqueues
    PROVE  /\ Head(hook.todo) \in Request
           /\ Head(hook.todo) \in Requests(AskedTypes)
           /\ Grown(jobs, jobs', Requests(AskedTypes))
           /\ \E i \in Ids' : /\ jobs'[i].status = "queued"
                             /\ Key(jobs'[i]) = Key(Head(hook.todo))
           /\ hook'.todo = Tail(hook.todo) /\ hook'.deliveries = hook.deliveries
           /\ hook' \in [deliveries : Nat, todo : Seq(Request)]
           /\ \A k \in DOMAIN hook'.todo : /\ hook'.todo[k].project = Project
                                          /\ hook'.todo[k].type \in AskedTypes
  <1>1. hook.todo \in Seq(Request) /\ hook.todo # <<>>
        /\ hook \in [deliveries : Nat, todo : Seq(Request)]
    BY DEF Types, HookEnqueues, HistoryTypes
  <1> DEFINE todo == hook.todo
             h == Head(todo)
  <1>2. /\ h \in Request /\ Tail(todo) \in Seq(Request) /\ h = todo[1] /\ 1 \in DOMAIN todo
        /\ \A k \in DOMAIN Tail(todo) : Tail(todo)[k] = todo[k + 1] /\ k + 1 \in DOMAIN todo
    BY <1>1
  <1>3. hook' = [hook EXCEPT !.todo = Tail(todo)]
    BY DEF HookEnqueues
  <1>4. hook'.todo = Tail(todo) /\ hook' \in [deliveries : Nat, todo : Seq(Request)]
        /\ hook'.deliveries = hook.deliveries
    BY <1>1, <1>2, <1>3
  <1>5. h \in Requests(AskedTypes)
    BY <1>2 DEF Control, OneProject, Requests
  <1>6. \A k \in DOMAIN hook'.todo : /\ hook'.todo[k].project = Project
                                   /\ hook'.todo[k].type \in AskedTypes
    BY <1>2, <1>4 DEF Control, OneProject
  <1>7. jobs' = Add(jobs, h)
    BY DEF HookEnqueues
  <1> HIDE DEF h, todo
  <1>8. /\ Grown(jobs, jobs', {h})
        /\ \E i \in Ids' : jobs'[i].status = "queued" /\ Key(jobs'[i]) = Key(h)
    BY <1>2, <1>7, AddGrows, Typing DEF Ids
  <1>9. Grown(jobs, jobs', Requests(AskedTypes))
    BY <1>5, <1>8 DEF Grown
  <1>10. QED
    BY <1>2, <1>4, <1>5, <1>6, <1>8, <1>9 DEF h, todo

(***************************************************************************)
(* Every step is of one of eight kinds.                                    *)
(***************************************************************************)
Ends(w) ==
    \/ at[w] = "done" /\ Outcome(w, "done") /\ UNCHANGED faults
    \/ at[w] = "empty" /\ Outcome(w, "failed") /\ UNCHANGED faults
    \/ /\ Outcome(w, "queued") \/ Outcome(w, "failed")
       /\ raised < MaxFailures /\ raised' = raised + 1 /\ UNCHANGED <<unnoticed, unreset>>
       /\ \/ gaveUp' = gaveUp /\ (Type(w) = "index_incremental" => Outcome(w, "queued"))
          \/ /\ Type(w) = "index_incremental" /\ Outcome(w, "failed")
             /\ gaveUp' = asked["index_incremental"]

LEMMA Steps ==
    ASSUME Types, Control, [Next]_vars
    PROVE  \/ UNCHANGED vars
           \/ Push
           \/ Receive
           \/ HookEnqueues
           \/ \E w \in Workers, i \in Ids : Takes(w, i)
           \/ \E w \in Workers : Handler(w)
           \/ \E w \in Workers : Ends(w)
           \/ \E i \in Ids : Elapse(i)
  <1>1. ASSUME NEW w \in Workers, Claim(w) \/ Work(w) \/ Raise(w)
        PROVE  \/ \E i \in Ids : Takes(w, i)
               \/ Handler(w)
               \/ Ends(w)
    <2>1. CASE Claim(w)
      BY <2>1, ClaimTakes
    <2>2. CASE Done(w) \/ Empty(w) \/ Raise(w)
      BY <2>2, EndsWith DEF Ends
    <2>3. QED
      BY <1>1, <2>1, <2>2 DEF Work
  <1>2. QED
    BY <1>1 DEF Next

LEMMA ControlStep ==
    ASSUME Types, Control, [Next]_vars
    PROVE  Control'
  <1>1. CASE UNCHANGED vars
    <2>1. /\ jobs' = jobs /\ exec' = exec /\ at' = at /\ hook' = hook
      BY <1>1 DEF vars, jobVars, hookVars
    <2>2. QED
      BY <2>1 DEF Control, OneProject, Owner, InPlace, Exclusive, Idle, Type, Ids
  <1>2. CASE Push
    <2>1. hook'.todo = hook.todo /\ jobs' = jobs /\ exec' = exec /\ at' = at
      BY <1>2 DEF Push, jobVars, Types, HistoryTypes
    <2>2. QED
      BY <2>1, ControlGrows, SameGrown, Typing DEF Control, OneProject
  <1>3. CASE Receive
    <2>1. /\ jobs' = jobs /\ exec' = exec /\ at' = at
          /\ hook'.todo = Pushed \/ hook'.todo = <<>>
      BY <1>3 DEF Receive, jobVars
    <2>2. \A k \in DOMAIN hook'.todo : /\ hook'.todo[k].project = Project
                                     /\ hook'.todo[k].type \in AskedTypes
      BY <2>1, Posts DEF Requests
    <2>3. QED
      BY <2>1, <2>2, ControlGrows, SameGrown, Typing
  <1>4. CASE HookEnqueues
    BY <1>4, HookGrows, ControlGrows DEF HookEnqueues
  <1>5. ASSUME NEW w \in Workers, NEW i \in Ids, Takes(w, i)
        PROVE  Control'
    BY <1>5, ControlTakes
  <1>6. ASSUME NEW w \in Workers, Handler(w)
        PROVE  Control'
    <2>1. Moves(w, FollowUpTypes)
      BY <1>6, HandlerMoves
    <2>2. \A v \in Workers : at'[v] = at[v] \/ (~Idle(v) /\ at'[v] \in Places(Type(v)))
      BY <2>1, Typing DEF Moves
    <2>3. QED
      BY <2>1, <2>2, ControlGrows DEF Moves, Control, OneProject
  <1>7. ASSUME NEW w \in Workers, Ends(w)
        PROVE  Control'
    BY <1>7, ControlOutcome DEF Ends
  <1>8. ASSUME NEW i \in Ids, Elapse(i)
        PROVE  Control'
    BY <1>8, ControlElapse
  <1>9. QED
    BY <1>1, <1>2, <1>3, <1>4, <1>5, <1>6, <1>7, <1>8, Steps


(***************************************************************************)
(* What handlers do to the refs, the worktree and the index.               *)
(***************************************************************************)
LEMMA HandlerGit ==
    ASSUME Types, Control, Behind, NEW w \in Workers, Handler(w)
    PROVE  /\ remote' = remote
           /\ {local', origin', tree', index'} \subseteq Nat
           /\ local <= local' /\ origin <= origin' /\ tree <= tree' /\ index <= index'
           /\ index' <= tree' /\ tree' <= origin' /\ origin' <= remote /\ local' <= remote
           /\ Type(w) \notin WRITE_TYPES => UNCHANGED <<local, origin, tree, index>>
  <1>1. /\ remote \in Nat /\ local \in Nat /\ origin \in Nat /\ tree \in Nat /\ index \in Nat
        /\ index <= tree /\ tree <= origin /\ origin <= remote /\ local <= remote
    BY Typing DEF Behind
  <1>2. at[w] \in {"git", "checkout", "build"} => Type(w) \in WRITE_TYPES
    <2>1. at[w] \in {"git", "checkout", "build"} => ~Idle(w) /\ at[w] \in Places(Type(w))
      BY DEF Control, Owner, InPlace
    <2>2. QED
      BY <2>1 DEF Places, WRITE_TYPES
  <1>3. CASE Clone(w)
    BY <1>1, <1>2, <1>3 DEF Clone, From, Goes, dataVars
  <1>4. CASE Fetch(w)
    BY <1>1, <1>2, <1>4 DEF Fetch, From, Goes, dataVars
  <1>5. CASE AddWorktree(w)
    BY <1>1, <1>2, <1>5 DEF AddWorktree, From, Goes, dataVars
  <1>6. CASE BuildIndex(w)
    BY <1>1, <1>2, <1>6 DEF BuildIndex, From, Goes, gitVars
  <1>7. CASE UNCHANGED <<gitVars, index>>
    BY <1>1, <1>7 DEF gitVars
  <1>8. CASE \/ SetIndexing(w) \/ SyncBranches(w) \/ Activate(w) \/ FollowUps(w)
             \/ ListCommits(w) \/ AnalyseCommit(w) \/ AnalysisEnds(w) \/ Gather(w) \/ WritePage(w)
    BY <1>7, <1>8 DEF SetIndexing, SyncBranches, Activate, FollowUps, ListCommits, AnalyseCommit,
       AnalysisEnds, Gather, WritePage, dataVars
  <1>9. CASE Scan(w) \/ PeriodReport(w) \/ ContributorReport(w)
    BY <1>7, <1>9 DEF Scan, PeriodReport, ContributorReport, Reads, dataVars
  <1>10. QED
    BY <1>3, <1>4, <1>5, <1>6, <1>8, <1>9 DEF Handler

LEMMA IncrementalGoes ==
    ASSUME Types, Control, NEW w \in Workers, Handler(w), Type(w) = "index_incremental"
    PROVE  \/ at[w] = "git" /\ at'[w] = "checkout" /\ origin' = remote
           \/ at[w] = "checkout" /\ at'[w] = "build" /\ (tree' = origin \/ unreset' = origin)
           \/ at[w] = "build" /\ at'[w] = "done" /\ index' = tree
  <1>1. ~Idle(w) /\ at[w] \in {"git", "checkout", "build", "done"}
    BY HandlerMoves DEF Control, InPlace, Places, Moves
  <1>2. at \in [Workers -> Stages]
    BY Typing
  <1>3. CASE Clone(w) \/ Fetch(w)
    BY <1>2, <1>3 DEF Clone, Fetch, From, Goes
  <1>4. CASE AddWorktree(w) \/ BuildIndex(w)
    <2>1. CASE AddWorktree(w)
      <3>1. at[w] = "checkout" /\ at'[w] = "build"
        BY <1>2, <2>1 DEF AddWorktree, Goes
      <3>2. tree' = origin \/ unreset' = origin
        BY <2>1 DEF AddWorktree
      <3>3. QED
        BY <3>1, <3>2
    <2>2. CASE BuildIndex(w)
      BY <1>2, <2>2 DEF BuildIndex, From, Goes
    <2>3. QED
      BY <1>4, <2>1, <2>2
  <1>5. CASE \/ SetIndexing(w) \/ SyncBranches(w) \/ Activate(w) \/ FollowUps(w)
             \/ ListCommits(w) \/ AnalyseCommit(w) \/ AnalysisEnds(w) \/ Gather(w) \/ WritePage(w)
    BY <1>1, <1>5 DEF SetIndexing, SyncBranches, Activate, FollowUps, ListCommits, AnalyseCommit,
       AnalysisEnds, Gather, WritePage, From, Goes
  <1>6. CASE Scan(w) \/ PeriodReport(w) \/ ContributorReport(w)
    BY <1>1, <1>6 DEF Scan, PeriodReport, ContributorReport, Reads, From, Goes
  <1>7. QED
    BY <1>3, <1>4, <1>5, <1>6 DEF Handler

\* What a failed reset did not bring is in the bare repository.
LEMMA HandlerUnreset ==
    ASSUME Types, Control, Behind, NEW w \in Workers, Handler(w)
    PROVE  unreset' \in Nat /\ unreset <= unreset' /\ unreset' <= origin'
  <1>1. unreset' = unreset \/ (unreset' = origin /\ origin' = origin)
    BY HandlerMoves DEF Moves, Overlooks, faults
  <1>2. /\ unreset \in Nat /\ origin \in Nat /\ origin' \in Nat
        /\ unreset <= origin /\ origin <= origin'
    BY HandlerGit, Typing DEF Behind
  <1>3. QED
    BY <1>1, <1>2

LEMMA BehindStep ==
    ASSUME Types, Control, Behind, [Next]_vars
    PROVE  Behind'
  <1>1. /\ remote \in Nat /\ local \in Nat /\ origin \in Nat /\ tree \in Nat /\ index \in Nat
        /\ 0 < remote
        /\ index <= tree /\ tree <= origin /\ origin <= remote /\ local <= remote
        /\ unreset \in Nat /\ unreset <= origin
        /\ hook.deliveries \in Nat /\ hook.deliveries <= remote
        /\ \A t \in AskedTypes : asked[t] \in Nat /\ asked[t] <= remote
    <2>1. \A t \in AskedTypes : asked[t] \in Nat
      BY IngestionAssumption DEF Types, HistoryTypes
    <2>2. QED
      BY <2>1, Typing DEF Behind, Types, HistoryTypes
  <1>2. CASE UNCHANGED <<remote, local, origin, tree, index, hook, asked, unreset>>
    BY <1>2 DEF Behind
  <1>3. CASE Push
    <2>1. /\ hook'.deliveries = hook.deliveries + 1 /\ remote' = remote + 1
          /\ UNCHANGED <<local, origin, tree, index, asked, unreset>>
      BY <1>3 DEF Push, dataVars, faults, Types, HistoryTypes
    <2>2. QED
      BY <1>1, <2>1 DEF Behind
  <1>4. CASE Receive
    <2>1. /\ hook'.deliveries = hook.deliveries - 1
          /\ UNCHANGED <<remote, local, origin, tree, index, asked, unreset>>
      BY <1>4 DEF Receive, faults, gitVars, dataVars
    <2>2. QED
      BY <1>1, <2>1 DEF Behind
  <1>5. CASE HookEnqueues
    <2>1. /\ hook'.deliveries = hook.deliveries
          /\ UNCHANGED <<remote, local, origin, tree, index, unreset>>
          /\ asked' = [asked EXCEPT ![Head(hook.todo).type] = remote]
      BY <1>5, HookGrows DEF HookEnqueues, faults, gitVars, dataVars
    <2>2. \A t \in AskedTypes : asked'[t] = asked[t] \/ asked'[t] = remote
      BY <2>1 DEF Types, HistoryTypes
    <2>3. QED
      BY <1>1, <2>1, <2>2 DEF Behind
  <1>6. ASSUME NEW w \in Workers, NEW i \in Ids, Takes(w, i)
        PROVE  Behind'
    BY <1>2, <1>6 DEF Takes, gitVars, dataVars, hookVars, faults
  <1>7. ASSUME NEW w \in Workers, Handler(w)
        PROVE  Behind'
    <2>1. hook' = hook /\ asked' = asked
      BY <1>7, HandlerMoves DEF Moves
    <2>2. QED
      BY <1>1, <1>7, <2>1, HandlerGit, HandlerUnreset DEF Behind
  <1>8. ASSUME NEW w \in Workers, Ends(w)
        PROVE  Behind'
    BY <1>2, <1>8 DEF Ends, Outcome, Leave, gitVars, dataVars, hookVars, faults
  <1>9. ASSUME NEW i \in Ids, Elapse(i)
        PROVE  Behind'
    BY <1>2, <1>9 DEF Elapse, gitVars, dataVars, hookVars, faults
  <1>10. CASE UNCHANGED vars
    BY <1>2, <1>10 DEF vars, gitVars, dataVars, hookVars, faults
  <1>11. QED
    BY <1>3, <1>4, <1>5, <1>6, <1>7, <1>8, <1>9, <1>10, Steps


(***************************************************************************)
(* Types are inductive, by parts that a step changes together.             *)
(***************************************************************************)
LEMMA HandlerData ==
    ASSUME Types, Control, Behind, NEW w \in Workers, Handler(w)
    PROVE  DataTypes'
  <1>1. DataTypes
    BY DEF Types
  <1>2. BareRef \in 0..MaxCommits
    BY DEF Types, GitTypes, BareRef
  <1>3. CASE SetIndexing(w) \/ Activate(w) \/ SyncBranches(w)
    BY <1>1, <1>3 DEF DataTypes, SetIndexing, Activate, SyncBranches
  <1>4. CASE ListCommits(w)
    <2>1. PICK ref \in {BareRef, origin}, n \in 0..MaxCommits :
            /\ read' = [read EXCEPT ![w] = Newest(ref, n)]
            /\ UNCHANGED dataVars
      BY <1>4 DEF ListCommits
    <2>2. Newest(ref, n) \subseteq Commits
      <3>1. ref \in 0..MaxCommits
        BY <1>2 DEF Types, GitTypes
      <3>2. QED
        BY <3>1, IngestionAssumption DEF Newest, Commits
    <2>3. QED
      BY <1>1, <2>1, <2>2 DEF DataTypes, dataVars
  <1>5. CASE AnalyseCommit(w)
    <2>1. read[w] \subseteq Commits /\ read[w] # {}
      BY <1>1, <1>5 DEF DataTypes, AnalyseCommit
    <2>2. Max(read[w]) \in read[w]
      <3>1. read[w] \subseteq 0..MaxCommits
        BY <2>1 DEF Commits
      <3>2. QED
        BY <2>1, <3>1, IngestionAssumption, MaxIs
    <2>3. analysed' \subseteq Commits /\ read' \in [Workers -> SUBSET Commits]
      BY <1>1, <1>5, <2>1, <2>2 DEF DataTypes, AnalyseCommit
    <2>4. QED
      BY <1>1, <1>5, <2>3 DEF DataTypes, AnalyseCommit
  <1>6. CASE Gather(w)
    BY <1>1, <1>6 DEF DataTypes, Gather, dataVars
  <1>7. CASE WritePage(w)
    BY <1>1, <1>7 DEF DataTypes, WritePage
  <1>8. CASE UNCHANGED <<read, listed, status, analysed, page>>
    BY <1>1, <1>8 DEF DataTypes
  <1>9. CASE \/ Clone(w) \/ Fetch(w) \/ AddWorktree(w) \/ BuildIndex(w) \/ FollowUps(w)
             \/ AnalysisEnds(w)
    BY <1>8, <1>9 DEF Clone, Fetch, AddWorktree, BuildIndex, FollowUps, AnalysisEnds, dataVars
  <1>10. CASE Scan(w) \/ PeriodReport(w) \/ ContributorReport(w)
    BY <1>8, <1>10 DEF Scan, PeriodReport, ContributorReport, Reads, dataVars
  <1>11. QED
    BY <1>3, <1>4, <1>5, <1>6, <1>7, <1>9, <1>10 DEF Handler

LEMMA TypesStep ==
    ASSUME Types, Control, Behind, [Next]_vars
    PROVE  Types'
  <1>1. ThreadTypes /\ GitTypes /\ DataTypes /\ HistoryTypes
    BY DEF Types
  <1>2. MaxCommits \in Nat \ {0} /\ MaxFailures \in Nat
    BY IngestionAssumption
  <1>3. CASE UNCHANGED vars
    BY <1>1, <1>3 DEF vars, jobVars, gitVars, dataVars, hookVars, faults, Types, ThreadTypes,
       GitTypes, DataTypes, HistoryTypes
  <1>4. CASE Push
    <2>1. ThreadTypes' /\ DataTypes'
      BY <1>1, <1>4 DEF Push, jobVars, dataVars, ThreadTypes, DataTypes
    <2>2. GitTypes'
      BY <1>1, <1>2, <1>4 DEF Push, dataVars, GitTypes
    <2>3. HistoryTypes'
      <3>1. hook' \in [deliveries : Nat, todo : Seq(Request)]
        BY <1>1, <1>4 DEF Push, HistoryTypes
      <3>2. QED
        BY <1>1, <1>4, <3>1 DEF Push, HistoryTypes, faults
    <2>4. QED
      BY <2>1, <2>2, <2>3 DEF Types
  <1>5. CASE Receive
    <2>1. ThreadTypes' /\ DataTypes' /\ GitTypes'
      BY <1>1, <1>5 DEF Receive, jobVars, gitVars, dataVars, ThreadTypes, DataTypes, GitTypes
    <2>2. HistoryTypes'
      <3>1. hook.deliveries - 1 \in Nat
        BY <1>1, <1>5 DEF Receive, HistoryTypes
      <3>2. hook' \in [deliveries : Nat, todo : Seq(Request)]
        BY <1>5, <3>1, Posts DEF Receive
      <3>3. QED
        BY <1>1, <1>5, <3>2 DEF Receive, HistoryTypes, faults
    <2>3. QED
      BY <2>1, <2>2 DEF Types
  <1>6. CASE HookEnqueues
    <2>1. DataTypes' /\ GitTypes'
      BY <1>1, <1>6 DEF HookEnqueues, gitVars, dataVars, DataTypes, GitTypes
    <2>2. ThreadTypes'
      BY <1>1, <1>6, HookGrows DEF HookEnqueues, ThreadTypes, Grown
    <2>3. HistoryTypes'
      <3>1. remote \in 0..MaxCommits
        BY <1>1 DEF GitTypes
      <3>2. asked' \in [AskedTypes -> 0..MaxCommits]
        BY <1>1, <1>6, <3>1 DEF HookEnqueues, HistoryTypes
      <3>3. QED
        BY <1>1, <1>6, <3>2, HookGrows DEF HookEnqueues, HistoryTypes, faults
    <2>4. QED
      BY <2>1, <2>2, <2>3 DEF Types
  <1>7. ASSUME NEW w \in Workers, NEW i \in Ids, Takes(w, i)
        PROVE  Types'
    <2>1. DataTypes' /\ GitTypes' /\ HistoryTypes'
      BY <1>1, <1>7 DEF Takes, gitVars, dataVars, hookVars, faults, DataTypes, GitTypes,
         HistoryTypes
    <2>2. Entry(jobs[i].type) \in Stages
      BY DEF Entry, Stages
    <2>3. ThreadTypes'
      BY <1>1, <1>7, <2>2, Typing DEF Takes, Sets, ThreadTypes
    <2>4. QED
      BY <2>1, <2>3 DEF Types
  <1>8. ASSUME NEW w \in Workers, Handler(w)
        PROVE  Types'
    <2>1. Moves(w, FollowUpTypes)
      BY <1>8, HandlerMoves
    <2>2. Places(Type(w)) \subseteq Stages
      BY DEF Places, Stages
    <2>3. ThreadTypes'
      BY <1>1, <2>1, <2>2 DEF Moves, Grown, ThreadTypes
    <2>4. GitTypes'
      <3>1. /\ remote' = remote /\ remote \in 0..MaxCommits
            /\ {local', origin', tree', index'} \subseteq Nat
            /\ index' <= tree' /\ tree' <= origin' /\ origin' <= remote /\ local' <= remote
        BY <1>1, <1>8, HandlerGit DEF GitTypes
      <3>2. QED
        BY <1>2, <3>1 DEF GitTypes
    <2>5. HistoryTypes'
      <3>1. /\ raised' = raised \/ (raised < MaxFailures /\ raised' = raised + 1)
            /\ unreset' = unreset \/ unreset' = origin
            /\ gaveUp' = gaveUp /\ hook' = hook /\ asked' = asked
        BY <2>1 DEF Moves, Overlooks, Swallows, faults
      <3>2. raised' \in 0..MaxFailures /\ {gaveUp', unreset'} \subseteq 0..MaxCommits
        BY <1>1, <1>2, <3>1 DEF HistoryTypes, GitTypes
      <3>3. QED
        BY <1>1, <3>1, <3>2 DEF HistoryTypes
    <2>6. QED
      BY <1>8, <2>3, <2>4, <2>5, HandlerData DEF Types
  <1>9. ASSUME NEW w \in Workers, Ends(w)
        PROVE  Types'
    <2>1. PICK outcome : Outcome(w, outcome)
      BY <1>9 DEF Ends
    <2>2. GitTypes' /\ DataTypes'
      BY <1>1, <2>1 DEF Outcome, Leave, gitVars, dataVars, GitTypes, DataTypes
    <2>3. ThreadTypes'
      BY <1>1, <2>1 DEF Outcome, Leave, Sets, ThreadTypes, Stages
    <2>4. HistoryTypes'
      <3>1. /\ raised' = raised \/ (raised < MaxFailures /\ raised' = raised + 1)
            /\ gaveUp' = gaveUp \/ gaveUp' = asked["index_incremental"]
            /\ unreset' = unreset
        BY <1>9 DEF Ends, faults
      <3>2. raised' \in 0..MaxFailures /\ {gaveUp', unreset'} \subseteq 0..MaxCommits
        BY <1>1, <1>2, <3>1 DEF HistoryTypes, AskedTypes
      <3>3. QED
        BY <1>1, <2>1, <3>2 DEF Outcome, Leave, hookVars, HistoryTypes
    <2>5. QED
      BY <2>2, <2>3, <2>4 DEF Types
  <1>10. ASSUME NEW i \in Ids, Elapse(i)
        PROVE  Types'
    <2>1. UNCHANGED <<exec, at, read, gitVars, dataVars, hookVars, faults>>
      BY <1>10, ElapseChanges
    <2>2. jobs' \in Seq(Row)
      BY <1>10, ElapseSame DEF SameRows
    <2>3. ThreadTypes' /\ GitTypes'
      BY <1>1, <2>1, <2>2 DEF gitVars, dataVars, ThreadTypes, GitTypes
    <2>4. DataTypes' /\ HistoryTypes'
      BY <1>1, <2>1 DEF dataVars, hookVars, faults, DataTypes, HistoryTypes
    <2>5. QED
      BY <2>3, <2>4 DEF Types
  <1>11. QED
    BY <1>3, <1>4, <1>5, <1>6, <1>7, <1>8, <1>9, <1>10, Steps

LEMMA OverlookedStep ==
    ASSUME Types, Control, Overlooked, [Next]_vars
    PROVE  Overlooked'
  <1>1. CASE UNCHANGED vars \/ Push \/ Receive
    BY <1>1 DEF Overlooked, vars, jobVars, faults, Push, Receive, Ids
  <1>2. CASE HookEnqueues
    BY <1>2, HookGrows, GrownRows DEF HookEnqueues, faults, Overlooked
  <1>3. ASSUME NEW w \in Workers, NEW i \in Ids, Takes(w, i)
        PROVE  Overlooked'
    BY <1>3 DEF Takes, Sets, faults, Overlooked
  <1>4. ASSUME NEW w \in Workers, Handler(w)
        PROVE  Overlooked'
    <2>1. exec[w] \in Ids /\ Ids \subseteq Ids'
      BY <1>4, HandlerMoves, GrownRows DEF Moves, Control, Owner
    <2>2. unnoticed' = unnoticed \/ unnoticed' = unnoticed \cup {exec[w]}
      BY <1>4, HandlerMoves DEF Moves, Overlooks, Swallows, faults
    <2>3. QED
      BY <2>1, <2>2 DEF Overlooked
  <1>5. ASSUME NEW w \in Workers, Ends(w)
        PROVE  Overlooked'
    BY <1>5 DEF Ends, Outcome, Sets, faults, Overlooked
  <1>6. ASSUME NEW i \in Ids, Elapse(i)
        PROVE  Overlooked'
    BY <1>6, ElapseSame, ElapseChanges DEF SameRows, faults, Overlooked
  <1>7. QED
    BY <1>1, <1>2, <1>3, <1>4, <1>5, <1>6, Steps

\* The type invariant of the runs: Behind bounds the deliveries.
LEMMA TypeInvariant ==
    ASSUME Types, Overlooked, Behind
    PROVE  IngestTypeOK
  <1>1. hook.deliveries \in 0..MaxCommits /\ hook.todo \in Seq(Request)
    <2>1. remote \in 0..MaxCommits /\ hook.deliveries \in Nat /\ hook.todo \in Seq(Request)
      BY DEF Types, GitTypes, HistoryTypes
    <2>2. QED
      BY <2>1, IngestionAssumption DEF Behind
  <1>2. QED
    BY <1>1 DEF Types, Overlooked, IngestTypeOK, ThreadTypes, GitTypes, DataTypes, HistoryTypes


(***************************************************************************)
(* Accounting is inductive.                                                *)
(***************************************************************************)
\* All rows stay, with the type and the status they had.
RowsStay ==
    \A j \in Ids : /\ j \in Ids'
                   /\ jobs'[j].type = jobs[j].type /\ jobs'[j].status = jobs[j].status

\* Steps that touch neither the threads nor what is asked for and indexed.
LEMMA AccountingStays ==
    ASSUME Types, Control, Accounting, RowsStay,
           UNCHANGED <<exec, at, origin, tree, index, gaveUp, unreset>>,
           asked'["index_incremental"] = asked["index_incremental"]
    PROVE  Accounting'
  <1>1. \A w \in Workers : (Idle(w)' <=> Idle(w)) /\ (~Idle(w) => Type(w)' = Type(w))
    BY DEF Control, Owner, Idle, Type, RowsStay
  <1>2. IncrementalQueued => IncrementalQueued'
    BY DEF IncrementalQueued, IsIncremental, RowsStay
  <1>3. IncrementalRuns => IncrementalRuns'
    BY <1>1 DEF IncrementalRuns
  <1>4. GaveUpOnRecord'
    BY DEF Accounting, GaveUpOnRecord, IsIncremental, RowsStay
  <1>5. Building'
    BY <1>1, <1>2 DEF Accounting, Building
  <1>6. Pending'
    BY <1>2, <1>3 DEF Accounting, Pending
  <1>7. QED
    BY <1>4, <1>5, <1>6 DEF Accounting

LEMMA AccountingHook ==
    ASSUME Types, Control, Accounting, HookEnqueues
    PROVE  Accounting'
  <1>1. RowsStay
    BY HookGrows, GrownRows DEF RowsStay
  <1>2. UNCHANGED <<exec, at, origin, tree, index, gaveUp, unreset>>
    BY DEF HookEnqueues, gitVars, dataVars, faults
  <1> DEFINE h == Head(hook.todo)
  <1>3. CASE h.type # "index_incremental"
    <2>1. asked'["index_incremental"] = asked["index_incremental"]
      BY <1>3 DEF HookEnqueues, Types, HistoryTypes
    <2>2. QED
      BY <1>1, <1>2, <2>1, AccountingStays
  <1>4. CASE h.type = "index_incremental"
    <2>1. IncrementalQueued'
      <3>1. PICK i \in Ids' : jobs'[i].status = "queued" /\ Key(jobs'[i]) = Key(h)
        BY HookGrows
      <3>2. jobs'[i].type = h.type
        BY <3>1 DEF Key
      <3>3. QED
        BY <1>4, <3>1, <3>2 DEF IncrementalQueued, IsIncremental
    <2>2. GaveUpOnRecord'
      BY <1>1, <1>2 DEF Accounting, GaveUpOnRecord, IsIncremental, RowsStay
    <2>3. QED
      BY <2>1, <2>2 DEF Accounting, Building, Pending
  <1>5. QED
    BY <1>3, <1>4

LEMMA AccountingTakes ==
    ASSUME Types, Control, Accounting, NEW w \in Workers, NEW i \in Ids, Takes(w, i)
    PROVE  Accounting'
  <1> DEFINE r == [jobs[i] EXCEPT !.status = "running", !.attempts = @ + 1]
  <1>1. r.type = jobs[i].type
    BY Typing DEF Row
  <1>2. /\ Ids' = Ids /\ jobs'[i] = r /\ \A j \in Ids : j # i => jobs'[j] = jobs[j]
    BY DEF Takes, Sets
  <1> HIDE DEF r
  <1>3. /\ exec'[w] = i /\ at'[w] = Entry(jobs[i].type)
        /\ \A v \in Workers \ {w} : exec'[v] = exec[v] /\ at'[v] = at[v]
        /\ i # 0 /\ jobs[i].status = "queued" /\ Idle(w)
        /\ UNCHANGED <<origin, tree, index, asked, gaveUp, unreset>>
    BY Typing DEF Takes, gitVars, dataVars, hookVars, faults
  <1>4. \A v \in Workers \ {w} :
          (Idle(v)' <=> Idle(v)) /\ (~Idle(v) => Type(v)' = Type(v))
    <2>1. \A v \in Workers \ {w} : ~Idle(v) => exec[v] \in Ids /\ exec[v] # i
      BY <1>3 DEF Control, Owner
    <2>2. QED
      BY <1>2, <1>3, <2>1 DEF Idle, Type
  <1>5. ~Idle(w)' /\ Type(w)' = jobs[i].type
    BY <1>1, <1>2, <1>3 DEF Idle, Type
  <1>6. GaveUpOnRecord'
    <2>1. \A j \in Ids : jobs[j].status = "failed" => jobs'[j] = jobs[j]
      BY <1>2, <1>3
    <2>2. QED
      BY <1>2, <1>3, <2>1 DEF Accounting, GaveUpOnRecord, IsIncremental
  <1>7. CASE IsIncremental(i)
    <2>1. ~Idle(w)' /\ Type(w)' = "index_incremental" /\ at'[w] = "git"
      BY <1>3, <1>5, <1>7 DEF IsIncremental, Entry, WRITE_TYPES
    <2>2. \A v \in Workers : ~Idle(v)' /\ Type(v)' = "index_incremental" => v = w
      <3>1. Control'
        BY ControlTakes
      <3>2. QED
        BY <2>1, <3>1 DEF Control, Exclusive, WRITE_TYPES
    <2>3. Building'
      BY <2>1, <2>2 DEF Building
    <2>4. Pending'
      BY <2>1 DEF Pending, IncrementalRuns
    <2>5. QED
      BY <1>6, <2>3, <2>4 DEF Accounting
  <1>8. CASE ~IsIncremental(i)
    <2>1. IncrementalQueued => IncrementalQueued'
      BY <1>2, <1>8 DEF IncrementalQueued, IsIncremental
    <2>2. IncrementalRuns => IncrementalRuns'
      BY <1>3, <1>4 DEF IncrementalRuns
    <2>3. Type(w)' # "index_incremental"
      BY <1>5, <1>8 DEF IsIncremental
    <2>4. Building'
      <3>1. SUFFICES ASSUME NEW v \in Workers, ~Idle(v)', Type(v)' = "index_incremental"
                     PROVE  \/ IncrementalQueued'
                            \/ asked'["index_incremental"] <= unreset'
                            \/ at'[v] = "git"
                            \/ at'[v] = "checkout" /\ asked'["index_incremental"] <= origin'
                            \/ at'[v] = "build" /\ asked'["index_incremental"] <= tree'
                            \/ at'[v] = "done" /\ asked'["index_incremental"] <= index'
        BY DEF Building
      <3>2. v # w /\ ~Idle(v) /\ Type(v) = "index_incremental" /\ at'[v] = at[v]
        BY <1>3, <1>4, <2>3, <3>1
      <3>3. QED
        BY <1>3, <2>1, <3>2 DEF Accounting, Building
    <2>5. Pending'
      BY <1>3, <2>1, <2>2 DEF Accounting, Pending
    <2>6. QED
      BY <1>6, <2>4, <2>5 DEF Accounting
  <1>9. QED
    BY <1>7, <1>8

LEMMA AccountingHandler ==
    ASSUME Types, Control, Behind, Accounting, NEW w \in Workers, Handler(w)
    PROVE  Accounting'
  <1>1. Moves(w, FollowUpTypes)
    BY HandlerMoves
  <1>2. RowsStay
    BY <1>1, GrownRows DEF Moves, RowsStay
  <1>3. /\ exec' = exec /\ asked' = asked /\ gaveUp' = gaveUp
        /\ \A v \in Workers \ {w} : at'[v] = at[v]
    BY <1>1, Typing DEF Moves, Overlooks, Swallows, faults
  <1>4. \A v \in Workers : (Idle(v)' <=> Idle(v)) /\ (~Idle(v) => Type(v)' = Type(v))
    BY <1>2, <1>3 DEF Control, Owner, Idle, Type, RowsStay
  <1>5. IncrementalQueued => IncrementalQueued'
    BY <1>2 DEF IncrementalQueued, IsIncremental, RowsStay
  <1>6. IncrementalRuns => IncrementalRuns'
    BY <1>4 DEF IncrementalRuns
  <1>7. /\ index <= index' /\ index \in Nat /\ index' \in Nat /\ remote' = remote
        /\ Type(w) \notin WRITE_TYPES => UNCHANGED <<local, origin, tree, index>>
        /\ unreset \in Nat /\ unreset' \in Nat /\ unreset <= unreset'
    BY HandlerGit, HandlerUnreset, Typing
  <1>8. asked["index_incremental"] \in Nat /\ asked["index_incremental"] <= remote
    BY Typing DEF Behind, AskedTypes
  <1>9. Building'
    <2>1. SUFFICES ASSUME NEW v \in Workers, ~Idle(v), Type(v) = "index_incremental",
                          ~IncrementalQueued, ~(asked["index_incremental"] <= unreset')
                   PROVE  \/ at'[v] = "git"
                          \/ at'[v] = "checkout" /\ asked["index_incremental"] <= origin'
                          \/ at'[v] = "build" /\ asked["index_incremental"] <= tree'
                          \/ at'[v] = "done" /\ asked["index_incremental"] <= index'
      BY <1>3, <1>4, <1>5 DEF Building
    <2>2. \/ at[v] = "git"
          \/ at[v] = "checkout" /\ asked["index_incremental"] <= origin
          \/ at[v] = "build" /\ asked["index_incremental"] <= tree
          \/ at[v] = "done" /\ asked["index_incremental"] <= index
      BY <1>7, <1>8, <2>1 DEF Accounting, Building
    <2>3. CASE v = w
      <3>1. \/ at[w] = "git" /\ at'[w] = "checkout" /\ origin' = remote
            \/ at[w] = "checkout" /\ at'[w] = "build" /\ (tree' = origin \/ unreset' = origin)
            \/ at[w] = "build" /\ at'[w] = "done" /\ index' = tree
        BY <2>1, <2>3, IncrementalGoes
      <3>2. QED
        BY <1>8, <2>1, <2>2, <2>3, <3>1
    <2>4. CASE v # w
      <3>1. Type(w) \notin WRITE_TYPES
        BY <1>1, <2>1, <2>4 DEF Moves, Control, Exclusive, WRITE_TYPES
      <3>2. QED
        BY <1>3, <1>7, <2>2, <2>4, <3>1
    <2>5. QED
      BY <2>3, <2>4
  <1>10. Pending'
    BY <1>3, <1>5, <1>6, <1>7, <1>8 DEF Accounting, Pending
  <1>11. GaveUpOnRecord'
    BY <1>2, <1>3 DEF Accounting, GaveUpOnRecord, IsIncremental, RowsStay
  <1>12. QED
    BY <1>9, <1>10, <1>11 DEF Accounting


\* The row of a thread that leaves its job has the outcome; the other rows stay.
LEMMA OutcomeRows ==
    ASSUME Types, Control, NEW w \in Workers, NEW outcome, Outcome(w, outcome)
    PROVE  /\ ~Idle(w) /\ exec[w] \in Ids /\ jobs[exec[w]].status = "running"
           /\ Ids' = Ids
           /\ jobs'[exec[w]].type = jobs[exec[w]].type /\ jobs'[exec[w]].status = outcome
           /\ \A j \in Ids : j # exec[w] => jobs'[j] = jobs[j]
           /\ Idle(w)' /\ exec'[w] = 0 /\ at'[w] = "idle"
           /\ \A v \in Workers \ {w} : /\ exec'[v] = exec[v] /\ at'[v] = at[v]
                                       /\ read'[v] = read[v]
                                       /\ Idle(v)' <=> Idle(v)
                                       /\ ~Idle(v) => exec[v] \in Ids /\ exec[v] # exec[w]
                                       /\ ~Idle(v) => Type(v)' = Type(v)
           /\ UNCHANGED <<gitVars, dataVars, hookVars>>
  <1>1. ~Idle(w) /\ exec[w] \in Ids /\ jobs[exec[w]].status = "running"
    BY DEF Outcome, Control, Owner
  <1>2. PICK due \in BOOLEAN : Sets(exec[w], [jobs[exec[w]] EXCEPT !.status = outcome, !.due = due])
    BY DEF Outcome
  <1> DEFINE r == [jobs[exec[w]] EXCEPT !.status = outcome, !.due = due]
  <1>3. r.type = jobs[exec[w]].type /\ r.status = outcome
    BY <1>1, Typing DEF Row
  <1> HIDE DEF r
  <1>4. /\ Ids' = Ids /\ jobs'[exec[w]] = r
        /\ \A j \in Ids : j # exec[w] => jobs'[j] = jobs[j]
    BY <1>2 DEF Sets, r
  <1>5. /\ exec'[w] = 0 /\ at'[w] = "idle"
        /\ \A v \in Workers \ {w} : exec'[v] = exec[v] /\ at'[v] = at[v] /\ read'[v] = read[v]
        /\ UNCHANGED <<gitVars, dataVars, hookVars>>
    BY Typing DEF Outcome, Leave
  <1>6. Idle(w)' /\ \A v \in Workers \ {w} : Idle(v)' <=> Idle(v)
    BY <1>5 DEF Idle
  <1>7. \A v \in Workers \ {w} : ~Idle(v) => exec[v] \in Ids /\ exec[v] # exec[w]
    BY <1>1 DEF Control, Owner
  <1>8. \A v \in Workers \ {w} : ~Idle(v) => Type(v)' = Type(v)
    BY <1>4, <1>5, <1>7 DEF Type
  <1>9. QED
    BY <1>1, <1>3, <1>4, <1>5, <1>6, <1>7, <1>8

LEMMA AccountingEnds ==
    ASSUME Types, Control, Accounting, NEW w \in Workers, Ends(w)
    PROVE  Accounting'
  <1> DEFINE A == asked["index_incremental"]
  <1>1. PICK outcome : Outcome(w, outcome) /\ outcome \in {"done", "failed", "queued"}
    BY DEF Ends
  <1>2. /\ Ids' = Ids /\ exec[w] \in Ids /\ jobs[exec[w]].status = "running"
        /\ jobs'[exec[w]].type = Type(w) /\ jobs'[exec[w]].status = outcome
        /\ \A j \in Ids : jobs[j].status # "running" => jobs'[j] = jobs[j]
        /\ UNCHANGED <<origin, tree, index, asked, unreset>>
    BY <1>1, OutcomeRows DEF gitVars, dataVars, hookVars, Type, Ends, faults
  <1>3. /\ Idle(w)'
        /\ \A v \in Workers \ {w} : /\ at'[v] = at[v]
                                    /\ Idle(v)' <=> Idle(v)
                                    /\ ~Idle(v) => Type(v)' = Type(v)
    BY <1>1, OutcomeRows
  <1>4. IncrementalQueued => IncrementalQueued'
    BY <1>2 DEF IncrementalQueued, IsIncremental
  <1>5. \/ gaveUp' = gaveUp
        \/ gaveUp' = A /\ Type(w) = "index_incremental" /\ jobs'[exec[w]].status = "failed"
    <2>1. Outcome(w, "failed") => jobs'[exec[w]].status = "failed"
      BY OutcomeRows
    <2>2. QED
      BY <2>1 DEF Ends, faults
  <1>6. GaveUpOnRecord'
    BY <1>2, <1>5 DEF Accounting, GaveUpOnRecord, IsIncremental
  <1>7. Building'
    BY <1>2, <1>3, <1>4 DEF Accounting, Building
  <1>8. Pending'
    <2>1. SUFFICES ASSUME index < A, ~IncrementalQueued', gaveUp' # A, ~(A <= unreset)
                   PROVE  IncrementalRuns'
      BY <1>2 DEF Pending
    <2>2. ~IncrementalQueued /\ gaveUp' = gaveUp
      BY <1>4, <1>5, <2>1
    <2>3. PICK v \in Workers : ~Idle(v) /\ Type(v) = "index_incremental"
      BY <2>1, <2>2 DEF Accounting, Pending, IncrementalRuns
    <2>4. CASE v # w
      BY <1>3, <2>3, <2>4 DEF IncrementalRuns
    <2>5. CASE v = w
      <3>1. at[w] \in {"git", "checkout", "build", "done"}
        BY <2>3, <2>5 DEF Control, InPlace, Places
      <3>2. at[w] # "done"
        <4>1. at[w] = "done" => A <= index
          BY <2>1, <2>2, <2>3, <2>5 DEF Accounting, Building
        <4>2. QED
          BY <2>1, <4>1, Typing
      <3>3. gaveUp' = gaveUp /\ Outcome(w, "queued")
        BY <2>1, <2>2, <2>3, <2>5, <3>1, <3>2 DEF Ends
      <3>4. jobs'[exec[w]].status = "queued"
        BY <3>3, OutcomeRows
      <3>5. QED
        BY <1>2, <2>1, <2>3, <2>5, <3>4 DEF IncrementalQueued, IsIncremental
    <2>6. QED
      BY <2>4, <2>5
  <1>9. QED
    BY <1>6, <1>7, <1>8 DEF Accounting

LEMMA AccountingStep ==
    ASSUME Types, Control, Behind, Accounting, [Next]_vars
    PROVE  Accounting'
  <1>1. CASE UNCHANGED vars \/ Push \/ Receive
    <2>1. jobs' = jobs /\ UNCHANGED <<exec, at, origin, tree, index, gaveUp, asked, unreset>>
      BY <1>1 DEF vars, jobVars, gitVars, dataVars, hookVars, faults, Push, Receive
    <2>2. QED
      BY <2>1, AccountingStays DEF RowsStay, Ids
  <1>2. CASE HookEnqueues
    BY <1>2, AccountingHook
  <1>3. ASSUME NEW w \in Workers, NEW i \in Ids, Takes(w, i)
        PROVE  Accounting'
    BY <1>3, AccountingTakes
  <1>4. ASSUME NEW w \in Workers, Handler(w)
        PROVE  Accounting'
    BY <1>4, AccountingHandler
  <1>5. ASSUME NEW w \in Workers, Ends(w)
        PROVE  Accounting'
    BY <1>5, AccountingEnds
  <1>6. ASSUME NEW i \in Ids, Elapse(i)
        PROVE  Accounting'
    <2>1. RowsStay
      BY <1>6, ElapseSame DEF SameRows, RowsStay
    <2>2. QED
      BY <1>6, <2>1, ElapseChanges, AccountingStays DEF gitVars, dataVars, hookVars, faults
  <1>7. QED
    BY <1>1, <1>2, <1>3, <1>4, <1>5, <1>6, Steps

\* What was asked for and is not indexed is accounted for.
LEMMA AccountedFor ==
    ASSUME Types, Control, Behind, Accounting
    PROVE  IndexAccounted
  <1>1. SUFFICES ASSUME asked["index_incremental"] > index, ~IncrementalQueued,
                        ~(unreset >= asked["index_incremental"])
                 PROVE  ComesOrFailed
    BY DEF IndexAccounted, ComesOrFailed, IncrementalQueued
  <1>2. /\ index \in Nat /\ asked["index_incremental"] \in Nat /\ origin \in Nat /\ tree \in Nat
        /\ unreset \in Nat
    BY Typing
  <1>3. CASE IncrementalRuns
    <2>1. PICK w \in Workers : ~Idle(w) /\ Type(w) = "index_incremental"
      BY <1>3 DEF IncrementalRuns
    <2>2. \/ at[w] = "git"
          \/ at[w] = "checkout" /\ asked["index_incremental"] <= origin
          \/ at[w] = "build" /\ asked["index_incremental"] <= tree
          \/ at[w] = "done" /\ asked["index_incremental"] <= index
      BY <1>1, <1>2, <2>1 DEF Accounting, Building
    <2>3. QED
      BY <1>1, <1>2, <2>1, <2>2 DEF ComesOrFailed
  <1>4. CASE gaveUp = asked["index_incremental"]
    BY <1>1, <1>2, <1>4 DEF Accounting, GaveUpOnRecord, ComesOrFailed
  <1>5. QED
    BY <1>1, <1>2, <1>3, <1>4 DEF Accounting, Pending


(***************************************************************************)
(* DataFirst is inductive.                                                 *)
(***************************************************************************)
LEMMA DataFirstStays ==
    ASSUME DataFirst, UNCHANGED <<local, origin, analysed>>,
           \A i \in Ids' : jobs'[i].type \in ReportTypes =>
                i \in Ids /\ jobs[i].type \in ReportTypes,
           \A w \in Workers : at'[w] \in {"analyse", "follow", "empty"} =>
                at'[w] = at[w] /\ read'[w] = read[w] /\ Type(w)' = Type(w) /\ exec'[w] = exec[w],
           unnoticed' = unnoticed
    PROVE  DataFirst'
  <1>1. BareRef' = BareRef
    BY DEF BareRef
  <1>2. ASSUME NEW w \in Workers
        PROVE  Listed(w)'
    BY <1>1 DEF DataFirst, Listed
  <1>3. QED
    BY <1>1, <1>2 DEF DataFirst

\* What there is stays.
LEMMA DataStays ==
    ASSUME Types, Control, Behind, NEW w \in Workers, Handler(w)
    PROVE  /\ analysed # {} => analysed' # {}
           /\ BareRef # 0 => BareRef' # 0
  <1>1. /\ local \in Nat /\ origin \in Nat /\ local' \in Nat /\ origin' \in Nat
        /\ local <= local' /\ origin <= origin'
    BY HandlerGit, Typing
  <1>2. analysed \subseteq analysed'
    BY DEF Handler, Clone, Fetch, SetIndexing, SyncBranches, AddWorktree, BuildIndex, Activate,
       FollowUps, ListCommits, AnalyseCommit, AnalysisEnds, Gather, WritePage, Scan,
       PeriodReport, ContributorReport, Reads, dataVars
  <1>3. QED
    BY <1>1, <1>2 DEF BareRef

\* Only the follow-ups of an analysis are reports.
LEMMA NewReports ==
    ASSUME Types, Control, NEW w \in Workers, Handler(w),
           NEW i \in Ids', jobs'[i].type \in ReportTypes
    PROVE  \/ i \in Ids /\ jobs[i].type \in ReportTypes
           \/ at[w] = "follow" /\ Type(w) = "commit_analyze"
  <1>1. CASE FollowUps(w)
    <2>1. ~Idle(w) /\ at[w] = "follow" /\ at[w] \in Places(Type(w))
      BY <1>1 DEF FollowUps, From, Goes, Control, Owner, InPlace
    <2>2. Type(w) = "index_build" \/ Type(w) = "commit_analyze"
      BY <2>1 DEF Places
    <2>3. CASE Type(w) = "index_build"
      <3>1. Grown(jobs, jobs', Requests(PostIndexTypes))
        BY <1>1, <2>3, FollowUpsGrow
      <3>2. i \in Ids /\ jobs'[i] = jobs[i]
        BY <3>1, GrownRows DEF PostIndexTypes, ReportTypes
      <3>3. QED
        BY <3>2
    <2>4. QED
      BY <2>1, <2>2, <2>3
  <1>2. CASE jobs' = jobs
    BY <1>2 DEF Ids
  <1>3. QED
    BY <1>1, <1>2 DEF Handler, Clone, Fetch, SetIndexing, SyncBranches, AddWorktree, BuildIndex,
       Activate, ListCommits, AnalyseCommit, AnalysisEnds, Gather, WritePage, Scan,
       PeriodReport, ContributorReport, Reads

\* The thread that goes on has what it says it has.
LEMMA HandlerListed ==
    ASSUME Types, Control, Behind, DataFirst, NEW w \in Workers, Handler(w)
    PROVE  Listed(w)'
  <1>1. Moves(w, FollowUpTypes)
    BY HandlerMoves
  <1>2. /\ ~Idle(w) /\ exec[w] \in Ids /\ at[w] \in Places(Type(w)) /\ Type(w) = jobs[exec[w]].type
        /\ Listed(w) /\ BareRef \in Nat
    BY <1>1, Typing DEF Moves, Control, Owner, InPlace, Type, DataFirst, BareRef
  <1>3. Type(w)' = Type(w)
    BY <1>1, <1>2, GrownRows DEF Moves, Type
  <1>4. at \in [Workers -> Stages] /\ read \in [Workers -> SUBSET Commits]
    BY Typing
  <1>5. CASE at'[w] \notin {"analyse", "follow", "empty"}
    BY <1>5 DEF Listed
  <1>6. CASE \/ Clone(w) \/ Fetch(w) \/ SetIndexing(w) \/ SyncBranches(w) \/ AddWorktree(w)
             \/ BuildIndex(w) \/ FollowUps(w) \/ WritePage(w)
    <2>1. CASE SyncBranches(w)
      <3>1. at[w] = "sync" /\ at'[w] \in {"done", "checkout", "empty"}
        BY <1>4, <2>1 DEF SyncBranches, From, Goes
      <3>2. Type(w) \notin ReportTypes
        BY <1>2, <3>1 DEF Places, ReportTypes
      <3>3. QED
        BY <1>3, <3>1, <3>2 DEF Listed
    <2>2. CASE AddWorktree(w)
      BY <1>4, <1>5, <2>2 DEF AddWorktree, Goes
    <2>3. QED
      BY <1>4, <1>5, <1>6, <2>1, <2>2 DEF Clone, Fetch, SetIndexing, BuildIndex, FollowUps,
         WritePage, From, Goes
  <1>7. CASE Activate(w)
    <2>1. at'[w] = "follow" /\ Type(w) # "commit_analyze"
      BY <1>2, <1>4, <1>7 DEF Activate, From, Goes, Places
    <2>2. QED
      BY <1>3, <2>1 DEF Listed
  <1>8. CASE ListCommits(w)
    <2>1. PICK ref \in {BareRef, origin}, n \in 0..MaxCommits :
            /\ n <= ref
            /\ at[w] = "list" /\ at'[w] = IF n = 0 THEN "empty" ELSE "analyse"
            /\ read'[w] = Newest(ref, n) /\ BareRef' = BareRef
      BY <1>4, <1>8 DEF ListCommits, Goes, BareRef, gitVars
    <2>2. Type(w) = "commit_analyze"
      BY <1>2, <2>1 DEF Places
    <2>3. n # 0 => BareRef # 0 /\ Newest(ref, n) # {}
      <3>1. SUFFICES ASSUME n # 0 PROVE BareRef # 0 /\ Newest(ref, n) # {}
        OBVIOUS
      <3>2. ref \in Nat /\ n \in Nat /\ ref # 0
        BY <1>2, <2>1, <3>1, Typing
      <3>3. ref \in Newest(ref, n)
        BY <3>1, <3>2 DEF Newest
      <3>4. QED
        BY <3>2, <3>3 DEF BareRef
    <2>4. QED
      BY <1>3, <2>1, <2>2, <2>3 DEF Listed, ReportTypes
  <1>9. CASE AnalyseCommit(w)
    <2>1. at[w] = "analyse" /\ at'[w] = "analyse" /\ BareRef' = BareRef /\ analysed' # {}
      BY <1>4, <1>9 DEF AnalyseCommit, From, Goes, BareRef, gitVars
    <2>2. QED
      BY <1>2, <2>1 DEF Listed
  <1>10. CASE AnalysisEnds(w)
    <2>1. /\ at[w] = "analyse" /\ at'[w] = "follow" /\ BareRef' = BareRef /\ analysed' = analysed
          /\ read[w] = {}
      BY <1>4, <1>10 DEF AnalysisEnds, From, Goes, BareRef, gitVars, dataVars
    <2>2. QED
      BY <1>2, <2>1 DEF Listed
  <1>11. CASE Gather(w)
    <2>1. at[w] = "gather" /\ at'[w] \in {"empty", "done", "write"}
      BY <1>4, <1>11 DEF Gather, From, Goes
    <2>2. Type(w) = "wiki_gen"
      BY <1>2, <2>1 DEF Places
    <2>3. QED
      BY <1>3, <2>1, <2>2 DEF Listed, ReportTypes
  <1>12. ASSUME NEW type, NEW data \in BOOLEAN, Reads(w, type, data),
                type \in ReportTypes => data
         PROVE  Listed(w)'
    <2>1. Type(w) = type /\ at'[w] = (IF data THEN "done" ELSE "empty")
      BY <1>4, <1>12 DEF Reads, From, Goes
    <2>2. QED
      BY <1>3, <1>12, <2>1 DEF Listed
  <1>13. CASE Scan(w)
    <2>1. PICK found \in BOOLEAN : Reads(w, "security_scan", tree # 0 /\ found)
      BY <1>13 DEF Scan
    <2>2. QED
      BY <1>12, <2>1 DEF ReportTypes
  <1>14. Type(w) \in ReportTypes => analysed # {} /\ BareRef # 0
    BY <1>2 DEF DataFirst
  <1>15. CASE PeriodReport(w)
    <2>1. Type(w) = "period_report"
      BY <1>15 DEF PeriodReport, Reads
    <2>2. analysed # {}
      BY <1>14, <2>1 DEF ReportTypes
    <2>3. QED
      BY <1>12, <1>15, <2>2 DEF PeriodReport
  <1>16. CASE ContributorReport(w)
    <2>1. CASE Reads(w, "contributor_report", BareRef # 0)
      <3>1. BareRef # 0
        BY <1>14, <2>1 DEF Reads, ReportTypes
      <3>2. QED
        BY <1>12, <2>1, <3>1
    <2>2. CASE Goes(w, "report", "empty") /\ Swallows(w)
      <3>1. at'[w] = "empty" /\ exec'[w] \in unnoticed'
        BY <1>4, <2>2 DEF Goes, Swallows
      <3>2. QED
        BY <3>1 DEF Listed
    <2>3. QED
      BY <1>16, <2>1, <2>2 DEF ContributorReport
  <1>17. QED
    BY <1>6, <1>7, <1>8, <1>9, <1>10, <1>11, <1>13, <1>15, <1>16 DEF Handler


LEMMA DataFirstStep ==
    ASSUME Types, Control, Behind, DataFirst, [Next]_vars
    PROVE  DataFirst'
  <1>1. CASE UNCHANGED vars \/ Push \/ Receive
    <2>1. UNCHANGED <<jobs, exec, at, read, local, origin, analysed, unnoticed>>
      BY <1>1 DEF vars, jobVars, gitVars, dataVars, faults, Push, Receive
    <2>2. QED
      BY <2>1, DataFirstStays DEF Ids, Type
  <1>2. CASE HookEnqueues
    <2>1. /\ UNCHANGED <<exec, at, read, local, origin, analysed, unnoticed>>
          /\ \A i \in Ids : i \in Ids' /\ jobs'[i] = jobs[i]
          /\ \A i \in Ids' \ Ids : jobs'[i].type \in AskedTypes
      BY <1>2, HookGrows, GrownRows DEF HookEnqueues, gitVars, dataVars, faults
    <2>2. \A i \in Ids' : jobs'[i].type \in ReportTypes => i \in Ids /\ jobs[i].type \in ReportTypes
      BY <2>1 DEF AskedTypes, ReportTypes
    <2>3. \A w \in Workers : at[w] \in {"analyse", "follow", "empty"} => Type(w)' = Type(w)
      BY <2>1 DEF Control, Owner, Type
    <2>4. QED
      BY <2>1, <2>2, <2>3, DataFirstStays
  <1>3. ASSUME NEW w \in Workers, NEW i \in Ids, Takes(w, i)
        PROVE  DataFirst'
    <2>1. \A j \in Ids : jobs'[j].type = jobs[j].type
      BY <1>3, Typing DEF Takes, Sets, Row
    <2>2. /\ Ids' = Ids /\ at'[w] = Entry(jobs[i].type)
          /\ \A v \in Workers \ {w} : exec'[v] = exec[v] /\ at'[v] = at[v]
          /\ UNCHANGED <<read, local, origin, analysed, unnoticed>>
      BY <1>3, Typing DEF Takes, Sets, gitVars, dataVars, faults
    <2>3. at'[w] \notin {"analyse", "follow", "empty"}
      BY <2>2 DEF Entry
    <2>4. \A v \in Workers \ {w} : ~Idle(v) => Type(v)' = Type(v)
      BY <2>1, <2>2 DEF Control, Owner, Type
    <2>5. \A v \in Workers : at'[v] \in {"analyse", "follow", "empty"} =>
            at'[v] = at[v] /\ read'[v] = read[v] /\ Type(v)' = Type(v) /\ exec'[v] = exec[v]
      BY <2>2, <2>3, <2>4 DEF Control, Owner
    <2>6. QED
      BY <2>1, <2>2, <2>5, DataFirstStays
  <1>4. ASSUME NEW w \in Workers, Handler(w)
        PROVE  DataFirst'
    <2>1. Moves(w, FollowUpTypes)
      BY <1>4, HandlerMoves
    <2>2. /\ exec' = exec /\ \A v \in Workers \ {w} : at'[v] = at[v]
      BY <2>1, Typing DEF Moves
    <2>3. \A v \in Workers \ {w} : read'[v] = read[v]
      BY <1>4, Typing DEF Handler, Clone, Fetch, SetIndexing, SyncBranches, AddWorktree,
         BuildIndex, Activate, FollowUps, ListCommits, AnalyseCommit, AnalysisEnds, Gather,
         WritePage, Scan, PeriodReport, ContributorReport, Reads
    <2>4. \A v \in Workers : ~Idle(v) => Type(v)' = Type(v)
      BY <2>1, <2>2, GrownRows DEF Moves, Control, Owner, Type
    <2>5. (\E i \in Ids' : jobs'[i].type \in ReportTypes) => analysed' # {} /\ BareRef' # 0
      <3>1. SUFFICES ASSUME NEW i \in Ids', jobs'[i].type \in ReportTypes
                     PROVE  analysed # {} /\ BareRef # 0
        BY <1>4, DataStays
      <3>2. \/ i \in Ids /\ jobs[i].type \in ReportTypes
            \/ at[w] = "follow" /\ Type(w) = "commit_analyze"
        BY <1>4, <3>1, NewReports
      <3>3. QED
        BY <3>2 DEF DataFirst, Listed
    <2>6. \A v \in Workers \ {w} : Listed(v)'
      <3>1. SUFFICES ASSUME NEW v \in Workers \ {w}
                     PROVE  Listed(v)'
        OBVIOUS
      <3>2. Listed(v)
        BY DEF DataFirst
      <3>3. at[v] \in {"analyse", "follow", "empty"} => Type(v)' = Type(v)
        BY <2>4 DEF Control, Owner
      <3>4. unnoticed \subseteq unnoticed'
        BY <2>1 DEF Moves, Overlooks, Swallows, faults
      <3>5. QED
        BY <1>4, <2>2, <2>3, <3>2, <3>3, <3>4, DataStays DEF Listed
    <2>7. Listed(w)'
      BY <1>4, HandlerListed
    <2>8. QED
      BY <2>5, <2>6, <2>7 DEF DataFirst
  <1>5. ASSUME NEW w \in Workers, Ends(w)
        PROVE  DataFirst'
    <2>1. PICK outcome : Outcome(w, outcome)
      BY <1>5 DEF Ends
    <2>2. /\ Ids' = Ids /\ \A j \in Ids : jobs'[j].type = jobs[j].type
          /\ UNCHANGED <<local, origin, analysed, unnoticed>>
      BY <1>5, <2>1, OutcomeRows DEF gitVars, dataVars, Ends, faults
    <2>3. \A v \in Workers : at'[v] \in {"analyse", "follow", "empty"} =>
            at'[v] = at[v] /\ read'[v] = read[v] /\ Type(v)' = Type(v) /\ exec'[v] = exec[v]
      BY <2>1, OutcomeRows DEF Control, Owner
    <2>4. QED
      BY <2>2, <2>3, DataFirstStays
  <1>6. ASSUME NEW i \in Ids, Elapse(i)
        PROVE  DataFirst'
    <2>1. SameRows /\ UNCHANGED <<exec, at, read, local, origin, analysed, unnoticed>>
      BY <1>6, ElapseSame, ElapseChanges DEF gitVars, dataVars, faults
    <2>2. \A v \in Workers : ~Idle(v) => Type(v)' = Type(v)
      BY <2>1 DEF SameRows, Control, Owner, Type
    <2>3. \A v \in Workers : at'[v] \in {"analyse", "follow", "empty"} => Type(v)' = Type(v)
      BY <2>1, <2>2 DEF Control, Owner
    <2>4. QED
      BY <2>1, <2>3, DataFirstStays DEF SameRows
  <1>7. QED
    BY <1>1, <1>2, <1>3, <1>4, <1>5, <1>6, Steps

(***************************************************************************)
(* Unfinished is inductive.                                                *)
(***************************************************************************)
LEMMA BuildGoesOn ==
    ASSUME Types, Control, NEW w \in Workers, Handler(w), status' = "indexing",
           NEW i, StillToBuild(i)
    PROVE  StillToBuild(i)'
  <1>1. Moves(w, FollowUpTypes)
    BY HandlerMoves
  <1>2. /\ i \in Ids' /\ jobs'[i] = jobs[i] /\ jobs[i].type = "index_build"
        /\ exec' = exec /\ at \in [Workers -> Stages]
        /\ \A v \in Workers \ {w} : at'[v] = at[v]
    BY <1>1, GrownRows, Typing DEF Moves, StillToBuild
  <1>3. CASE jobs[i].status \in {"queued", "failed"}
    BY <1>2, <1>3 DEF StillToBuild
  <1>4. ASSUME NEW v \in Workers, exec[v] = i, at[v] \notin {"idle", "follow", "done"}
        PROVE  StillToBuild(i)'
    <2>1. CASE v # w
      BY <1>2, <1>4, <2>1 DEF StillToBuild
    <2>2. CASE v = w
      <3>1. Type(w) = "index_build" /\ at[w] \in Places(Type(w)) /\ at[w] \notin {"follow", "done"}
        BY <1>1, <1>2, <1>4, <2>2 DEF Type, Moves, Control, InPlace
      <3>2. at[w] \in {"git", "status", "sync", "checkout", "build"}
        <4>1. at[w] \notin {"activate", "empty"}
          <5>1. SUFFICES ASSUME at[w] \in {"activate", "empty"} PROVE FALSE
            OBVIOUS
          <5>2. ~(SyncBranches(w) \/ AddWorktree(w) \/ ListCommits(w) \/ ContributorReport(w))
            BY <5>1 DEF SyncBranches, AddWorktree, ListCommits, ContributorReport, Reads, From, Goes
          <5>3. ~(Scan(w) \/ PeriodReport(w))
            BY <5>1 DEF Scan, PeriodReport, Reads, From, Goes
          <5>4. ~(\/ Clone(w) \/ Fetch(w) \/ SetIndexing(w) \/ BuildIndex(w) \/ FollowUps(w)
                  \/ AnalyseCommit(w) \/ AnalysisEnds(w) \/ Gather(w) \/ WritePage(w))
            BY <5>1 DEF Clone, Fetch, SetIndexing, BuildIndex, FollowUps, AnalyseCommit,
               AnalysisEnds, Gather, WritePage, From, Goes
          <5>5. Activate(w)
            BY <5>2, <5>3, <5>4 DEF Handler
          <5>6. QED
            BY <5>5 DEF Activate
        <4>2. QED
          BY <3>1, <4>1 DEF Places
      <3>3. at'[w] \in {"git", "status", "sync", "checkout", "build", "activate"}
        <4>1. CASE \/ Clone(w) \/ Fetch(w) \/ SetIndexing(w) \/ SyncBranches(w) \/ AddWorktree(w)
                   \/ BuildIndex(w)
          BY <1>2, <3>1, <4>1 DEF Clone, Fetch, SetIndexing, SyncBranches, AddWorktree,
             BuildIndex, From, Goes
        <4>2. QED
          BY <3>2, <4>1 DEF Handler, Activate, FollowUps, ListCommits, AnalyseCommit,
             AnalysisEnds, Gather, WritePage, Scan, PeriodReport, ContributorReport, Reads, From,
             Goes
      <3>4. QED
        BY <1>2, <1>4, <2>2, <3>3 DEF StillToBuild
    <2>3. QED
      BY <2>1, <2>2
  <1>5. QED
    BY <1>3, <1>4 DEF StillToBuild

LEMMA UnfinishedStep ==
    ASSUME Types, Control, Behind, Unfinished, [Next]_vars
    PROVE  Unfinished'
  <1>1. SUFFICES ASSUME status' = "indexing"
                 PROVE  \E i : StillToBuild(i)'
    BY DEF Unfinished
  <1>2. status = "indexing" => \E i : StillToBuild(i)
    BY DEF Unfinished
  <1>3. ASSUME RowsStay, exec' = exec, at' = at, status' = status
        PROVE  \E i : StillToBuild(i)'
    <2>1. PICK i : StillToBuild(i)
      BY <1>1, <1>2, <1>3
    <2>2. StillToBuild(i)'
      BY <1>3, <2>1 DEF StillToBuild, RowsStay
    <2>3. QED
      BY <2>2
  <1>4. CASE UNCHANGED vars \/ Push \/ Receive
    BY <1>3, <1>4 DEF vars, jobVars, dataVars, Push, Receive, RowsStay, Ids
  <1>5. CASE HookEnqueues
    <2>1. RowsStay
      BY <1>5, HookGrows, GrownRows DEF RowsStay
    <2>2. QED
      BY <1>3, <1>5, <2>1 DEF HookEnqueues, dataVars
  <1>6. ASSUME NEW w \in Workers, NEW j \in Ids, Takes(w, j)
        PROVE  \E i : StillToBuild(i)'
    <2>1. status' = status
      BY <1>6 DEF Takes, dataVars
    <2>2. PICK i : StillToBuild(i)
      BY <1>1, <1>2, <2>1
    <2>3. \A k \in Ids : jobs'[k].type = jobs[k].type
      BY <1>6, Typing DEF Takes, Sets, Row
    <2>4. /\ Ids' = Ids /\ exec'[w] = j /\ at'[w] = Entry(jobs[j].type)
          /\ \A v \in Workers \ {w} : exec'[v] = exec[v] /\ at'[v] = at[v]
          /\ \A k \in Ids : k # j => jobs'[k] = jobs[k]
          /\ Idle(w)
      BY <1>6, Typing DEF Takes, Sets
    <2>5. Entry(jobs[j].type) \notin {"idle", "follow", "done"}
      BY DEF Entry
    <2>6. at[w] = "idle"
      BY <2>4 DEF Control, Owner
    <2>7. StillToBuild(i)'
      BY <2>2, <2>3, <2>4, <2>5, <2>6 DEF StillToBuild
    <2>8. QED
      BY <2>7
  <1>7. ASSUME NEW w \in Workers, Handler(w)
        PROVE  \E i : StillToBuild(i)'
    <2>1. CASE status = "indexing"
      BY <1>1, <1>2, <1>7, <2>1, BuildGoesOn
    <2>2. CASE status # "indexing"
      <3>1. SetIndexing(w)
        BY <1>1, <1>7, <2>2 DEF Handler, Clone, Fetch, SyncBranches, AddWorktree, BuildIndex,
           Activate, FollowUps, ListCommits, AnalyseCommit, AnalysisEnds, Gather, WritePage,
           Scan, PeriodReport, ContributorReport, Reads, dataVars
      <3>2. /\ at[w] = "status" /\ at'[w] = "sync" /\ jobs' = jobs /\ exec' = exec
        BY <3>1, Typing DEF SetIndexing, From, Goes
      <3>3. exec[w] \in Ids /\ Type(w) = "index_build"
        BY <3>2 DEF Control, Owner, InPlace, Places
      <3>4. StillToBuild(exec[w])'
        BY <3>2, <3>3 DEF StillToBuild, Ids, Type
      <3>5. QED
        BY <3>4
    <2>3. QED
      BY <2>1, <2>2
  <1>8. ASSUME NEW w \in Workers, Ends(w)
        PROVE  \E i : StillToBuild(i)'
    <2>1. PICK outcome : Outcome(w, outcome) /\ (at[w] = "done" \/ outcome \in {"queued", "failed"})
      BY <1>8 DEF Ends
    <2>2. status' = status
      BY <2>1, OutcomeRows DEF dataVars
    <2>3. PICK i : StillToBuild(i)
      BY <1>1, <1>2, <2>2
    <2>4. StillToBuild(i)'
      <3>1. CASE i # exec[w]
        BY <2>1, <2>3, <3>1, OutcomeRows DEF StillToBuild
      <3>2. CASE i = exec[w]
        <4>1. \E v \in Workers : exec[v] = i /\ at[v] \notin {"idle", "follow", "done"}
          BY <2>1, <2>3, <3>2, OutcomeRows DEF StillToBuild
        <4>2. at[w] # "done"
          BY <2>1, <3>2, <4>1, OutcomeRows DEF Control, Owner
        <4>3. QED
          BY <2>1, <2>3, <3>2, <4>2, OutcomeRows DEF StillToBuild
      <3>3. QED
        BY <3>1, <3>2
    <2>5. QED
      BY <2>4
  <1>9. ASSUME NEW i \in Ids, Elapse(i)
        PROVE  \E k : StillToBuild(k)'
    <2>1. RowsStay
      BY <1>9, ElapseSame DEF SameRows, RowsStay
    <2>2. QED
      BY <1>3, <1>9, <2>1, ElapseChanges DEF dataVars
  <1>10. QED
    BY <1>4, <1>5, <1>6, <1>7, <1>8, <1>9, Steps

-----------------------------------------------------------------------------
(***************************************************************************)
(* The theorems.                                                           *)
(***************************************************************************)
LEMMA InitIInv ==
    ASSUME Init
    PROVE  IInv
  <1> DEFINE r == Req("index_build", NoBranch, BACKFILL)
  <1>1. r \in Request /\ r \in Requests({"index_build"})
    BY ReqIs DEF JobTypes, WRITE_TYPES, BACKFILL, Requests
  <1>2. jobs = Add(<<>>, r)
    BY DEF Init
  <1> HIDE DEF r
  <1>3. Grown(<<>>, jobs, {r})
    <2>1. Grown(<<>>, Add(<<>>, r), {r})
      BY <1>1, <<>> \in Seq(Row), AddGrows
    <2>2. QED
      BY <1>2, <2>1
  <1>4. jobs \in Seq(Row) /\ \A i \in Ids : jobs[i] = NewRow(r)
    BY <1>3 DEF Grown, Ids
  <1>5. \A i \in Ids : jobs[i].project = Project /\ jobs[i].type = "index_build"
    BY <1>1, <1>4, NewRowIs DEF Requests
  <1>6. /\ AtCreation \in 1..MaxCommits /\ MaxCommits \in Nat \ {0} /\ MaxFailures \in Nat
    BY IngestionAssumption
  <1>7. \A w \in Workers : Idle(w) /\ at[w] = "idle"
    BY DEF Init, Idle
  <1>8. hook = [deliveries |-> 0, todo |-> <<>>]
    BY DEF Init
  <1>9. Types
    <2>1. ThreadTypes
      BY <1>4 DEF Init, ThreadTypes, Stages
    <2>2. GitTypes
      BY <1>6 DEF Init, GitTypes
    <2>3. DataTypes
      BY DEF Init, DataTypes
    <2>4. HistoryTypes
      BY <1>6, <1>8 DEF Init, HistoryTypes, AskedTypes
    <2>5. QED
      BY <2>1, <2>2, <2>3, <2>4 DEF Types
  <1>10. Control
    <2>1. OneProject
      BY <1>5, <1>8 DEF OneProject
    <2>2. Owner /\ InPlace /\ Exclusive
      BY <1>7 DEF Owner, InPlace, Exclusive
    <2>3. QED
      BY <2>1, <2>2 DEF Control
  <1>11. Behind
    BY <1>6, <1>8 DEF Init, Behind, AskedTypes
  <1>12. Accounting
    <2>1. asked["index_incremental"] = 0 /\ index = 0 /\ gaveUp = 0
      BY DEF Init
    <2>2. QED
      BY <1>7, <2>1 DEF Accounting, Building, Pending, GaveUpOnRecord
  <1>13. DataFirst
    BY <1>5, <1>7 DEF DataFirst, Listed, ReportTypes
  <1>14. Unfinished /\ Overlooked
    BY DEF Init, Unfinished, Overlooked
  <1>15. QED
    BY <1>9, <1>10, <1>11, <1>12, <1>13, <1>14 DEF IInv

LEMMA StepIInv ==
    ASSUME IInv, [Next]_vars
    PROVE  IInv'
  <1>1. Types /\ Overlooked /\ Control /\ Behind /\ Accounting /\ DataFirst /\ Unfinished
    BY DEF IInv
  <1>2. QED
    BY <1>1, TypesStep, OverlookedStep, ControlStep, BehindStep, AccountingStep, DataFirstStep,
       UnfinishedStep DEF IInv

\* Whatever is pushed, claimed, raised and retried, the state is as IInv says.
THEOREM IngestionInductive == Spec => []IInv
  <1>1. Init => IInv
    BY InitIInv
  <1>2. IInv /\ [Next]_vars => IInv'
    BY StepIInv
  <1>3. QED
    BY <1>1, <1>2, PTL DEF Spec

\* Every variable holds a value of its type, for any number of threads and commits.
THEOREM IngestionTypes == Spec => []IngestTypeOK
  <1>1. IInv => IngestTypeOK
    BY TypeInvariant DEF IInv
  <1>2. QED
    BY <1>1, IngestionInductive, PTL

\* A commit whose webhook was handled is indexed, or a build that will fetch it is
\* under way, or the last build for it failed for good and is on record.
THEOREM CommitsAccounted == Spec => []IndexAccounted
  <1>1. IInv => IndexAccounted
    BY AccountedFor DEF IInv
  <1>2. QED
    BY <1>1, IngestionInductive, PTL

\* The reports that handlers enqueue find the analyses and the refs they need.
THEOREM ReportsFindData == Spec => []ReportsHaveData
  <1>1. IInv => ReportsHaveData
    BY DEF IInv, DataFirst, Listed, ReportsHaveData, ReportTypes
  <1>2. QED
    BY <1>1, IngestionInductive, PTL

\* A project shown as being indexed has a build that is not done.
THEOREM IndexingHasBuild == Spec => []IndexingExplained
  <1>1. IInv => IndexingExplained
    <2>1. SUFFICES ASSUME IInv, status = "indexing"
                   PROVE  \E i \in Ids : jobs[i].type = "index_build" /\ jobs[i].status # "done"
      BY DEF IndexingExplained
    <2>2. PICK i : StillToBuild(i)
      BY <2>1 DEF IInv, Unfinished
    <2>3. jobs[i].status # "done"
      BY <2>1, <2>2 DEF StillToBuild, IInv, Control, Owner
    <2>4. QED
      BY <2>2, <2>3 DEF StillToBuild
  <1>2. QED
    BY <1>1, IngestionInductive, PTL

\* The worktree that an index is built from does not move under it: whoever moves it
\* is at "checkout", a write job, and no other write job runs then.
THEOREM IndexNotDisturbed == Spec => IndexUndisturbed
  <1>1. ASSUME IInv, [Next]_vars, tree' # tree, NEW v \in Workers, at[v] = "build"
        PROVE  FALSE
    <2>1. Types /\ Control
      BY <1>1 DEF IInv
    <2>2. PICK w \in Workers : AddWorktree(w)
      <3>1. ~(UNCHANGED vars \/ Push \/ Receive \/ HookEnqueues)
        BY <1>1 DEF vars, gitVars, Push, Receive, HookEnqueues
      <3>2. \A w \in Workers : ~Ends(w) /\ \A i \in Ids : ~Takes(w, i)
        BY <1>1 DEF Ends, Outcome, Leave, Takes, gitVars
      <3>3. \A i \in Ids : ~Elapse(i)
        BY <1>1 DEF Elapse, gitVars
      <3>4. PICK w \in Workers : Handler(w)
        BY <1>1, <2>1, <3>1, <3>2, <3>3, Steps
      <3>5. AddWorktree(w)
        BY <1>1, <3>4 DEF Handler, Clone, Fetch, SetIndexing, SyncBranches, BuildIndex, Activate,
           FollowUps, ListCommits, AnalyseCommit, AnalysisEnds, Gather, WritePage, Scan,
           PeriodReport, ContributorReport, Reads, gitVars
      <3>6. QED
        BY <3>5
    <2>3. at[w] = "checkout"
      BY <2>2 DEF AddWorktree, From, Goes
    <2>4. \A u \in {v, w} : ~Idle(u) /\ Type(u) \in WRITE_TYPES
      <3>1. \A u \in {v, w} : ~Idle(u) /\ at[u] \in Places(Type(u)) /\ at[u] \in {"checkout", "build"}
        BY <1>1, <2>1, <2>3 DEF Control, Owner, InPlace
      <3>2. QED
        BY <3>1 DEF Places, WRITE_TYPES
    <2>5. v = w
      BY <2>1, <2>4 DEF Control, Exclusive
    <2>6. QED
      BY <1>1, <2>3, <2>5
  <1>2. IInv /\ [Next]_vars => [tree' # tree => \A w \in Workers : at[w] # "build"]_vars
    BY <1>1
  <1>3. QED
    BY <1>2, IngestionInductive, PTL DEF Spec, IndexUndisturbed
=============================================================================
