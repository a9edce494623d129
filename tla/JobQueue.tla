------------------------------ MODULE JobQueue ------------------------------
(***************************************************************************)
(* The task queue: callers that enqueue (API requests, the webhook, the    *)
(* handlers, the CLI) and worker threads that claim a row, run its handler *)
(* and record the outcome.  What a handler does is not in this module.     *)
(***************************************************************************)
EXTENDS JobTable, FiniteSets

CONSTANTS
    Callers,       \* threads that may be inside enqueue
    Workers,       \* worker threads, over all worker processes
    Requests,      \* the enqueue calls that are made
    MaxJobs,       \* bound: rows a behaviour may insert
    Crashes,       \* whether worker threads may die
    None           \* no call in progress

ASSUME QueueAssumption ==
    /\ Requests \subseteq Request
    /\ None \notin Request
    /\ MaxJobs \in Nat
    /\ Crashes \in BOOLEAN

VARIABLES
    call,      \* call[c]: the request whose SELECT found no queued duplicate
    exec,      \* exec[w]: the job thread w executes, 0 when it polls
    waiting,   \* history: keys requested since a job of theirs was last claimed
    refused    \* history: failed jobs whose retry was answered with an error

vars == <<jobs, call, exec, waiting, refused>>

Idle(w) == exec[w] = 0

Init ==
    /\ jobs = <<>>
    /\ call = [c \in Callers |-> None]
    /\ exec = [w \in Workers |-> 0]
    /\ waiting = {}
    /\ refused = {}

(***************************************************************************)
(* enqueue: a SELECT outside any transaction, then an INSERT of its own.   *)
(***************************************************************************)
\* Mutant: debounces against running jobs too.
EnqueueSkips_running(c, r) ==
    /\ call[c] = None
    /\ \E i \in Ids : Key(jobs[i]) = Key(r) /\ jobs[i].status \in {"queued", "running"}
    /\ waiting' = waiting \cup {Key(r)}
    /\ UNCHANGED <<jobs, call, exec, refused>>

EnqueueSkips(c, r) ==
    /\ call[c] = None
    /\ IsQueued(Key(r))
    /\ waiting' = waiting \cup {Key(r)}
    /\ UNCHANGED <<jobs, call, exec, refused>>

Inserting == {c \in Callers : call[c] # None}

\* Mutant: no SELECT before the INSERT.
EnqueueSelects_always(c, r) ==
    /\ Len(jobs) + Cardinality(Inserting) < MaxJobs
    /\ call[c] = None
    /\ call' = [call EXCEPT ![c] = r]
    /\ waiting' = waiting \cup {Key(r)}
    /\ UNCHANGED <<jobs, exec, refused>>

EnqueueSelects(c, r) ==
    /\ Len(jobs) + Cardinality(Inserting) < MaxJobs
    /\ call[c] = None
    /\ ~IsQueued(Key(r))
    /\ call' = [call EXCEPT ![c] = r]
    /\ waiting' = waiting \cup {Key(r)}
    /\ UNCHANGED <<jobs, exec, refused>>

EnqueueInserts(c) ==
    /\ call[c] # None
    /\ InsertRow(call[c])
    /\ call' = [call EXCEPT ![c] = None]
    /\ UNCHANGED <<exec, waiting, refused>>

(***************************************************************************)
(* The worker loop.  A handler reads what it works on after the claim, so  *)
(* the claim is the point that answers the requests made before it.        *)
(***************************************************************************)
Claim(w) ==
    /\ Idle(w)
    /\ \E i \in Ids :
         /\ ClaimRow(i)
         /\ exec' = [exec EXCEPT ![w] = i]
         /\ waiting' = waiting \ {Key(jobs[i])}
    /\ UNCHANGED <<call, refused>>

Release(w) ==
    /\ exec' = [exec EXCEPT ![w] = 0]
    /\ UNCHANGED <<call, waiting, refused>>

\* produced # 0, or a handler without a result
Complete(w) ==
    /\ ~Idle(w)
    /\ CompleteRow(exec[w])
    /\ Release(w)

\* produced = 0: permanent.  An exception, or an unknown type: not.
Fail(w, permanent) ==
    /\ ~Idle(w)
    /\ FailRow(exec[w], permanent)
    /\ Release(w)

(***************************************************************************)
(* Threads are gone (their process was killed, or queue.fail itself raised *)
(* outside the try of _worker_loop) and nothing resets the rows they had.  *)
(* Others, of a restarted process, may take their places.                  *)
(***************************************************************************)
\* Mutant: the start of a process requeues every running row, whoever runs it.
Die_requeuesAll(dead) ==
    /\ Crashes
    /\ exec' = [w \in Workers |-> IF w \in dead THEN 0 ELSE exec[w]]
    /\ jobs' = [i \in Ids |-> IF jobs[i].status = "running" /\ ~Exhausted(i)
                              THEN [jobs[i] EXCEPT !.status = "queued"]
                              ELSE jobs[i]]
    /\ UNCHANGED <<call, waiting, refused>>

Die(dead) ==
    /\ Crashes
    /\ exec' = [w \in Workers |-> IF w \in dead THEN 0 ELSE exec[w]]
    /\ UNCHANGED <<jobs, call, waiting, refused>>

Elapse(i) == BackoffElapses(i) /\ UNCHANGED <<call, exec, waiting, refused>>

\* Mutant: the condition on the status is missing.
Retry_any(i) ==
    /\ RetryRow(i)
    /\ refused' = refused
    /\ UNCHANGED <<call, exec, waiting>>

\* Mutant: a finished job can be run again as well.
Retry_done(i) ==
    /\ jobs[i].status \in {"done", "failed"}
    /\ RetryRow(i)
    /\ refused' = refused
    /\ UNCHANGED <<call, exec, waiting>>

\* POST /api/jobs/{id}/retry; of a job that has not failed it changes nothing.
Retry(i) ==
    /\ jobs[i].status = "failed"
    /\ RetryRow(i)
    /\ refused' = IF RetryCommits THEN refused ELSE refused \cup {i}
    /\ UNCHANGED <<call, exec, waiting>>

Next ==
    \/ \E c \in Callers, r \in Requests : EnqueueSkips(c, r) \/ EnqueueSelects(c, r)
    \/ \E c \in Callers : EnqueueInserts(c)
    \/ \E w \in Workers : Claim(w) \/ Complete(w)
    \/ \E w \in Workers, permanent \in BOOLEAN : Fail(w, permanent)
    \/ \E dead \in SUBSET Workers : Die(dead)
    \/ \E i \in Ids : Elapse(i) \/ Retry(i)

Spec == Init /\ [][Next]_vars
-----------------------------------------------------------------------------
(***************************************************************************)
(* Properties.                                                             *)
(***************************************************************************)
\* Every variable holds a value of its type.
TypeOK ==
    /\ jobs \in Seq(Row)
    /\ call \in [Callers -> Requests \cup {None}]
    /\ exec \in [Workers -> Nat]
    /\ waiting \subseteq {Key(r) : r \in Requests}
    /\ refused \subseteq Ids

\* No two running write jobs of one project (queue.py:53, "write tasks are
\* serial per project"): claim decides it from the rows, whoever enqueued them.
WriteSerial ==
    \A i, j \in Ids :
        /\ i # j
        /\ jobs[i].status = "running" /\ IsWrite(i)
        /\ jobs[j].status = "running" /\ IsWrite(j)
        => jobs[i].project # jobs[j].project

\* A row says "running" for exactly the thread that runs it: a thread's job is
\* running, and no two threads have the same one.  A row a dead thread left
\* running is nobody's.
OwnsRunning ==
    /\ \A w \in Workers : ~Idle(w) => exec[w] \in Ids /\ jobs[exec[w]].status = "running"
    /\ \A v, w \in Workers : v # w /\ ~Idle(v) => exec[v] # exec[w]

\* What serialising is for: two threads are never at once inside write handlers
\* of the same project, where they would share a bare repository and worktrees,
\* also when threads die and are replaced.
ExclusiveExecution ==
    \A v, w \in Workers :
        /\ v # w
        /\ ~Idle(v) /\ IsWrite(exec[v])
        /\ ~Idle(w) /\ IsWrite(exec[w])
        => jobs[exec[v]].project # jobs[exec[w]].project

\* A job has an attempt left whenever it can be claimed, and none beyond
\* max_attempts is made per submission, across retries by fail and by the user.
AttemptsBounded ==
    \A i \in Ids :
        /\ jobs[i].attempts <= MaxAttempts
        /\ jobs[i].status = "queued" => jobs[i].attempts < MaxAttempts

\* Debouncing loses no request: what was asked for since the last claim of its
\* key has a queued job, or a caller about to insert one, also when the call was
\* skipped and whatever happened to the job that made it be skipped.
RequestsCovered ==
    \A k \in waiting :
        IsQueued(k) \/ \E c \in Inserting : Key(call[c]) = k

\* Without deaths of threads no row is running that no thread executes.
NoOrphan ==
    \A i \in Ids : jobs[i].status = "running" => \E w \in Workers : exec[w] = i

\* The lifecycle of jobs (JobLifecycle) is what this queue implements.
View(r) == [project |-> r.project, write |-> r.type \in WRITE_TYPES,
            phase |-> r.status, tries |-> r.attempts]

LifeOf == [i \in Ids |-> View(jobs[i])]

Life == INSTANCE JobLifecycle WITH life <- LifeOf

Lifecycle == Life!Spec

\* A failed job can be retried (JobStatusEmpty.tsx:6): no retry is refused.
RetryAccepted == refused = {}
=============================================================================
