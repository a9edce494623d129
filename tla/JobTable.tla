------------------------------ MODULE JobTable ------------------------------
(***************************************************************************)
(* The jobs table of meta.sqlite and the statements queue/queue.py runs on *)
(* it.  The row with id i is jobs[i]: ids are AUTOINCREMENT and nothing    *)
(* deletes a row.  Timestamps are kept only as far as a query reads them:  *)
(* created_at orders the rows by id, and run_after is the Boolean "due".   *)
(***************************************************************************)
EXTENDS Naturals, Sequences

CONSTANTS
    Projects,      \* project ids
    Branches,      \* values of jobs.branch, the NULL of a project-wide job included
    MaxAttempts,   \* settings.queue.max_attempts
    RetryCommits   \* TRUE when retry_job's commit keeps its UPDATE (see RetryJob)

ASSUME TableAssumption ==
    /\ MaxAttempts \in Nat \ {0}
    /\ RetryCommits \in BOOLEAN

WRITE_TYPES == {"fetch", "index_build", "index_incremental"}

\* The keys of JOB_HANDLERS.
JobTypes == WRITE_TYPES \cup
    {"commit_analyze", "security_scan", "period_report", "contributor_report", "wiki_gen"}

Statuses == {"queued", "running", "done", "failed"}

\* The arguments of an enqueue call.
Request == [type : JobTypes, project : Projects, branch : Branches, priority : Nat]

Row == [type : JobTypes, project : Projects, branch : Branches, priority : Nat,
        status : Statuses, attempts : Nat, due : BOOLEAN]

VARIABLE jobs

Ids == DOMAIN jobs

\* What the debouncing SELECT of enqueue compares: not the payload.
Key(r) == <<r.project, r.type, r.branch>>

IsQueued(k) == \E i \in Ids : jobs[i].status = "queued" /\ Key(jobs[i]) = k

IsWrite(i) == jobs[i].type \in WRITE_TYPES

RunningWrite(p) == {i \in Ids : /\ jobs[i].status = "running"
                                /\ jobs[i].project = p
                                /\ IsWrite(i)}

(***************************************************************************)
(* One operator for each statement that changes the table.                 *)
(***************************************************************************)
NewRow(r) == [type |-> r.type, project |-> r.project, branch |-> r.branch,
              priority |-> r.priority, status |-> "queued", attempts |-> 0, due |-> TRUE]

InsertRow(r) == jobs' = Append(jobs, NewRow(r))

\* Mutant: the NOT EXISTS compares types instead of testing for a write type.
Claimable_sameType(i) ==
    /\ jobs[i].status = "queued"
    /\ jobs[i].due
    /\ ~(IsWrite(i) /\ \E j \in RunningWrite(jobs[i].project) : jobs[j].type = jobs[i].type)

\* The rows the inner SELECT of claim admits.
Claimable(i) ==
    /\ jobs[i].status = "queued"
    /\ jobs[i].due
    /\ ~(IsWrite(i) /\ RunningWrite(jobs[i].project) # {})

\* Mutant: created_at DESC.
Before_newestFirst(i, j) ==
    \/ jobs[i].priority > jobs[j].priority
    \/ jobs[i].priority = jobs[j].priority /\ i > j

\* ORDER BY priority DESC, created_at ASC; the index ends in the rowid.
Before(i, j) ==
    \/ jobs[i].priority > jobs[j].priority
    \/ jobs[i].priority = jobs[j].priority /\ i < j

IsNext(i) ==
    /\ Claimable(i)
    /\ \A j \in Ids \ {i} : Claimable(j) => Before(i, j)

\* BEGIN IMMEDIATE makes the selection and the update one step.
ClaimRow(i) ==
    /\ IsNext(i)
    /\ jobs' = [jobs EXCEPT ![i].status = "running", ![i].attempts = @ + 1]

\* UPDATE ... WHERE id=?: no condition on the status the row has.
CompleteRow(i) ==
    jobs' = [jobs EXCEPT ![i].status = "done"]

\* Mutant: off by one.
Exhausted_later(i) == jobs[i].attempts > MaxAttempts

Exhausted(i) == jobs[i].attempts >= MaxAttempts

\* Mutant: the status the projects table has, not the jobs table.
FailRow_otherStatus(i, permanent) ==
    jobs' = IF permanent \/ Exhausted(i)
            THEN [jobs EXCEPT ![i].status = "error"]
            ELSE [jobs EXCEPT ![i].status = "queued", ![i].due = FALSE]

\* Mutant: the requeueing UPDATE does not set the status.
FailRow_noStatus(i, permanent) ==
    jobs' = IF permanent \/ Exhausted(i)
            THEN [jobs EXCEPT ![i].status = "failed"]
            ELSE [jobs EXCEPT ![i].due = FALSE]

FailRow(i, permanent) ==
    jobs' = IF permanent \/ Exhausted(i)
            THEN [jobs EXCEPT ![i].status = "failed"]
            ELSE [jobs EXCEPT ![i].status = "queued", ![i].due = FALSE]

\* run_after, pushed into the future by FailRow, is reached.
BackoffElapses(i) ==
    /\ jobs[i].status = "queued"
    /\ ~jobs[i].due
    /\ jobs' = [jobs EXCEPT ![i].due = TRUE]

(***************************************************************************)
(* retry_job commits before it fetches the row of RETURNING.  CPython 3.11 *)
(* (backend/Dockerfile) then has the UPDATE still pending and SQLite       *)
(* refuses the COMMIT ("SQL statements in progress"): the close that       *)
(* follows rolls the UPDATE back and the caller gets the exception.        *)
(***************************************************************************)
RetryRow(i) ==
    jobs' = IF RetryCommits
            THEN [jobs EXCEPT ![i].status = "queued", ![i].attempts = 0, ![i].due = TRUE]
            ELSE jobs
=============================================================================
