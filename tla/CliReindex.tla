----------------------------- MODULE CliReindex -----------------------------
(***************************************************************************)
(* cmd_reindex of cli.py beside the queue: it enqueues an index_build of a *)
(* project and, without claiming it, runs the handler in the foreground;   *)
(* at the end it writes the outcome over whatever the row then says.       *)
(***************************************************************************)
EXTENDS JobQueue

CONSTANT CliProject

VARIABLES
    cli,      \* "off", "selected" (inside enqueue) or "building"
    cliJob    \* the id enqueue returned, 0 for a temporary job

cliVars == <<cli, cliJob>>
reindexVars == <<vars, cliVars>>

CliRequest(b) == [type |-> "index_build", project |-> CliProject, branch |-> b, priority |-> 5]

ReindexInit ==
    /\ Init
    /\ cli = "off"
    /\ cliJob = 0

\* enqueue's SELECT; when a build is queued already the CLI goes on without a job.
CliEnqueues(b) ==
    /\ Len(jobs) + Cardinality(Inserting) < MaxJobs
    /\ cli = "off"
    /\ cli' = IF IsQueued(Key(CliRequest(b))) THEN "building" ELSE "selected"
    /\ cliJob' = 0
    /\ UNCHANGED vars

CliInserts(b) ==
    /\ Len(jobs) + Cardinality(Inserting) < MaxJobs
    /\ cli = "selected"
    /\ InsertRow(CliRequest(b))
    /\ cli' = "building"
    /\ cliJob' = Len(jobs) + 1
    /\ UNCHANGED <<call, exec, waiting, refused>>

\* The handler returns (also with produced = 0) or raises.
CliEnds(status) ==
    /\ cli = "building"
    /\ jobs' = IF cliJob = 0 THEN jobs ELSE [jobs EXCEPT ![cliJob].status = status]
    /\ cli' = "off"
    /\ cliJob' = 0
    /\ UNCHANGED <<call, exec, waiting, refused>>

\* The branch of a project-wide job is NULL.
ReindexNext(null) ==
    \/ Next /\ UNCHANGED cliVars
    \/ CliEnqueues(null)
    \/ CliInserts(null)
    \/ \E status \in {"done", "failed"} : CliEnds(status)
-----------------------------------------------------------------------------
\* "write tasks are serial per project" (queue.py:3): while the CLI builds a
\* project no worker is inside a write handler of it.
CliExclusive ==
    cli = "building" =>
        \A w \in Workers :
            ~Idle(w) /\ IsWrite(exec[w]) => jobs[exec[w]].project # CliProject
=============================================================================
