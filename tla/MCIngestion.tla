---------------------------- MODULE MCIngestion ----------------------------
(* A project, its default branch and two worker threads: from the project's  *)
(* creation, and from a state in which its first jobs are done and a user    *)
(* has just asked for an index_incremental, which a push may find queued, at *)
(* any step of its handler, or done.                                         *)
EXTENDS Ingestion

CONSTANTS p1, main, none, w1, w2

MCProjects == {p1}
MCBranches == {main, none}
MCWorkers == {w1, w2}

MANUAL == 5

FirstJobs ==
    <<Req("index_build", NoBranch, BACKFILL)>> \o PostIndex \o PostAnalysis

DoneRow(r) == [NewRow(r) EXCEPT !.status = "done", !.attempts = 1]

BusyInit ==
    /\ jobs = [i \in DOMAIN FirstJobs |-> DoneRow(FirstJobs[i])]
                  \o <<NewRow(Req("index_incremental", Branch, MANUAL))>>
    /\ exec = [w \in Workers |-> 0]
    /\ at = [w \in Workers |-> "idle"]
    /\ read = [w \in Workers |-> {}]
    /\ remote = 1 /\ local = 1 /\ origin = 1 /\ tree = 1 /\ index = 1
    /\ listed = TRUE
    /\ status = "active"
    /\ analysed = {1}
    /\ page = [body |-> {1}, seen |-> {1}, exists |-> TRUE]
    /\ hook = [deliveries |-> 0, todo |-> <<>>]
    /\ asked = [t \in {"fetch", "index_incremental", "commit_analyze"} |-> 0]
    /\ raised = 0 /\ gaveUp = 0 /\ unnoticed = {} /\ unreset = 0

AnySpec == (Init \/ BusyInit) /\ [][Next]_vars
FairAnySpec == AnySpec /\ Fairness

Symmetry == Permutations(MCWorkers)
=============================================================================
