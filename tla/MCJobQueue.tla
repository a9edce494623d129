----------------------------- MODULE MCJobQueue -----------------------------
(* A small instance of JobQueue: two projects, so that the write lock of one *)
(* can be told from the other's; a write and a read type, two priorities.    *)
EXTENDS JobQueue, TLC

CONSTANTS p1, p2, main, NoBranch, c1, c2, w1, w2

MCProjects == {p1, p2}
MCBranches == {main, NoBranch}
MCCallers == {c1, c2}
MCWorkers == {w1, w2}

Req(t, p, b, n) == [type |-> t, project |-> p, branch |-> b, priority |-> n]

Build(p) == Req("index_build", p, NoBranch, 1)
Incremental(p) == Req("index_incremental", p, main, 10)
Scan(p) == Req("security_scan", p, main, 5)

MCRequests == {Build(p1), Incremental(p1), Scan(p1), Incremental(p2)}
LiveRequests == {Build(p1), Incremental(p1), Scan(p1)}

Symmetry == Permutations(MCCallers) \cup Permutations(MCWorkers)
=============================================================================
