---------------------------- MODULE MCWorkerPool ----------------------------
(* Two processes, the first with two threads, so that an LLM semaphore is    *)
(* contended; LLM, write and plain jobs of one project.                      *)
EXTENDS WorkerPool, TLC

CONSTANTS p1, main, c1, w1, w2, w3, proc1, proc2

MCProjects == {p1}
MCBranches == {main}
MCCallers == {c1}
MCWorkers == {w1, w2, w3}
MCProcesses == {proc1, proc2}
MCProcessOf == w1 :> proc1 @@ w2 :> proc1 @@ w3 :> proc2

Req(t, n) == [type |-> t, project |-> p1, branch |-> main, priority |-> n]

MCRequests == {Req("commit_analyze", 10), Req("wiki_gen", 1), Req("index_incremental", 10)}

Pair == {w1, w2}
OneProcess == {proc1}
PairOf == w1 :> proc1 @@ w2 :> proc1

Symmetry == Permutations(Pair)
=============================================================================
