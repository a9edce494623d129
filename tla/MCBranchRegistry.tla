-------------------------- MODULE MCBranchRegistry --------------------------
(* Two branches, the workers (of which one has the project's write lock) and *)
(* one API thread: two syncs, or a build and a sync, may be under way.       *)
EXTENDS BranchRegistry

CONSTANTS main, dev, w1, c1

MCBranches == {main, dev}
MCWorkers == {w1}
MCCallers == {c1}
=============================================================================
