---------------------------- MODULE MCCliReindex ----------------------------
(* The CLI and two workers on one project. *)
EXTENDS CliReindex

CONSTANTS p1, main, NoBranch, c1, w1, w2

MCProjects == {p1}
MCBranches == {main, NoBranch}
MCCallers == {c1}
MCWorkers == {w1, w2}
MCRequests ==
    {[type |-> "index_incremental", project |-> p1, branch |-> main, priority |-> 10]}

MCSpec == ReindexInit /\ [][ReindexNext(NoBranch)]_reindexVars
=============================================================================
