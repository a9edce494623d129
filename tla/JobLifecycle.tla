---------------------------- MODULE JobLifecycle ----------------------------
(***************************************************************************)
(* What the queue promises, without callers, threads, keys or priorities:  *)
(* the states one job goes through and the two rules that relate jobs to   *)
(* each other and to their past - write jobs of a project run one at a     *)
(* time, and a job is started at most MaxAttempts times per submission.    *)
(***************************************************************************)
EXTENDS Naturals, Sequences

CONSTANTS Projects, MaxAttempts

Phases == {"queued", "running", "done", "failed"}

Job == [project : Projects, write : BOOLEAN, phase : Phases, tries : Nat]

VARIABLE life

Jobs == DOMAIN life

Writing(p) == {i \in Jobs : /\ life[i].phase = "running"
                            /\ life[i].write
                            /\ life[i].project = p}

Init == life = <<>>

Submit(p, write) ==
    life' = Append(life, [project |-> p, write |-> write, phase |-> "queued", tries |-> 0])

Start(i) ==
    /\ life[i].phase = "queued"
    /\ life[i].tries < MaxAttempts
    /\ life[i].write => Writing(life[i].project) = {}
    /\ life' = [life EXCEPT ![i].phase = "running", ![i].tries = @ + 1]

Finish(i) ==
    /\ life[i].phase = "running"
    /\ \E result \in {"done", "failed"} : life' = [life EXCEPT ![i].phase = result]

Postpone(i) ==
    /\ life[i].phase = "running"
    /\ life[i].tries < MaxAttempts
    /\ life' = [life EXCEPT ![i].phase = "queued"]

Resubmit(i) ==
    /\ life[i].phase = "failed"
    /\ life' = [life EXCEPT ![i].phase = "queued", ![i].tries = 0]

Next ==
    \/ \E p \in Projects, write \in BOOLEAN : Submit(p, write)
    \/ \E i \in Jobs : Start(i) \/ Finish(i) \/ Postpone(i) \/ Resubmit(i)

Spec == Init /\ [][Next]_life
=============================================================================
