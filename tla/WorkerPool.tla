----------------------------- MODULE WorkerPool -----------------------------
(***************************************************************************)
(* The worker processes of queue/worker.py: threads that poll the queue,   *)
(* one LLM semaphore per process, shutdown by signal, kill and restart.    *)
(* Every step changes the table through JobQueue or not at all.            *)
(***************************************************************************)
EXTENDS JobQueue

CONSTANTS
    Processes,     \* worker processes (docker-compose: 2 replicas)
    ProcessOf,     \* the process of each thread
    LlmWorkers     \* settings.queue.llm_workers

ASSUME PoolAssumption ==
    /\ ProcessOf \in [Workers -> Processes]
    /\ LlmWorkers \in Nat \ {0}
    /\ IsFiniteSet(Workers)

LLM_JOB_TYPES == {"commit_analyze", "wiki_gen"}

VARIABLES
    pc,      \* where each thread is in _worker_loop and _process
    holds,   \* whether a thread has acquired _LLM_SEM
    sem,     \* value of _LLM_SEM
    stop     \* _stop of the process, "down" when the process is not running

poolVars == <<pc, holds, sem, stop>>
allVars == <<vars, poolVars>>

ThreadsOf(p) == {w \in Workers : ProcessOf[w] = p}

PoolInit ==
    /\ Init
    /\ pc = [w \in Workers |-> "loop"]
    /\ holds = [w \in Workers |-> FALSE]
    /\ sem = [p \in Processes |-> LlmWorkers]
    /\ stop = [p \in Processes |-> "unset"]

Goto(w, from, to) == pc[w] = from /\ pc' = [pc EXCEPT ![w] = to]

(***************************************************************************)
(* _worker_loop: the stop flag is tested, then the queue is asked.         *)
(***************************************************************************)
TestStop(w) ==
    /\ Goto(w, "loop", IF stop[ProcessOf[w]] = "unset" THEN "claim" ELSE "stopped")
    /\ UNCHANGED <<vars, holds, sem, stop>>

Take(w) ==
    /\ Goto(w, "claim", "dispatch")
    /\ Claim(w)
    /\ UNCHANGED <<holds, sem, stop>>

\* No row, or claim raised (logged and ignored): sleep and go round.
TakeNothing(w) ==
    /\ Goto(w, "claim", "loop")
    /\ Crashes \/ \A i \in Ids : ~Claimable(i)
    /\ UNCHANGED <<vars, holds, sem, stop>>

(***************************************************************************)
(* _process: the row is already running when the semaphore is acquired.    *)
(***************************************************************************)
IsLlm(w) == jobs[exec[w]].type \in LLM_JOB_TYPES

\* Mutant: the semaphore is for commit_analyze only.
Dispatch_commitsOnly(w) ==
    /\ Goto(w, "dispatch", "handler")
    /\ IF jobs[exec[w]].type = "commit_analyze"
       THEN LET p == ProcessOf[w] IN
            /\ sem[p] > 0
            /\ sem' = [sem EXCEPT ![p] = @ - 1]
            /\ holds' = [holds EXCEPT ![w] = TRUE]
       ELSE UNCHANGED <<sem, holds>>
    /\ UNCHANGED <<vars, stop>>

Dispatch(w) ==
    /\ Goto(w, "dispatch", "handler")
    /\ IF IsLlm(w)
       THEN LET p == ProcessOf[w] IN
            /\ sem[p] > 0
            /\ sem' = [sem EXCEPT ![p] = @ - 1]
            /\ holds' = [holds EXCEPT ![w] = TRUE]
       ELSE UNCHANGED <<sem, holds>>
    /\ UNCHANGED <<vars, stop>>

\* The handler returns a result, returns one with produced = 0, or raises.
HandlerEnds(w, next) ==
    /\ Goto(w, "handler", next)
    /\ UNCHANGED <<vars, holds, sem, stop>>

\* queue.complete, and queue.fail(permanent=True), are inside the try of _process:
\* an exception of theirs (a locked or full database) is handled as the handler's.
RecordDone(w) ==
    /\ Goto(w, "complete", "finally")
    /\ Complete(w)
    /\ UNCHANGED <<holds, sem, stop>>

RecordEmpty(w) ==
    /\ Goto(w, "empty", "finally")
    /\ Fail(w, TRUE)
    /\ UNCHANGED <<holds, sem, stop>>

\* Mutant: the exception of complete is swallowed.
RecordRaises_ignored(w) ==
    /\ Goto(w, "complete", "finally")
    /\ UNCHANGED <<vars, holds, sem, stop>>

RecordRaises(w) ==
    /\ \/ Goto(w, "complete", "except")
       \/ Goto(w, "empty", "except")
    /\ UNCHANGED <<vars, holds, sem, stop>>

RecordFailure(w) ==
    /\ Goto(w, "except", "finally")
    /\ Fail(w, FALSE)
    /\ UNCHANGED <<holds, sem, stop>>

\* queue.fail raises in the except clause: nothing outside catches it.
FailureRaises(w) ==
    /\ Goto(w, "except", "unwind")
    /\ Die({w})
    /\ UNCHANGED <<holds, sem, stop>>

\* Mutant: release without asking whether the semaphore was acquired.
Finally_always(w) ==
    /\ Goto(w, "finally", "loop") \/ Goto(w, "unwind", "dead")
    /\ sem' = [sem EXCEPT ![ProcessOf[w]] = @ + 1]
    /\ holds' = [holds EXCEPT ![w] = FALSE]
    /\ UNCHANGED <<vars, stop>>

\* Mutant: release after the try instead of in its finally.
Finally_normalOnly(w) ==
    /\ Goto(w, "finally", "loop") \/ Goto(w, "unwind", "dead")
    /\ sem' = IF holds[w] /\ pc[w] = "finally" THEN [sem EXCEPT ![ProcessOf[w]] = @ + 1] ELSE sem
    /\ holds' = [holds EXCEPT ![w] = FALSE]
    /\ UNCHANGED <<vars, stop>>

\* Mutant: no release.
Finally_never(w) ==
    /\ Goto(w, "finally", "loop") \/ Goto(w, "unwind", "dead")
    /\ UNCHANGED <<vars, holds, sem, stop>>

\* finally: also on the way out of a dying thread, whose place nobody takes.
Finally(w) ==
    /\ Goto(w, "finally", "loop") \/ Goto(w, "unwind", "dead")
    /\ sem' = IF holds[w] THEN [sem EXCEPT ![ProcessOf[w]] = @ + 1] ELSE sem
    /\ holds' = [holds EXCEPT ![w] = FALSE]
    /\ UNCHANGED <<vars, stop>>

(***************************************************************************)
(* run_workers: the signal handlers set the flag; after joining each       *)
(* thread for 5 seconds the main thread returns, and its daemon threads    *)
(* end wherever they are, as they do when the process is killed.           *)
(***************************************************************************)
Signal(p) ==
    /\ Crashes
    /\ stop[p] = "unset"
    /\ stop' = [stop EXCEPT ![p] = "set"]
    /\ UNCHANGED <<vars, pc, holds, sem>>

ProcessEnds(p) ==
    /\ stop[p] # "down"
    /\ stop' = [stop EXCEPT ![p] = "down"]
    /\ Die(ThreadsOf(p))
    /\ pc' = [w \in Workers |-> IF ProcessOf[w] = p THEN "dead" ELSE pc[w]]
    /\ holds' = [w \in Workers |-> IF ProcessOf[w] = p THEN FALSE ELSE holds[w]]
    /\ UNCHANGED sem

\* Mutant: a starting process requeues every running row.
ProcessStarts_requeues(p) ==
    /\ stop[p] = "down"
    /\ stop' = [stop EXCEPT ![p] = "unset"]
    /\ pc' = [w \in Workers |-> IF ProcessOf[w] = p THEN "loop" ELSE pc[w]]
    /\ sem' = [sem EXCEPT ![p] = LlmWorkers]
    /\ jobs' = [i \in Ids |-> IF jobs[i].status = "running"
                              THEN [jobs[i] EXCEPT !.status = "queued"] ELSE jobs[i]]
    /\ UNCHANGED <<call, exec, waiting, refused, holds>>

\* init_db and recover_locks do not look at the jobs table.
ProcessStarts(p) ==
    /\ stop[p] = "down"
    /\ stop' = [stop EXCEPT ![p] = "unset"]
    /\ pc' = [w \in Workers |-> IF ProcessOf[w] = p THEN "loop" ELSE pc[w]]
    /\ sem' = [sem EXCEPT ![p] = LlmWorkers]
    /\ UNCHANGED <<vars, holds>>

\* Callers of enqueue, users and the clock.
Environment ==
    /\ \/ \E c \in Callers, r \in Requests : EnqueueSkips(c, r) \/ EnqueueSelects(c, r)
       \/ \E c \in Callers : EnqueueInserts(c)
       \/ \E i \in Ids : Elapse(i) \/ Retry(i)
    /\ UNCHANGED poolVars

Thread(w) ==
    \/ TestStop(w) \/ Take(w) \/ TakeNothing(w)
    \/ Dispatch(w)
    \/ \E next \in {"complete", "empty", "except"} : HandlerEnds(w, next)
    \/ RecordDone(w) \/ RecordEmpty(w) \/ RecordRaises(w)
    \/ RecordFailure(w) \/ FailureRaises(w)
    \/ Finally(w)

PoolNext ==
    \/ Environment
    \/ \E w \in Workers : Thread(w)
    \/ \E p \in Processes : Signal(p) \/ ProcessEnds(p) \/ ProcessStarts(p)

PoolSpec == PoolInit /\ [][PoolNext]_allVars

(***************************************************************************)
(* Fairness.  Threads poll until stopped, and a handler ends: its LLM and  *)
(* scanner calls have timeouts; its git commands have none (git/repo.py:60) *)
(* and are assumed to return.  Callers finish their insert, backoffs       *)
(* elapse, and the operator starts a worker process that is down: the      *)
(* compose file has no restart policy, so this is an assumption, which     *)
(* only CrashHealed, refuted in spite of it, rests on.  Nothing is assumed *)
(* of users or of callers that have not begun.                             *)
(***************************************************************************)
PoolFairness ==
    /\ \A c \in Callers : WF_allVars(EnqueueInserts(c) /\ UNCHANGED poolVars)
    /\ \A w \in Workers : WF_allVars(Thread(w))
    /\ \A i \in 1..MaxJobs : WF_allVars(i \in Ids /\ Elapse(i) /\ UNCHANGED poolVars)
    /\ \A p \in Processes : WF_allVars(ProcessStarts(p))

FairPoolSpec == PoolSpec /\ PoolFairness
-----------------------------------------------------------------------------
PCs == {"loop", "claim", "dispatch", "handler", "complete", "empty", "except",
        "finally", "unwind", "stopped", "dead"}

\* Every variable holds a value of its type.
PoolTypeOK ==
    /\ TypeOK
    /\ pc \in [Workers -> PCs]
    /\ holds \in [Workers -> BOOLEAN]
    /\ sem \in [Processes -> 0..LlmWorkers]
    /\ stop \in [Processes -> {"unset", "set", "down"}]

\* No permit of the LLM semaphore is lost or invented, on any way out of
\* _process (a thread that dies included): what threads hold and what is left
\* add up to llm_workers in every running process.
SemaphoreConserved ==
    \A p \in Processes :
        stop[p] # "down" =>
            sem[p] + Cardinality({w \in ThreadsOf(p) : holds[w]}) = LlmWorkers

\* At most llm_workers threads of a process run LLM handlers ("LLM tasks are
\* rate-limited by a semaphore", worker.py:3).
LlmLimited ==
    \A p \in Processes :
        Cardinality({w \in ThreadsOf(p) : pc[w] = "handler" /\ IsLlm(w)}) <= LlmWorkers

\* A row claimed by a living thread stays running until that thread records an
\* outcome, and a thread between jobs has none: no path through _process leaves
\* its job unrecorded except the thread's death.
ThreadsAccount ==
    \A w \in Workers :
        IF pc[w] \in {"dispatch", "handler", "complete", "empty", "except"}
        THEN ~Idle(w) /\ jobs[exec[w]].status = "running"
        ELSE Idle(w)

\* Without deaths, every queued job is eventually done or failed, although LLM
\* jobs hold a thread while they wait for the semaphore.
PoolRetriesStop == <>[][\A i \in Ids : ~Retry(i)]_allVars

PoolSettles ==
    PoolRetriesStop =>
        \A i \in 1..MaxJobs :
            (i \in Ids /\ jobs[i].status = "queued")
                ~> (i \in Ids /\ jobs[i].status \in {"done", "failed"})

\* "crash self-healing" at start (session.py:98): once processes are no longer
\* killed, and all are running, no job stays running for ever.
DeathsStop ==
    /\ <>[][stop' = stop]_allVars
    /\ [](\A w \in Workers : pc[w] # "unwind")

CrashHealed ==
    PoolRetriesStop /\ DeathsStop =>
        \A i \in 1..MaxJobs :
            (i \in Ids /\ jobs[i].status = "running")
                ~> (i \in Ids /\ jobs[i].status # "running")
=============================================================================
