----------------------------- MODULE MCPoolLive -----------------------------
(***************************************************************************)
(* What the pool and the queue owe a job in the end.  A behaviour runs the *)
(* pool over a few jobs, or the queue under requests that never stop: each *)
(* tried once, or requeued by failures.                                    *)
(***************************************************************************)
EXTENDS MCWorkerPool

CONSTANT c2

VARIABLE part

TwoCallers == {c1, c2}

\* Two requests of the webhook's priority, of which the fetch needs the write lock, and
\* a build of the backfill's priority, which needs it too.
Urgent == {Req("fetch", 10), Req("commit_analyze", 10)}
Backfill == {Req("index_build", 1)}

\* 13 and 7 rows are more than debouncing lets be queued (QueueShort): no request is cut off.
Arrivals == INSTANCE ClaimOrder
    WITH Requests <- Urgent \cup Backfill, MaxAttempts <- 1, MaxJobs <- 13
Retries == INSTANCE ClaimOrder
    WITH Callers <- MCCallers, Requests <- Urgent, MaxJobs <- 7

LiveInit == part \in {"pool", "arrivals", "retries"} /\ PoolInit

Pool == part = "pool" /\ UNCHANGED part
Queue == part # "pool" /\ UNCHANGED <<poolVars, part>>

LiveNext ==
    \/ Pool /\ PoolNext
    \/ Queue /\ part = "arrivals" /\ Arrivals!OrderNext
    \/ Queue /\ part = "retries" /\ Retries!OrderNext

\* PoolFairness in the pool.  In the queue callers finish their insert, threads poll,
\* handlers end and backoffs elapse.
LiveFairness ==
    /\ \A c \in Callers :
         WF_<<allVars, part>>(EnqueueInserts(c) /\ UNCHANGED <<poolVars, part>>)
    /\ \A i \in 1..13 :
         WF_<<allVars, part>>(i \in Ids /\ Elapse(i) /\ UNCHANGED <<poolVars, part>>)
    /\ \A w \in Workers :
         /\ WF_<<allVars, part>>(Pool /\ Thread(w))
         /\ WF_<<allVars, part>>(Queue /\ Claim(w))
         /\ WF_<<allVars, part>>(part = "arrivals" /\ Queue /\ Arrivals!HandlerEnds(w))
         /\ WF_<<allVars, part>>(part = "retries" /\ Queue /\ Retries!HandlerEnds(w))
    /\ \A p \in Processes : WF_<<allVars, part>>(Pool /\ ProcessStarts(p))

LiveSpec == LiveInit /\ [][LiveNext]_<<allVars, part>> /\ LiveFairness
-----------------------------------------------------------------------------
\* Every job of the pool is settled in the end (worker.py:76): PoolSettles.
JobsSettle == part = "pool" => PoolSettles

\* Debouncing keeps the queue short under unending requests (queue.py:31): QueueShort.
QueueShort ==
    /\ part = "arrivals" => Arrivals!QueueShort
    /\ part = "retries" => Retries!QueueShort

\* No request is passed over for ever by others of its priority (queue.py:69): ServedInTurn.
ServedInTurn ==
    /\ part = "arrivals" => Arrivals!ServedInTurn
    /\ part = "retries" => Retries!ServedInTurn
=============================================================================
