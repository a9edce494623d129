----------------------------- MODULE ClaimOrder -----------------------------
(***************************************************************************)
(* Who is served while requests never stop coming: the queue of JobQueue   *)
(* without an end to its arrivals.  A done or failed row is dropped when   *)
(* its handler ends, as no statement of enqueue or claim reads it (rows    *)
(* that users retry, and rows of threads that died, are JobQueue's).       *)
(* Pending rows are bounded by the debouncing alone, not by MaxJobs.       *)
(***************************************************************************)
EXTENDS JobQueue

LOCAL INSTANCE SequencesExt

\* The row of w is settled; the ids of the rows after it move down with them.
Settle(w) ==
    LET i == exec[w] IN
    /\ ~Idle(w)
    /\ jobs' = RemoveAt(jobs, i)
    /\ exec' = [v \in Workers |-> IF v = w THEN 0
                                  ELSE IF exec[v] > i THEN exec[v] - 1 ELSE exec[v]]
    /\ UNCHANGED <<call, waiting, refused>>

\* A result, produced = 0 or an exception: only the last, with attempts left, keeps the row.
HandlerEnds(w) ==
    \/ Settle(w)
    \/ ~Idle(w) /\ ~Exhausted(exec[w]) /\ Fail(w, FALSE)

OrderNext ==
    \/ \E c \in Callers, r \in Requests : EnqueueSkips(c, r) \/ EnqueueSelects(c, r)
    \/ \E c \in Callers : EnqueueInserts(c)
    \/ \E w \in Workers : Claim(w) \/ HandlerEnds(w)
    \/ \E i \in Ids : Elapse(i)
-----------------------------------------------------------------------------
\* Debouncing keeps the queue short however many requests there are: under a key are at
\* most the rows that threads had claimed when they all failed, and one row per caller.
QueueShort ==
    \A r \in Requests :
        Cardinality({i \in Ids : Key(jobs[i]) = Key(r)})
            <= Cardinality(Callers) + Cardinality(Workers)

Outranks(q, r) == q.priority > r.priority

\* No request is passed over for ever by others of its priority, although those keep
\* coming, fail, are requeued under their old ids and hold the write lock.  Requests of
\* a higher priority do pass it over for ever if they never cease (queue.py:69), so
\* only those of the highest priority are served whatever else arrives.
ServedInTurn ==
    \A r \in Requests :
        <>[](\A q \in Requests : Outranks(q, r) => Key(q) \notin waiting)
            => (Key(r) \in waiting ~> Key(r) \notin waiting)
=============================================================================
