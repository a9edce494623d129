------------------------- MODULE WorkerPool_proofs -------------------------
(* Theorems about WorkerPool, for every value of its constants. *)
EXTENDS WorkerPool, JobQueue_proofs, FiniteSetTheorems

(***************************************************************************)
(* A step of the pool changes the table as a step of JobQueue does, or not *)
(* at all, so that the invariants of the queue are invariants of the pool. *)
(***************************************************************************)
LEMMA StepsOfQueue == [PoolNext]_allVars => [Next]_vars
  <1> SUFFICES ASSUME [PoolNext]_allVars
               PROVE  [Next]_vars
    OBVIOUS
  <1>1. CASE Environment
    BY <1>1 DEF Environment, Next
  <1>2. ASSUME NEW w \in Workers, Thread(w)
        PROVE  [Next]_vars
    <2>1. CASE Take(w)
      BY <2>1 DEF Take, Next
    <2>2. CASE RecordDone(w)
      BY <2>2 DEF RecordDone, Next
    <2>3. CASE RecordEmpty(w) \/ RecordFailure(w)
      BY <2>3 DEF RecordEmpty, RecordFailure, Next
    <2>4. CASE FailureRaises(w)
      BY <2>4 DEF FailureRaises, Next
    <2>5. QED
      BY <1>2, <2>1, <2>2, <2>3, <2>4
      DEF Thread, TestStop, TakeNothing, Dispatch, HandlerEnds, RecordRaises, Finally
  <1>3. ASSUME NEW p \in Processes, Signal(p) \/ ProcessEnds(p) \/ ProcessStarts(p)
        PROVE  [Next]_vars
    <2>1. CASE ProcessEnds(p)
      BY <2>1 DEF ProcessEnds, ThreadsOf, Next
    <2>2. QED
      BY <1>3, <2>1 DEF Signal, ProcessStarts
  <1>4. CASE UNCHANGED allVars
    BY <1>4 DEF allVars
  <1>5. QED
    BY <1>1, <1>2, <1>3, <1>4 DEF PoolNext

(***************************************************************************)
(* Which thread has a job, and which holds a permit: PoolInv is inductive. *)
(***************************************************************************)
Busy == {"dispatch", "handler", "complete", "empty", "except"}
MayHold == {"handler", "complete", "empty", "except", "finally", "unwind"}

Holding(p) == {w \in ThreadsOf(p) : holds[w]}

PoolTypes ==
    /\ pc \in [Workers -> PCs]
    /\ holds \in [Workers -> BOOLEAN]
    /\ sem \in [Processes -> 0..LlmWorkers]
    /\ stop \in [Processes -> {"unset", "set", "down"}]

\* A thread has a job just while _process has an outcome to record.
HasJob == \A w \in Workers : pc[w] \in Busy <=> ~Idle(w)

\* Permits are held within _process, by threads in a handler that needs one.
PermitsHeld ==
    /\ \A w \in Workers : holds[w] => pc[w] \in MayHold
    /\ \A w \in Workers : pc[w] = "handler" /\ IsLlm(w) => holds[w]

\* A process that is down has no thread.
DownDead == \A w \in Workers : stop[ProcessOf[w]] = "down" => pc[w] = "dead"

PoolInv ==
    /\ IInv /\ PoolTypes
    /\ HasJob /\ PermitsHeld /\ DownDead /\ SemaphoreConserved

LEMMA PoolInitInv == PoolInit => PoolInv
  <1> SUFFICES ASSUME PoolInit
               PROVE  PoolInv
    OBVIOUS
  <1>1. IInv
    BY InitIInv DEF PoolInit
  <1>2. PoolTypes
    BY PoolAssumption DEF PoolInit, PoolTypes, PCs
  <1>3. HasJob /\ PermitsHeld /\ DownDead
    BY PoolAssumption
    DEF PoolInit, Init, HasJob, PermitsHeld, DownDead, Busy, MayHold, Idle
  <1>4. SemaphoreConserved
    <2>1. ASSUME NEW p \in Processes
          PROVE  sem[p] + Cardinality(Holding(p)) = LlmWorkers
      <3>1. Holding(p) = {}
        BY DEF PoolInit, Holding, ThreadsOf
      <3>2. sem[p] = LlmWorkers /\ Cardinality(Holding(p)) = 0
        BY <3>1, FS_EmptySet DEF PoolInit
      <3>3. QED
        BY <3>2, PoolAssumption
    <2>2. QED
      BY <2>1 DEF SemaphoreConserved, Holding
  <1>5. QED
    BY <1>1, <1>2, <1>3, <1>4 DEF PoolInv

LEMMA ThreadsFinite ==
    ASSUME NEW p
    PROVE  IsFiniteSet(ThreadsOf(p)) /\ IsFiniteSet(Holding(p))
  <1>1. ThreadsOf(p) \in SUBSET Workers /\ Holding(p) \in SUBSET Workers
    BY DEF ThreadsOf, Holding
  <1>2. QED
    BY <1>1, FS_Subset, PoolAssumption

\* A step that lets holds and sem alone, and revives no process, loses no permit.
LEMMA PermitsUntouched ==
    ASSUME PoolInv, UNCHANGED <<holds, sem>>,
           \A p \in Processes : stop'[p] = "down" <=> stop[p] = "down"
    PROVE  SemaphoreConserved'
  BY DEF PoolInv, SemaphoreConserved, ThreadsOf

\* Nothing but the thread itself gives a thread another job, and jobs keep their types.
LEMMA OtherThreads ==
    ASSUME IInv, [Next]_vars, NEW v \in Workers, exec'[v] = exec[v]
    PROVE  ~Idle(v) => IsLlm(v)' = IsLlm(v)
  <1>1. ~Idle(v) => exec[v] \in Ids
    BY DEF IInv, OwnsRunning
  <1>2. QED
    BY <1>1, RowsKept DEF IsLlm

(***************************************************************************)
(* One lemma for each kind of step.                                        *)
(***************************************************************************)
\* A step of a thread that neither takes nor ends a job nor touches the semaphore.
LEMMA MovesInv ==
    ASSUME PoolInv, NEW w \in Workers, NEW from \in PCs, NEW to \in PCs,
           Goto(w, from, to), UNCHANGED <<vars, holds, sem, stop>>,
           from \in Busy <=> to \in Busy,
           to = "handler" => ~IsLlm(w),
           from \in MayHold => to \in MayHold,
           from # "dead"
    PROVE  PoolInv'
  <1> USE DEF PoolInv
  <1>1. IInv'
    BY NextIInv DEF vars
  <1>2. /\ pc \in [Workers -> PCs] /\ pc[w] = from
        /\ pc' = [pc EXCEPT ![w] = to]
        /\ exec' = exec /\ jobs' = jobs
    BY DEF PoolTypes, Goto, vars
  <1>3. PoolTypes'
    BY <1>2 DEF PoolTypes
  <1>4. HasJob'
    BY <1>2 DEF HasJob, Idle
  <1>5. PermitsHeld'
    BY <1>2 DEF PermitsHeld, IsLlm
  <1>6. DownDead'
    BY <1>2 DEF DownDead
  <1>7. SemaphoreConserved'
    BY PermitsUntouched
  <1>8. QED
    BY <1>1, <1>3, <1>4, <1>5, <1>6, <1>7

\* A step that changes a job and leaves pc alone: callers, users and the clock.
LEMMA EnvironmentInv ==
    ASSUME PoolInv, Environment
    PROVE  PoolInv'
  <1> USE DEF PoolInv
  <1>1. [Next]_vars
    BY StepsOfQueue DEF PoolNext
  <1>2. UNCHANGED <<exec, pc, holds, sem, stop>>
    BY DEF Environment, poolVars, EnqueueSkips, EnqueueSelects, EnqueueInserts, Elapse, Retry
  <1>3. IInv'
    BY <1>1, NextIInv
  <1>4. PoolTypes' /\ HasJob' /\ DownDead'
    BY <1>2 DEF PoolTypes, HasJob, DownDead, Idle
  <1>5. PermitsHeld'
    <2>1. ASSUME NEW v \in Workers, pc[v] = "handler"
          PROVE  IsLlm(v)' = IsLlm(v)
      <3>1. ~Idle(v)
        BY <2>1 DEF HasJob, Busy
      <3>2. QED
        BY <1>1, <1>2, <3>1, OtherThreads
    <2>2. QED
      BY <1>2, <2>1 DEF PermitsHeld
  <1>6. SemaphoreConserved'
    BY <1>2, PermitsUntouched
  <1>7. QED
    BY <1>3, <1>4, <1>5, <1>6

\* Taking a job, or recording its outcome.
LEMMA JobStepsInv ==
    ASSUME PoolInv, NEW w \in Workers, Thread(w), UNCHANGED <<holds, sem, stop>>,
           NEW from \in PCs, NEW to \in PCs, Goto(w, from, to),
           Idle(w)' <=> to \notin Busy,
           \A v \in Workers \ {w} : exec'[v] = exec[v],
           to # "handler",
           from \in MayHold => to \in MayHold,
           from # "dead"
    PROVE  PoolInv'
  <1> USE DEF PoolInv
  <1>1. [Next]_vars
    BY StepsOfQueue DEF PoolNext
  <1>2. IInv'
    BY <1>1, NextIInv
  <1>3. /\ pc \in [Workers -> PCs] /\ pc[w] = from
        /\ pc' = [pc EXCEPT ![w] = to]
    BY DEF PoolTypes, Goto
  <1>4. PoolTypes'
    BY <1>3 DEF PoolTypes
  <1>5. HasJob'
    BY <1>3 DEF HasJob, Idle
  <1>6. PermitsHeld'
    <2>1. ASSUME NEW v \in Workers \ {w}, pc[v] = "handler"
          PROVE  IsLlm(v)' = IsLlm(v)
      <3>1. ~Idle(v)
        BY <2>1 DEF HasJob, Busy
      <3>2. QED
        BY <1>1, <2>1, <3>1, OtherThreads
    <2>2. QED
      BY <1>3, <2>1 DEF PermitsHeld
  <1>7. DownDead'
    BY <1>3 DEF DownDead
  <1>8. SemaphoreConserved'
    BY PermitsUntouched
  <1>9. QED
    BY <1>2, <1>4, <1>5, <1>6, <1>7, <1>8

\* Acquiring the semaphore, or not needing it.
LEMMA DispatchInv ==
    ASSUME PoolInv, NEW w \in Workers, Dispatch(w)
    PROVE  PoolInv'
  <1> USE DEF PoolInv
  <1>1. CASE ~IsLlm(w)
    <2>1. Goto(w, "dispatch", "handler") /\ UNCHANGED <<vars, holds, sem, stop>>
      BY <1>1 DEF Dispatch
    <2>2. /\ "dispatch" \in PCs /\ "handler" \in PCs
          /\ "dispatch" \in Busy /\ "handler" \in Busy /\ "handler" \in MayHold
      BY DEF PCs, Busy, MayHold
    <2>3. QED
      BY <1>1, <2>1, <2>2, MovesInv
  <1>2. CASE IsLlm(w)
    <2> DEFINE p == ProcessOf[w]
    <2>1. /\ p \in Processes
          /\ pc \in [Workers -> PCs] /\ pc[w] = "dispatch" /\ pc' = [pc EXCEPT ![w] = "handler"]
          /\ sem \in [Processes -> 0..LlmWorkers]
          /\ sem[p] > 0 /\ sem' = [sem EXCEPT ![p] = sem[p] - 1]
          /\ holds \in [Workers -> BOOLEAN] /\ holds' = [holds EXCEPT ![w] = TRUE]
          /\ stop' = stop /\ UNCHANGED vars
      BY <1>2, PoolAssumption DEF Dispatch, Goto, PoolTypes
    <2>2. IInv'
      BY <2>1, NextIInv DEF vars
    <2>3. PoolTypes'
      <3>1. sem[p] - 1 \in 0..LlmWorkers
        BY <2>1, PoolAssumption
      <3>2. QED
        BY <2>1, <3>1 DEF PoolTypes, PCs
    <2>4. HasJob'
      BY <2>1 DEF HasJob, Idle, Busy, vars
    <2>5. PermitsHeld'
      BY <2>1 DEF PermitsHeld, IsLlm, MayHold, vars
    <2>6. DownDead'
      BY <2>1 DEF DownDead
    <2>7. ASSUME NEW q \in Processes, stop[q] # "down"
          PROVE  sem'[q] + Cardinality(Holding(q)') = LlmWorkers
      <3>1. sem[q] + Cardinality(Holding(q)) = LlmWorkers
        BY <2>7 DEF SemaphoreConserved, Holding
      <3>2. CASE q = p
        <4>1. w \notin Holding(p)
          BY <2>1 DEF PermitsHeld, MayHold, Holding
        <4>2. Holding(p)' = Holding(p) \cup {w}
          BY <2>1 DEF Holding, ThreadsOf
        <4>3. Cardinality(Holding(p)') = Cardinality(Holding(p)) + 1
          BY <4>1, <4>2, ThreadsFinite, FS_AddElement
        <4>4. Cardinality(Holding(p)) \in Nat
          BY ThreadsFinite, FS_CardinalityType
        <4>5. sem'[p] = sem[p] - 1 /\ sem[p] \in Nat
          BY <2>1, PoolAssumption
        <4>6. QED
          BY <3>1, <3>2, <4>3, <4>4, <4>5
      <3>3. CASE q # p
        <4>1. Holding(q)' = Holding(q)
          BY <2>1, <3>3 DEF Holding, ThreadsOf
        <4>2. QED
          BY <2>1, <3>1, <3>3, <4>1
      <3>4. QED
        BY <3>2, <3>3
    <2>8. SemaphoreConserved'
      BY <2>1, <2>7 DEF SemaphoreConserved, Holding
    <2>9. QED
      BY <2>2, <2>3, <2>4, <2>5, <2>6, <2>8
  <1>3. QED
    BY <1>1, <1>2

\* The finally clause returns the permit the thread holds.
LEMMA FinallyInv ==
    ASSUME PoolInv, NEW w \in Workers, Finally(w)
    PROVE  PoolInv'
  <1> USE DEF PoolInv
  <1> DEFINE p == ProcessOf[w]
  <1>1. PICK to \in {"loop", "dead"} : pc' = [pc EXCEPT ![w] = to]
    BY DEF Finally, Goto
  <1>2. /\ p \in Processes
        /\ pc \in [Workers -> PCs] /\ pc[w] \in {"finally", "unwind"}
        /\ sem \in [Processes -> 0..LlmWorkers]
        /\ sem' = IF holds[w] THEN [sem EXCEPT ![p] = sem[p] + 1] ELSE sem
        /\ holds \in [Workers -> BOOLEAN] /\ holds' = [holds EXCEPT ![w] = FALSE]
        /\ stop' = stop /\ UNCHANGED vars
        /\ stop[p] # "down"
    BY PoolAssumption DEF Finally, Goto, PoolTypes, DownDead
  <1>3. IInv'
    BY <1>2, NextIInv DEF vars
  <1>4. HasJob'
    BY <1>1, <1>2 DEF HasJob, Idle, Busy, vars
  <1>5. PermitsHeld'
    BY <1>1, <1>2 DEF PermitsHeld, IsLlm, vars
  <1>6. DownDead'
    BY <1>1, <1>2 DEF DownDead
  <1>7. ASSUME holds[w]
        PROVE  /\ Cardinality(Holding(p)') = Cardinality(Holding(p)) - 1
               /\ Cardinality(Holding(p)) \in Nat \ {0}
               /\ sem[p] + Cardinality(Holding(p)) = LlmWorkers
    <2>1. w \in Holding(p)
      BY <1>7 DEF Holding, ThreadsOf
    <2>2. Holding(p)' = Holding(p) \ {w}
      BY <1>2 DEF Holding, ThreadsOf
    <2>3. IsFiniteSet(Holding(p)) /\ Holding(p) # {}
      BY <2>1, ThreadsFinite
    <2>4. Cardinality(Holding(p)') = Cardinality(Holding(p)) - 1
      BY <2>1, <2>2, <2>3, FS_RemoveElement
    <2>5. Cardinality(Holding(p)) \in Nat /\ Cardinality(Holding(p)) # 0
      BY <2>3, FS_CardinalityType, FS_EmptySet
    <2>6. QED
      BY <1>2, <2>4, <2>5 DEF SemaphoreConserved, Holding
  <1>8. PoolTypes'
    <2>1. holds[w] => sem[p] + 1 \in 0..LlmWorkers
      BY <1>2, <1>7, PoolAssumption
    <2>2. QED
      BY <1>1, <1>2, <2>1 DEF PoolTypes, PCs
  <1>9. ASSUME NEW q \in Processes, stop[q] # "down"
        PROVE  sem'[q] + Cardinality(Holding(q)') = LlmWorkers
    <2>1. sem[q] + Cardinality(Holding(q)) = LlmWorkers
      BY <1>9 DEF SemaphoreConserved, Holding
    <2>2. CASE q # p \/ ~holds[w]
      <3>1. Holding(q)' = Holding(q)
        BY <1>2, <2>2 DEF Holding, ThreadsOf
      <3>2. sem'[q] = sem[q]
        BY <1>2, <2>2
      <3>3. QED
        BY <2>1, <3>1, <3>2
    <2>3. CASE q = p /\ holds[w]
      <3>1. sem'[p] = sem[p] + 1 /\ sem[p] \in Nat
        BY <1>2, <2>3, PoolAssumption
      <3>2. QED
        BY <1>7, <2>3, <3>1
    <2>4. QED
      BY <2>2, <2>3
  <1>10. SemaphoreConserved'
    BY <1>2, <1>9 DEF SemaphoreConserved, Holding
  <1>11. QED
    BY <1>3, <1>4, <1>5, <1>6, <1>8, <1>10

\* A signal, the end of a process and its start.
LEMMA ProcessInv ==
    ASSUME PoolInv, NEW p \in Processes, Signal(p) \/ ProcessEnds(p) \/ ProcessStarts(p)
    PROVE  PoolInv'
  <1> USE DEF PoolInv
  <1>1. [Next]_vars
    BY StepsOfQueue DEF PoolNext
  <1>2. IInv'
    BY <1>1, NextIInv
  <1>3. /\ pc \in [Workers -> PCs] /\ holds \in [Workers -> BOOLEAN]
        /\ sem \in [Processes -> 0..LlmWorkers] /\ stop \in [Processes -> {"unset", "set", "down"}]
        /\ LlmWorkers \in 0..LlmWorkers /\ ProcessOf \in [Workers -> Processes]
    BY PoolAssumption DEF PoolTypes
  <1>4. CASE Signal(p)
    <2>1. /\ UNCHANGED <<vars, pc, holds, sem>>
          /\ stop[p] # "down" /\ stop' = [stop EXCEPT ![p] = "set"]
      BY <1>4 DEF Signal
    <2>2. PoolTypes' /\ HasJob' /\ PermitsHeld'
      BY <1>3, <2>1 DEF PoolTypes, HasJob, Idle, PermitsHeld, IsLlm, vars
    <2>3. DownDead'
      BY <1>3, <2>1 DEF DownDead
    <2>4. SemaphoreConserved'
      BY <1>3, <2>1, PermitsUntouched
    <2>5. QED
      BY <1>2, <2>2, <2>3, <2>4
  <1>5. CASE ProcessEnds(p)
    <2>1. /\ stop' = [stop EXCEPT ![p] = "down"] /\ sem' = sem /\ jobs' = jobs
          /\ exec' = [w \in Workers |-> IF ProcessOf[w] = p THEN 0 ELSE exec[w]]
          /\ pc' = [w \in Workers |-> IF ProcessOf[w] = p THEN "dead" ELSE pc[w]]
          /\ holds' = [w \in Workers |-> IF ProcessOf[w] = p THEN FALSE ELSE holds[w]]
      BY <1>5 DEF ProcessEnds, Die, ThreadsOf
    <2>2. PoolTypes'
      BY <1>3, <2>1 DEF PoolTypes, PCs
    <2>3. HasJob'
      BY <2>1 DEF HasJob, Idle, Busy
    <2>4. PermitsHeld'
      BY <2>1 DEF PermitsHeld, IsLlm
    <2>5. DownDead'
      BY <1>3, <2>1 DEF DownDead
    <2>6. ASSUME NEW q \in Processes, stop'[q] # "down"
          PROVE  sem'[q] + Cardinality(Holding(q)') = LlmWorkers
      <3>1. q # p /\ stop[q] # "down"
        BY <1>3, <2>1, <2>6
      <3>2. Holding(q)' = Holding(q)
        BY <2>1, <3>1 DEF Holding, ThreadsOf
      <3>3. QED
        BY <2>1, <3>1, <3>2 DEF SemaphoreConserved, Holding
    <2>7. SemaphoreConserved'
      BY <2>6 DEF SemaphoreConserved, Holding
    <2>8. QED
      BY <1>2, <2>2, <2>3, <2>4, <2>5, <2>7
  <1>6. CASE ProcessStarts(p)
    <2>1. /\ stop[p] = "down" /\ stop' = [stop EXCEPT ![p] = "unset"]
          /\ pc' = [w \in Workers |-> IF ProcessOf[w] = p THEN "loop" ELSE pc[w]]
          /\ sem' = [sem EXCEPT ![p] = LlmWorkers]
          /\ UNCHANGED <<vars, holds>>
      BY <1>6 DEF ProcessStarts
    <2>2. \A w \in ThreadsOf(p) : pc[w] = "dead" /\ ~holds[w]
      BY <2>1 DEF DownDead, PermitsHeld, ThreadsOf, MayHold
    <2>3. PoolTypes'
      BY <1>3, <2>1 DEF PoolTypes, PCs
    <2>4. HasJob'
      BY <2>1, <2>2 DEF HasJob, Idle, Busy, ThreadsOf, vars
    <2>5. PermitsHeld'
      BY <2>1, <2>2 DEF PermitsHeld, IsLlm, ThreadsOf, vars
    <2>6. DownDead'
      BY <1>3, <2>1 DEF DownDead
    <2>7. ASSUME NEW q \in Processes, stop'[q] # "down"
          PROVE  sem'[q] + Cardinality(Holding(q)') = LlmWorkers
      <3>1. Holding(q)' = Holding(q)
        BY <2>1 DEF Holding, ThreadsOf
      <3>2. CASE q = p
        <4>1. Holding(p) = {}
          BY <2>2 DEF Holding
        <4>2. sem'[p] = LlmWorkers /\ Cardinality(Holding(p)) = 0
          BY <1>3, <2>1, <4>1, FS_EmptySet
        <4>3. QED
          BY <3>1, <3>2, <4>2, PoolAssumption
      <3>3. CASE q # p
        BY <1>3, <2>1, <2>7, <3>1, <3>3 DEF SemaphoreConserved, Holding
      <3>4. QED
        BY <3>2, <3>3
    <2>8. SemaphoreConserved'
      BY <2>7 DEF SemaphoreConserved, Holding
    <2>9. QED
      BY <1>2, <2>3, <2>4, <2>5, <2>6, <2>8
  <1>7. QED
    BY <1>4, <1>5, <1>6

LEMMA ThreadInv ==
    ASSUME PoolInv, NEW w \in Workers, Thread(w)
    PROVE  PoolInv'
  <1>1. /\ pc \in [Workers -> PCs] /\ exec \in [Workers -> Nat]
        /\ Ids \subseteq Nat \ {0}
    BY DEF PoolInv, PoolTypes, IInv, TypeOK, Ids
  <1>2. CASE TestStop(w)
    <2>1. PICK to \in {"claim", "stopped"} :
             Goto(w, "loop", to) /\ UNCHANGED <<vars, holds, sem, stop>>
      BY <1>2 DEF TestStop
    <2>2. QED
      BY <2>1, MovesInv DEF PCs, Busy, MayHold
  <1>3. CASE TakeNothing(w)
    <2>1. Goto(w, "claim", "loop") /\ UNCHANGED <<vars, holds, sem, stop>>
      BY <1>3 DEF TakeNothing
    <2>2. QED
      BY <2>1, MovesInv DEF PCs, Busy, MayHold
  <1>4. CASE \E next \in {"complete", "empty", "except"} : HandlerEnds(w, next)
    <2>1. PICK to \in {"complete", "empty", "except"} :
             Goto(w, "handler", to) /\ UNCHANGED <<vars, holds, sem, stop>>
      BY <1>4 DEF HandlerEnds
    <2>2. QED
      BY <2>1, MovesInv DEF PCs, Busy, MayHold
  <1>5. CASE RecordRaises(w)
    <2>1. PICK from \in {"complete", "empty"} :
             Goto(w, from, "except") /\ UNCHANGED <<vars, holds, sem, stop>>
      BY <1>5 DEF RecordRaises
    <2>2. QED
      BY <2>1, MovesInv DEF PCs, Busy, MayHold
  <1>6. CASE Take(w)
    <2>1. Goto(w, "claim", "dispatch") /\ UNCHANGED <<holds, sem, stop>>
      BY <1>6 DEF Take
    <2>2. PICK i \in Ids : exec' = [exec EXCEPT ![w] = i]
      BY <1>6 DEF Take, Claim
    <2>3. ~Idle(w)' /\ \A v \in Workers \ {w} : exec'[v] = exec[v]
      BY <1>1, <2>2 DEF Idle
    <2>4. QED
      BY <2>1, <2>3, JobStepsInv DEF PCs, Busy, MayHold
  <1>7. CASE RecordDone(w) \/ RecordEmpty(w) \/ RecordFailure(w)
    <2>1. PICK from \in {"complete", "empty", "except"} :
             Goto(w, from, "finally") /\ UNCHANGED <<holds, sem, stop>>
      BY <1>7 DEF RecordDone, RecordEmpty, RecordFailure
    <2>2. exec' = [exec EXCEPT ![w] = 0]
      BY <1>7 DEF RecordDone, RecordEmpty, RecordFailure, Complete, Fail, Release
    <2>3. Idle(w)' /\ \A v \in Workers \ {w} : exec'[v] = exec[v]
      BY <1>1, <2>2 DEF Idle
    <2>4. QED
      BY <2>1, <2>3, JobStepsInv DEF PCs, Busy, MayHold
  <1>8. CASE FailureRaises(w)
    <2>1. Goto(w, "except", "unwind") /\ UNCHANGED <<holds, sem, stop>>
      BY <1>8 DEF FailureRaises
    <2>2. Idle(w)' /\ \A v \in Workers \ {w} : exec'[v] = exec[v]
      BY <1>8 DEF FailureRaises, Die, Idle
    <2>3. QED
      BY <2>1, <2>2, JobStepsInv DEF PCs, Busy, MayHold
  <1>9. QED
    BY <1>2, <1>3, <1>4, <1>5, <1>6, <1>7, <1>8, DispatchInv, FinallyInv DEF Thread

LEMMA PoolNextInv == PoolInv /\ [PoolNext]_allVars => PoolInv'
  <1> SUFFICES ASSUME PoolInv, [PoolNext]_allVars
               PROVE  PoolInv'
    OBVIOUS
  <1>1. CASE UNCHANGED allVars
    <2>1. UNCHANGED <<vars, pc, holds, sem, stop>>
      BY <1>1 DEF allVars, poolVars
    <2>2. IInv'
      BY <2>1, NextIInv DEF PoolInv, vars
    <2>3. PoolTypes' /\ HasJob' /\ PermitsHeld' /\ DownDead' /\ SemaphoreConserved'
      BY <2>1 DEF PoolInv, PoolTypes, HasJob, Idle, PermitsHeld, IsLlm, DownDead,
                  SemaphoreConserved, vars
    <2>4. QED
      BY <2>2, <2>3 DEF PoolInv
  <1>2. QED
    BY <1>1, EnvironmentInv, ThreadInv, ProcessInv DEF PoolNext

THEOREM PoolInvariance == PoolSpec => []PoolInv
  BY PoolInitInv, PoolNextInv, PTL DEF PoolSpec

\* Every variable of the pool, the queue's included, always holds a value of its type.
THEOREM PoolTypeCorrect == PoolSpec => []PoolTypeOK
  <1>1. PoolInv => PoolTypeOK
    BY DEF PoolInv, PoolTypes, IInv, PoolTypeOK
  <1>2. QED
    BY <1>1, PoolInvariance, PTL

\* No way out of _process loses or invents a permit of the LLM semaphore, for any number
\* of threads, processes and permits.
THEOREM PermitsConserved == PoolSpec => []SemaphoreConserved
  <1>1. PoolInv => SemaphoreConserved
    BY DEF PoolInv
  <1>2. QED
    BY <1>1, PoolInvariance, PTL

\* Never more than llm_workers threads of a process run LLM handlers.
THEOREM LlmRateLimited == PoolSpec => []LlmLimited
  <1>1. ASSUME PoolInv, NEW p \in Processes
        PROVE  Cardinality({w \in ThreadsOf(p) : pc[w] = "handler" /\ IsLlm(w)}) <= LlmWorkers
    <2> DEFINE Running == {w \in ThreadsOf(p) : pc[w] = "handler" /\ IsLlm(w)}
    <2>1. Running \in SUBSET Holding(p)
      BY <1>1 DEF PoolInv, PermitsHeld, Holding, ThreadsOf
    <2>2. Cardinality(Running) <= Cardinality(Holding(p))
      BY <2>1, ThreadsFinite, FS_Subset
    <2>3. Cardinality(Holding(p)) <= LlmWorkers
      <3>1. Cardinality(Holding(p)) \in Nat /\ sem[p] \in 0..LlmWorkers
        BY <1>1, ThreadsFinite, FS_CardinalityType DEF PoolInv, PoolTypes
      <3>2. CASE stop[p] = "down"
        <4>1. Holding(p) = {}
          BY <1>1, <3>2 DEF PoolInv, PermitsHeld, DownDead, MayHold, Holding, ThreadsOf
        <4>2. QED
          BY <4>1, FS_EmptySet, PoolAssumption
      <3>3. CASE stop[p] # "down"
        <4>1. sem[p] + Cardinality(Holding(p)) = LlmWorkers
          BY <1>1, <3>3 DEF PoolInv, SemaphoreConserved, Holding
        <4>2. QED
          BY <3>1, <4>1, PoolAssumption
      <3>4. QED
        BY <3>2, <3>3
    <2>4. Cardinality(Running) \in Nat /\ Cardinality(Holding(p)) \in Nat
      BY <2>1, ThreadsFinite, FS_Subset, FS_CardinalityType
    <2>5. QED
      BY <2>2, <2>3, <2>4, PoolAssumption
  <1>2. PoolInv => LlmLimited
    BY <1>1 DEF LlmLimited
  <1>3. QED
    BY <1>2, PoolInvariance, PTL

\* A row claimed by a living thread is running until that thread has recorded an outcome,
\* and no path through _process leaves a job unrecorded.
THEOREM Accounted == PoolSpec => []ThreadsAccount
  <1>1. PoolInv => ThreadsAccount
    BY DEF PoolInv, HasJob, Busy, IInv, OwnsRunning, ThreadsAccount
  <1>2. QED
    BY <1>1, PoolInvariance, PTL

\* What the queue guarantees carries over: two threads of the pool, of one process or of
\* two, never run write handlers of one project at once.
THEOREM PoolExclusion == PoolSpec => []ExclusiveExecution
  <1>1. IInv => ExclusiveExecution
    BY DEF IInv, OwnsRunning, WriteSerial, ExclusiveExecution
  <1>2. PoolInv => IInv
    BY DEF PoolInv
  <1>3. QED
    BY <1>1, <1>2, PoolInvariance, PTL

=============================================================================
