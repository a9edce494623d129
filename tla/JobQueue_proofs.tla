-------------------------- MODULE JobQueue_proofs --------------------------
(* Theorems about JobQueue, for every value of its constants. *)
EXTENDS JobQueue, JobTable_proofs, TLAPS

(***************************************************************************)
(* The inductive invariant.  OwnsRunning is what makes the others          *)
(* inductive: a thread only ends a job that is running and its own.        *)
(***************************************************************************)
IInv == TypeOK /\ WriteSerial /\ OwnsRunning /\ AttemptsBounded

\* A row that does not start running takes the write lock of no project.
LEMMA SerialKept ==
    ASSUME WriteSerial, NEW i \in Ids, NEW r, Sets(i, r),
           r.type = jobs[i].type, r.project = jobs[i].project,
           r.status = "running" => jobs[i].status = "running"
    PROVE  WriteSerial'
  <1>1. \A j \in Ids : /\ jobs'[j].project = jobs[j].project
                       /\ jobs'[j].type = jobs[j].type
                       /\ jobs'[j].status = "running" => jobs[j].status = "running"
    BY DEF Sets
  <1>2. Ids' = Ids
    BY DEF Sets
  <1>3. \A j \in Ids : IsWrite(j)' => IsWrite(j)
    BY <1>1 DEF IsWrite
  <1>4. ASSUME NEW j \in Ids, NEW k \in Ids, j # k,
               jobs'[j].status = "running", IsWrite(j)',
               jobs'[k].status = "running", IsWrite(k)'
        PROVE  jobs'[j].project # jobs'[k].project
    <2>1. jobs[j].project # jobs[k].project
      BY <1>1, <1>3, <1>4 DEF WriteSerial
    <2>2. QED
      BY <1>1, <2>1
  <1>5. QED
    BY <1>2, <1>4 DEF WriteSerial

\* A thread that ends its job leaves the other threads theirs.
LEMMA OwnsReleased ==
    ASSUME TypeOK, OwnsRunning, NEW w \in Workers, ~Idle(w), Release(w),
           NEW r, Sets(exec[w], r)
    PROVE  OwnsRunning'
  <1>1. exec' = [exec EXCEPT ![w] = 0] /\ exec \in [Workers -> Nat]
    BY DEF Release, TypeOK
  <1>2. exec'[w] = 0 /\ \A v \in Workers \ {w} : exec'[v] = exec[v]
    BY <1>1
  <1>3. \A v \in Workers \ {w} : exec[v] # 0 =>
          /\ exec[v] \in Ids /\ exec[v] # exec[w]
          /\ jobs[exec[v]].status = "running"
    BY DEF OwnsRunning, Idle
  <1>4. Ids' = Ids /\ \A j \in Ids : j # exec[w] => jobs'[j] = jobs[j]
    BY DEF Sets
  <1>5. ASSUME NEW v \in Workers, exec'[v] # 0
        PROVE  exec'[v] \in Ids' /\ jobs'[exec'[v]].status = "running"
    <2>1. v # w /\ exec'[v] = exec[v]
      BY <1>2, <1>5
    <2>2. exec[v] \in Ids /\ exec[v] # exec[w] /\ jobs[exec[v]].status = "running"
      BY <1>3, <1>5, <2>1
    <2>3. jobs'[exec[v]] = jobs[exec[v]]
      BY <1>4, <2>2
    <2>4. QED
      BY <1>4, <2>1, <2>2, <2>3
  <1>6. ASSUME NEW v \in Workers, NEW u \in Workers, v # u, exec'[v] # 0
        PROVE  exec'[v] # exec'[u]
    BY <1>2, <1>6 DEF OwnsRunning, Idle
  <1>7. QED
    BY <1>5, <1>6 DEF OwnsRunning, Idle

LEMMA InitIInv == Init => IInv
  <1>1. ASSUME Init PROVE TypeOK
    <2>1. jobs \in Seq(Row)
      BY <1>1 DEF Init
    <2>2. QED
      BY <1>1, <2>1 DEF Init, TypeOK
  <1>2. ASSUME Init PROVE Ids = {}
    BY <1>2 DEF Init, Ids
  <1>3. QED
    BY <1>1, <1>2 DEF Init, IInv, WriteSerial, OwnsRunning, AttemptsBounded, Idle

LEMMA ClaimIInv ==
    ASSUME IInv, NEW w \in Workers, Claim(w)
    PROVE  IInv'
  <1> USE DEF IInv
  <1>1. PICK i \in Ids : /\ ClaimRow(i)
                         /\ exec' = [exec EXCEPT ![w] = i]
                         /\ waiting' = waiting \ {Key(jobs[i])}
    BY DEF Claim
  <1>2. jobs \in Seq(Row) /\ jobs[i] \in Row /\ i \in Nat \ {0}
    BY DEF TypeOK, Ids
  <1> DEFINE r == [jobs[i] EXCEPT !.status = "running", !.attempts = @ + 1]
  <1>3. Sets(i, r)
    BY <1>1, <1>2, ClaimSets
  <1>4. /\ r.status = "running" /\ r.attempts = jobs[i].attempts + 1
        /\ r.type = jobs[i].type /\ r.project = jobs[i].project
    BY <1>2 DEF Row
  <1>5. Claimable(i)
    BY <1>1 DEF ClaimRow, IsNext
  <1> HIDE DEF r
  <1>6. TypeOK'
    BY <1>1, <1>2, <1>3 DEF TypeOK, Sets, Claim
  <1>7. WriteSerial'
    <2>1. \A j \in Ids : /\ jobs'[j].project = jobs[j].project
                         /\ jobs'[j].type = jobs[j].type
                         /\ j # i => jobs'[j].status = jobs[j].status
      BY <1>3, <1>4 DEF Sets
    <2>2. Ids' = Ids
      BY <1>3 DEF Sets
    <2>3. ASSUME IsWrite(i), NEW j \in Ids, jobs[j].status = "running", IsWrite(j)
          PROVE  jobs[j].project # jobs[i].project
      BY <1>5, <2>3 DEF Claimable, RunningWrite
    <2>4. \A j \in Ids : IsWrite(j)' => IsWrite(j)
      BY <2>1 DEF IsWrite
    <2>5. ASSUME NEW j \in Ids, NEW k \in Ids, j # k,
                 jobs'[j].status = "running", IsWrite(j)',
                 jobs'[k].status = "running", IsWrite(k)'
          PROVE  jobs[j].project # jobs[k].project
      <3>1. CASE j # i /\ k # i
        BY <2>1, <2>4, <2>5, <3>1 DEF WriteSerial
      <3>2. CASE j = i
        BY <2>1, <2>3, <2>4, <2>5, <3>2
      <3>3. CASE k = i
        BY <2>1, <2>3, <2>4, <2>5, <3>3
      <3>4. QED
        BY <3>1, <3>2, <3>3
    <2>6. QED
      BY <2>1, <2>2, <2>5 DEF WriteSerial
  <1>8. OwnsRunning'
    <2>1. exec'[w] = i /\ \A v \in Workers \ {w} : exec'[v] = exec[v]
      BY <1>1 DEF TypeOK
    <2>2. jobs[i].status = "queued"
      BY <1>5 DEF Claimable
    <2>3. \A v \in Workers : exec[v] # 0 => exec[v] \in Ids /\ exec[v] # i
      BY <2>2 DEF OwnsRunning, Idle
    <2>4. jobs'[i].status = "running" /\ Ids' = Ids
      BY <1>3, <1>4 DEF Sets
    <2>5. \A v \in Workers : exec[v] # 0 => jobs'[exec[v]] = jobs[exec[v]]
      BY <1>3, <2>3 DEF Sets
    <2>6. ASSUME NEW v \in Workers, exec'[v] # 0
          PROVE  exec'[v] \in Ids' /\ jobs'[exec'[v]].status = "running"
      <3>1. CASE v = w
        BY <2>1, <2>4, <3>1
      <3>2. CASE v # w
        BY <2>1, <2>3, <2>4, <2>5, <2>6, <3>2 DEF OwnsRunning, Idle
      <3>3. QED
        BY <3>1, <3>2
    <2>7. ASSUME NEW v \in Workers, NEW u \in Workers, v # u, exec'[v] # 0
          PROVE  exec'[v] # exec'[u]
      BY <1>2, <2>1, <2>3, <2>7 DEF OwnsRunning, Idle
    <2>8. QED
      BY <2>6, <2>7 DEF OwnsRunning, Idle
  <1>9. AttemptsBounded'
    <2>1. Ids' = Ids /\ jobs'[i] = r /\ \A j \in Ids : j # i => jobs'[j] = jobs[j]
      BY <1>3 DEF Sets
    <2>2. jobs[i].attempts < MaxAttempts /\ jobs[i].attempts \in Nat
      BY <1>2, <1>5 DEF AttemptsBounded, Claimable, Row
    <2>3. r.attempts <= MaxAttempts /\ r.status # "queued"
      BY <1>4, <2>2, TableAssumption
    <2>4. QED
      BY <2>1, <2>3 DEF AttemptsBounded
  <1>10. QED
    BY <1>6, <1>7, <1>8, <1>9

LEMMA CompleteIInv ==
    ASSUME IInv, NEW w \in Workers, Complete(w)
    PROVE  IInv'
  <1> USE DEF IInv
  <1> DEFINE i == exec[w]
             r == [jobs[i] EXCEPT !.status = "done"]
  <1>1. i \in Ids /\ ~Idle(w) /\ jobs \in Seq(Row) /\ jobs[i] \in Row
    BY DEF OwnsRunning, Complete, TypeOK, Ids
  <1>2. Sets(i, r)
    BY <1>1, CompleteSets DEF Complete
  <1>3. r.status = "done" /\ r.attempts = jobs[i].attempts
        /\ r.type = jobs[i].type /\ r.project = jobs[i].project
    BY <1>1 DEF Row
  <1> HIDE DEF r
  <1>4. TypeOK'
    BY <1>2 DEF TypeOK, Sets, Complete, Release
  <1>5. WriteSerial'
    BY <1>1, <1>2, <1>3, SerialKept
  <1>6. OwnsRunning'
    BY <1>1, <1>2, OwnsReleased DEF Complete
  <1>7. AttemptsBounded'
    BY <1>2, <1>3, <1>1 DEF AttemptsBounded, Sets
  <1>8. QED
    BY <1>4, <1>5, <1>6, <1>7

LEMMA FailIInv ==
    ASSUME IInv, NEW w \in Workers, NEW permanent \in BOOLEAN, Fail(w, permanent)
    PROVE  IInv'
  <1> USE DEF IInv
  <1> DEFINE i == exec[w]
             r == IF permanent \/ Exhausted(i)
                  THEN [jobs[i] EXCEPT !.status = "failed"]
                  ELSE [jobs[i] EXCEPT !.status = "queued", !.due = FALSE]
  <1>1. i \in Ids /\ ~Idle(w) /\ jobs \in Seq(Row) /\ jobs[i] \in Row
    BY DEF OwnsRunning, Fail, TypeOK, Ids
  <1>2. Sets(i, r)
    BY <1>1, FailSets DEF Fail
  <1>3. /\ r.status \in {"failed", "queued"} /\ r.attempts = jobs[i].attempts
        /\ r.type = jobs[i].type /\ r.project = jobs[i].project
        /\ r.status = "queued" => ~Exhausted(i)
    BY <1>1 DEF Row
  <1> HIDE DEF r
  <1>4. TypeOK'
    BY <1>2 DEF TypeOK, Sets, Fail, Release
  <1>5. WriteSerial'
    BY <1>1, <1>2, <1>3, SerialKept
  <1>6. OwnsRunning'
    BY <1>1, <1>2, OwnsReleased DEF Fail
  <1>7. AttemptsBounded'
    <2>1. Ids' = Ids /\ jobs'[i] = r /\ \A j \in Ids : j # i => jobs'[j] = jobs[j]
      BY <1>2 DEF Sets
    <2>2. r.attempts <= MaxAttempts /\ (r.status = "queued" => r.attempts < MaxAttempts)
      BY <1>1, <1>3, TableAssumption DEF AttemptsBounded, Exhausted, Row
    <2>3. QED
      BY <2>1, <2>2 DEF AttemptsBounded
  <1>8. QED
    BY <1>4, <1>5, <1>6, <1>7

LEMMA ElapseIInv ==
    ASSUME IInv, NEW i \in Ids, Elapse(i)
    PROVE  IInv'
  <1> USE DEF IInv
  <1> DEFINE r == [jobs[i] EXCEPT !.due = TRUE]
  <1>1. jobs \in Seq(Row) /\ jobs[i] \in Row
    BY DEF TypeOK, Ids
  <1>2. Sets(i, r)
    BY <1>1, ElapseSets DEF Elapse
  <1>3. /\ r.status = jobs[i].status /\ r.attempts = jobs[i].attempts
        /\ r.type = jobs[i].type /\ r.project = jobs[i].project
    BY <1>1 DEF Row
  <1> HIDE DEF r
  <1>4. TypeOK'
    BY <1>2 DEF TypeOK, Sets, Elapse
  <1>5. WriteSerial'
    BY <1>2, <1>3, SerialKept
  <1>6. \A j \in Ids : jobs'[j].status = jobs[j].status /\ jobs'[j].attempts = jobs[j].attempts
    BY <1>2, <1>3 DEF Sets
  <1>7. OwnsRunning'
    BY <1>2, <1>6 DEF OwnsRunning, Elapse, Idle, Sets
  <1>8. AttemptsBounded'
    BY <1>2, <1>6 DEF AttemptsBounded, Sets
  <1>9. QED
    BY <1>4, <1>5, <1>7, <1>8

LEMMA RetryIInv ==
    ASSUME IInv, NEW i \in Ids, Retry(i)
    PROVE  IInv'
  <1> USE DEF IInv
  <1>1. CASE ~RetryCommits
    <2>1. UNCHANGED <<jobs, call, exec, waiting>> /\ refused' = refused \cup {i}
      BY <1>1 DEF Retry, RetryRow
    <2>2. QED
      BY <2>1 DEF TypeOK, WriteSerial, OwnsRunning, AttemptsBounded, Idle, IsWrite, Ids
  <1>2. CASE RetryCommits
    <2> DEFINE r == [jobs[i] EXCEPT !.status = "queued", !.attempts = 0, !.due = TRUE]
    <2>1. jobs \in Seq(Row) /\ jobs[i] \in Row
      BY DEF TypeOK, Ids
    <2>2. Sets(i, r) /\ refused' = refused
      BY <1>2, <2>1, RetrySets DEF Retry
    <2>3. /\ r.status = "queued" /\ r.attempts = 0
          /\ r.type = jobs[i].type /\ r.project = jobs[i].project
      BY <2>1 DEF Row
    <2> HIDE DEF r
    <2>4. TypeOK'
      BY <2>2 DEF TypeOK, Sets, Retry
    <2>5. WriteSerial'
      BY <2>2, <2>3, SerialKept
    <2>6. \A w \in Workers : exec[w] # 0 => exec[w] # i
      BY DEF OwnsRunning, Idle, Retry
    <2>7. OwnsRunning'
      BY <2>2, <2>6 DEF OwnsRunning, Retry, Idle, Sets
    <2>8. AttemptsBounded'
      BY <2>2, <2>3, TableAssumption DEF AttemptsBounded, Sets
    <2>9. QED
      BY <2>4, <2>5, <2>7, <2>8
  <1>3. QED
    BY <1>1, <1>2

LEMMA InsertIInv ==
    ASSUME IInv, NEW c \in Callers, EnqueueInserts(c)
    PROVE  IInv'
  <1> USE DEF IInv
  <1> DEFINE n == Len(jobs) + 1
             r == NewRow(call[c])
  <1>1. call[c] \in Request /\ call \in [Callers -> Requests \cup {None}]
    BY QueueAssumption DEF EnqueueInserts, TypeOK
  <1>2. /\ jobs' \in Seq(Row) /\ n \notin Ids /\ Ids' = Ids \cup {n}
        /\ jobs'[n] = r /\ \A j \in Ids : jobs'[j] = jobs[j]
    BY <1>1, InsertAppends DEF EnqueueInserts, TypeOK
  <1>3. r.status = "queued" /\ r.attempts = 0
    BY DEF NewRow
  <1> HIDE DEF r, n
  <1>4. TypeOK'
    BY <1>1, <1>2 DEF TypeOK, EnqueueInserts
  <1>5. WriteSerial'
    BY <1>2, <1>3 DEF WriteSerial, IsWrite
  <1>6. OwnsRunning'
    BY <1>2 DEF OwnsRunning, Idle, EnqueueInserts
  <1>7. AttemptsBounded'
    BY <1>2, <1>3, TableAssumption DEF AttemptsBounded
  <1>8. QED
    BY <1>4, <1>5, <1>6, <1>7

\* The steps that leave the table and give no thread a job.
LEMMA OtherIInv ==
    ASSUME IInv,
           \/ \E c \in Callers, r \in Requests : EnqueueSkips(c, r) \/ EnqueueSelects(c, r)
           \/ \E dead \in SUBSET Workers : Die(dead)
           \/ UNCHANGED vars
    PROVE  IInv'
  <1> USE DEF IInv
  <1>1. jobs' = jobs /\ refused' = refused
    BY DEF EnqueueSkips, EnqueueSelects, Die, vars
  <1>2. \A w \in Workers : exec'[w] \in {0, exec[w]}
    BY DEF EnqueueSkips, EnqueueSelects, Die, vars, TypeOK
  <1>3. exec' \in [Workers -> Nat]
    BY DEF EnqueueSkips, EnqueueSelects, Die, vars, TypeOK
  <1>4. waiting' \subseteq {Key(r) : r \in Requests}
    BY DEF EnqueueSkips, EnqueueSelects, Die, vars, TypeOK
  <1>5. call' \in [Callers -> Requests \cup {None}]
    BY DEF EnqueueSkips, EnqueueSelects, Die, vars, TypeOK
  <1>6. TypeOK'
    BY <1>1, <1>3, <1>4, <1>5 DEF TypeOK, Ids
  <1>7. OwnsRunning'
    BY <1>1, <1>2 DEF OwnsRunning, Idle, Ids
  <1>8. QED
    BY <1>1, <1>6, <1>7 DEF WriteSerial, AttemptsBounded, IsWrite, Ids

LEMMA NextIInv == IInv /\ [Next]_vars => IInv'
  BY ClaimIInv, CompleteIInv, FailIInv, ElapseIInv, RetryIInv, InsertIInv, OtherIInv
     DEF Next

\* Every reachable state satisfies the inductive invariant.
THEOREM Invariance == Spec => []IInv
  BY InitIInv, NextIInv, PTL DEF Spec

\* Every variable always holds a value of its type.
THEOREM TypeCorrect == Spec => []TypeOK
  <1>1. IInv => TypeOK
    BY DEF IInv
  <1>2. QED
    BY <1>1, Invariance, PTL

\* Rows of write jobs of one project are never running together.
THEOREM SerialWrites == Spec => []WriteSerial
  <1>1. IInv => WriteSerial
    BY DEF IInv
  <1>2. QED
    BY <1>1, Invariance, PTL

\* The rows claim reads say truthfully which threads are inside handlers, so the
\* test it makes keeps any two threads out of one project's write handlers.
THEOREM Exclusion == Spec => []ExclusiveExecution
  <1>1. IInv => ExclusiveExecution
    BY DEF IInv, OwnsRunning, WriteSerial, ExclusiveExecution
  <1>2. QED
    BY <1>1, Invariance, PTL

\* A thread's job is running and nobody else's, whatever dies and is replaced.
THEOREM Ownership == Spec => []OwnsRunning
  <1>1. IInv => OwnsRunning
    BY DEF IInv
  <1>2. QED
    BY <1>1, Invariance, PTL

\* No submission is attempted more than max_attempts times.
THEOREM BoundedAttempts == Spec => []AttemptsBounded
  <1>1. IInv => AttemptsBounded
    BY DEF IInv
  <1>2. QED
    BY <1>1, Invariance, PTL

(***************************************************************************)
(* Debouncing.                                                             *)
(***************************************************************************)
\* A key is still queued after a step on a row that was not what queued it.
LEMMA QueuedKept ==
    ASSUME NEW i \in Ids, NEW r, Sets(i, r), NEW k, IsQueued(k),
           \/ jobs[i].status # "queued"
           \/ Key(jobs[i]) # k
           \/ r.status = "queued" /\ Key(r) = Key(jobs[i])
    PROVE  IsQueued(k)'
  <1>1. PICK j \in Ids : jobs[j].status = "queued" /\ Key(jobs[j]) = k
    BY DEF IsQueued
  <1>2. j \in Ids' /\ jobs'[j].status = "queued" /\ Key(jobs'[j]) = k
    BY <1>1 DEF Sets
  <1>3. QED
    BY <1>2 DEF IsQueued

\* Nothing is taken from the callers between their SELECT and their INSERT.
LEMMA CoveredKept ==
    ASSUME RequestsCovered, call' = call, waiting' \subseteq waiting,
           \A k \in waiting' : IsQueued(k) => IsQueued(k)'
    PROVE  RequestsCovered'
  BY DEF RequestsCovered, Inserting

LEMMA ClaimCovered ==
    ASSUME IInv, RequestsCovered, NEW w \in Workers, Claim(w)
    PROVE  RequestsCovered'
  <1>1. PICK i \in Ids : ClaimRow(i) /\ waiting' = waiting \ {Key(jobs[i])}
    BY DEF Claim
  <1>2. Sets(i, [jobs[i] EXCEPT !.status = "running", !.attempts = @ + 1])
    BY <1>1, ClaimSets DEF IInv, TypeOK
  <1>3. \A k \in waiting' : IsQueued(k) => IsQueued(k)'
    BY <1>1, <1>2, QueuedKept
  <1>4. QED
    BY <1>1, <1>3, CoveredKept DEF Claim

LEMMA EndCovered ==
    ASSUME IInv, RequestsCovered, NEW w \in Workers,
           Complete(w) \/ \E permanent \in BOOLEAN : Fail(w, permanent)
    PROVE  RequestsCovered'
  <1>1. exec[w] \in Ids /\ jobs[exec[w]].status = "running" /\ jobs \in Seq(Row)
    BY DEF IInv, OwnsRunning, TypeOK, Complete, Fail
  <1>2. \E r : Sets(exec[w], r)
    BY <1>1, CompleteSets, FailSets DEF Complete, Fail
  <1>3. \A k \in waiting' : IsQueued(k) => IsQueued(k)'
    BY <1>1, <1>2, QueuedKept
  <1>4. QED
    BY <1>3, CoveredKept DEF Complete, Fail, Release

LEMMA ElapseCovered ==
    ASSUME IInv, RequestsCovered, NEW i \in Ids, Elapse(i)
    PROVE  RequestsCovered'
  <1> DEFINE r == [jobs[i] EXCEPT !.due = TRUE]
  <1>1. Sets(i, r)
    BY ElapseSets DEF IInv, TypeOK, Elapse
  <1>2. jobs[i] \in Row
    BY DEF IInv, TypeOK, Ids
  <1>3. r.status = "queued" /\ Key(r) = Key(jobs[i])
    BY <1>2 DEF Elapse, BackoffElapses, Key, Row
  <1> HIDE DEF r
  <1>4. \A k \in waiting' : IsQueued(k) => IsQueued(k)'
    BY <1>1, <1>3, QueuedKept
  <1>5. QED
    BY <1>4, CoveredKept DEF Elapse

LEMMA RetryCovered ==
    ASSUME IInv, RequestsCovered, NEW i \in Ids, Retry(i)
    PROVE  RequestsCovered'
  <1>1. \A k \in waiting' : IsQueued(k) => IsQueued(k)'
    <2>1. CASE ~RetryCommits
      BY <2>1 DEF Retry, RetryRow, IsQueued, Ids
    <2>2. CASE RetryCommits
      BY <2>2, RetrySets, QueuedKept DEF IInv, TypeOK, Retry
    <2>3. QED
      BY <2>1, <2>2
  <1>2. QED
    BY <1>1, CoveredKept DEF Retry

LEMMA InsertCovered ==
    ASSUME IInv, RequestsCovered, NEW c \in Callers, EnqueueInserts(c)
    PROVE  RequestsCovered'
  <1> DEFINE n == Len(jobs) + 1
  <1>1. call[c] \in Request
    BY QueueAssumption DEF IInv, TypeOK, EnqueueInserts
  <1>2. /\ Ids' = Ids \cup {n} /\ jobs'[n] = NewRow(call[c])
        /\ \A j \in Ids : jobs'[j] = jobs[j]
    BY <1>1, InsertAppends DEF IInv, TypeOK, EnqueueInserts
  <1> HIDE DEF n
  <1> PICK q : q = Key(call[c])
    OBVIOUS
  <1>3. IsQueued(q)'
    <2>1. n \in Ids' /\ jobs'[n].status = "queued" /\ Key(jobs'[n]) = q
      BY <1>2 DEF NewRow, Key
    <2>2. \E j \in Ids' : jobs'[j].status = "queued" /\ Key(jobs'[j]) = q
      BY <2>1
    <2>3. QED
      BY <2>2 DEF IsQueued
  <1>4. \A k : IsQueued(k) => IsQueued(k)'
    BY <1>2 DEF IsQueued
  <1>5. waiting' = waiting /\ \A d \in Callers : d # c => call'[d] = call[d]
    BY DEF IInv, TypeOK, EnqueueInserts
  <1>6. ASSUME NEW k \in waiting
        PROVE  IsQueued(k)' \/ \E d \in Inserting' : Key(call'[d]) = k
    <2>1. CASE IsQueued(k)
      BY <1>4, <2>1
    <2>2. CASE \E d \in Inserting : Key(call[d]) = k
      <3>1. PICK d \in Inserting : Key(call[d]) = k
        BY <2>2
      <3>2. CASE d = c
        BY <1>3, <3>1, <3>2
      <3>3. CASE d # c
        BY <1>5, <3>1, <3>3 DEF Inserting
      <3>4. QED
        BY <3>2, <3>3
    <2>3. QED
      BY <2>1, <2>2 DEF RequestsCovered
  <1>7. QED
    BY <1>5, <1>6 DEF RequestsCovered

LEMMA EnqueueCovered ==
    ASSUME IInv, RequestsCovered, NEW c \in Callers, NEW r \in Requests,
           EnqueueSkips(c, r) \/ EnqueueSelects(c, r)
    PROVE  RequestsCovered'
  <1>1. jobs' = jobs /\ waiting' = waiting \cup {Key(r)}
    BY DEF EnqueueSkips, EnqueueSelects
  <1>2. \A k : IsQueued(k)' <=> IsQueued(k)
    BY <1>1 DEF IsQueued, Ids
  <1>3. CASE EnqueueSkips(c, r)
    <2>1. call' = call /\ IsQueued(Key(r))
      BY <1>3 DEF EnqueueSkips
    <2>2. QED
      BY <1>1, <1>2, <2>1 DEF RequestsCovered, Inserting
  <1>4. CASE EnqueueSelects(c, r)
    <2>1. call[c] = None /\ call'[c] = r /\ \A d \in Callers : d # c => call'[d] = call[d]
      BY <1>4 DEF EnqueueSelects, IInv, TypeOK
    <2>2. r # None
      BY QueueAssumption
    <2>3. c \in Inserting' /\ Key(call'[c]) = Key(r)
      BY <2>1, <2>2 DEF Inserting
    <2>4. \A d \in Inserting : d \in Inserting' /\ call'[d] = call[d]
      BY <2>1 DEF Inserting
    <2>5. QED
      BY <1>1, <1>2, <2>3, <2>4 DEF RequestsCovered
  <1>5. QED
    BY <1>3, <1>4

LEMMA NextCovered == IInv /\ RequestsCovered /\ [Next]_vars => RequestsCovered'
  <1> SUFFICES ASSUME IInv, RequestsCovered, [Next]_vars
               PROVE  RequestsCovered'
    OBVIOUS
  <1>1. CASE (\E dead \in SUBSET Workers : Die(dead)) \/ UNCHANGED vars
    <2>1. jobs' = jobs /\ call' = call /\ waiting' = waiting
      BY <1>1 DEF Die, vars
    <2>2. QED
      BY <2>1 DEF RequestsCovered, Inserting, IsQueued, Ids
  <1>2. QED
    BY <1>1, ClaimCovered, EndCovered, ElapseCovered, RetryCovered, InsertCovered,
       EnqueueCovered DEF Next

\* A request that debouncing skipped, or that another caller raced, is never left
\* without a job that will be claimed after it was made.
THEOREM NoRequestLost == Spec => []RequestsCovered
  <1>1. Init => RequestsCovered
    BY DEF Init, RequestsCovered
  <1>2. QED
    BY <1>1, NextCovered, Invariance, PTL DEF Spec

(***************************************************************************)
(* Rows without a thread: there are none as long as threads do not die.    *)
(***************************************************************************)
\* A thread that ends its job leaves it in another status.
LEMMA EndSets ==
    ASSUME IInv, NEW w \in Workers, NEW permanent \in BOOLEAN,
           Complete(w) \/ Fail(w, permanent)
    PROVE  /\ exec[w] \in Ids
           /\ \E r \in Row : /\ Sets(exec[w], r)
                            /\ r.type = jobs[exec[w]].type
                            /\ r.status # "running"
  <1> DEFINE i == exec[w]
             d == [jobs[i] EXCEPT !.status = "done"]
             f == IF permanent \/ Exhausted(i)
                  THEN [jobs[i] EXCEPT !.status = "failed"]
                  ELSE [jobs[i] EXCEPT !.status = "queued", !.due = FALSE]
  <1>1. i \in Ids /\ jobs[i] \in Row /\ jobs \in Seq(Row)
    BY DEF IInv, TypeOK, OwnsRunning, Complete, Fail, Ids
  <1>2. CASE Complete(w)
    <2>1. Sets(i, d) /\ d.type = jobs[i].type /\ d.status # "running"
      BY <1>1, <1>2, CompleteSets DEF Complete, Row
    <2> HIDE DEF d
    <2>2. QED
      BY <1>1, <2>1 DEF Sets
  <1>3. CASE Fail(w, permanent)
    <2>1. Sets(i, f) /\ f.type = jobs[i].type /\ f.status # "running"
      BY <1>1, <1>3, FailSets DEF Fail, Row
    <2> HIDE DEF f
    <2>2. QED
      BY <1>1, <2>1 DEF Sets
  <1>4. QED
    BY <1>2, <1>3

\* A new row is queued, and leaves the others as they are.
LEMMA InsertKeeps ==
    ASSUME IInv, NEW c \in Callers, EnqueueInserts(c)
    PROVE  /\ \A i \in Ids : i \in Ids' /\ jobs'[i] = jobs[i]
           /\ \A i \in Ids' \ Ids : jobs'[i].status = "queued"
  <1>1. call[c] \in Request /\ InsertRow(call[c]) /\ jobs \in Seq(Row)
    BY QueueAssumption DEF IInv, TypeOK, EnqueueInserts
  <1>2. /\ Ids' = Ids \cup {Len(jobs) + 1}
        /\ jobs'[Len(jobs) + 1] = NewRow(call[c])
        /\ \A j \in Ids : jobs'[j] = jobs[j]
    BY <1>1, InsertAppends
  <1>3. NewRow(call[c]).status = "queued"
    BY DEF NewRow
  <1>4. QED
    BY <1>2, <1>3

\* What each step does to rows that exist: their types stay, and a row only starts
\* running when a thread takes it.
LEMMA RowsKept ==
    ASSUME IInv, [Next]_vars
    PROVE  \A i \in Ids :
             /\ i \in Ids'
             /\ jobs'[i].type = jobs[i].type
             /\ jobs'[i].status = "running" =>
                   jobs[i].status = "running" \/ \E w \in Workers : exec'[w] = i
  <1>1. /\ jobs \in Seq(Row) /\ exec \in [Workers -> Nat] /\ Ids \subseteq Nat \ {0}
        /\ \A i \in Ids : jobs[i] \in Row
    BY DEF IInv, TypeOK, Ids
  <1>2. CASE jobs' = jobs
    BY <1>2 DEF Ids
  <1>3. ASSUME NEW w \in Workers, Claim(w)
        PROVE  \E i \in Ids, r \in Row : Sets(i, r) /\ r.type = jobs[i].type /\ exec'[w] = i
    <2>1. PICK i \in Ids : ClaimRow(i) /\ exec' = [exec EXCEPT ![w] = i]
      BY <1>3 DEF Claim
    <2> DEFINE r == [jobs[i] EXCEPT !.status = "running", !.attempts = @ + 1]
    <2>2. Sets(i, r) /\ r.type = jobs[i].type
      BY <1>1, <2>1, ClaimSets DEF Row
    <2> HIDE DEF r
    <2>3. r \in Row /\ exec'[w] = i
      BY <1>1, <2>1, <2>2 DEF Sets
    <2>4. QED
      BY <2>2, <2>3
  <1>4. ASSUME NEW i \in Ids, Elapse(i) \/ (Retry(i) /\ RetryCommits)
        PROVE  \E r \in Row : Sets(i, r) /\ r.type = jobs[i].type /\ r.status # "running"
    <2> DEFINE e == [jobs[i] EXCEPT !.due = TRUE]
               q == [jobs[i] EXCEPT !.status = "queued", !.attempts = 0, !.due = TRUE]
    <2>1. CASE Elapse(i)
      <3>1. Sets(i, e) /\ e.type = jobs[i].type /\ e.status # "running"
        BY <1>1, <2>1, ElapseSets DEF Elapse, BackoffElapses, Row
      <3> HIDE DEF e
      <3>2. QED
        BY <3>1 DEF Sets
    <2>2. CASE Retry(i) /\ RetryCommits
      <3>1. Sets(i, q) /\ q.type = jobs[i].type /\ q.status # "running"
        BY <1>1, <2>2, RetrySets DEF Retry, Row
      <3> HIDE DEF q
      <3>2. QED
        BY <3>1 DEF Sets
    <2>3. QED
      BY <1>4, <2>1, <2>2
  <1>5. \/ jobs' = jobs
        \/ \E c \in Callers : EnqueueInserts(c)
        \/ \E w \in Workers : Claim(w)
        \/ \E w \in Workers, permanent \in BOOLEAN : Complete(w) \/ Fail(w, permanent)
        \/ \E i \in Ids : Elapse(i) \/ (Retry(i) /\ RetryCommits)
    BY DEF Next, vars, EnqueueSkips, EnqueueSelects, Die, Retry, RetryRow
  <1>6. CASE \E c \in Callers : EnqueueInserts(c)
    BY <1>6, InsertKeeps
  <1>7. CASE \E w \in Workers : Claim(w)
    BY <1>3, <1>7 DEF Sets
  <1>8. CASE \E w \in Workers, permanent \in BOOLEAN : Complete(w) \/ Fail(w, permanent)
    BY <1>8, EndSets DEF Sets
  <1>9. CASE \E i \in Ids : Elapse(i) \/ (Retry(i) /\ RetryCommits)
    BY <1>4, <1>9 DEF Sets
  <1>10. QED
    BY <1>2, <1>5, <1>6, <1>7, <1>8, <1>9

\* Only a thread that ends its job takes a row out of exec.
LEMMA NextOrphan ==
    ASSUME ~Crashes
    PROVE  IInv /\ NoOrphan /\ [Next]_vars => NoOrphan'
  <1> SUFFICES ASSUME IInv, NoOrphan, [Next]_vars,
                      NEW i \in Ids', jobs'[i].status = "running"
               PROVE  \E w \in Workers : exec'[w] = i
    BY DEF NoOrphan
  <1>1. exec \in [Workers -> Nat] /\ Ids \subseteq Nat \ {0}
    BY DEF IInv, TypeOK, Ids
  <1>2. i \in Ids
    <2>1. CASE \E c \in Callers : EnqueueInserts(c)
      BY <2>1, InsertKeeps
    <2>2. CASE ~\E c \in Callers : EnqueueInserts(c)
      <3>1. CASE jobs' = jobs
        BY <3>1 DEF Ids
      <3>2. CASE \E w \in Workers, permanent \in BOOLEAN : Complete(w) \/ Fail(w, permanent)
        BY <3>2, EndSets DEF Sets
      <3>3. CASE \E w \in Workers : Claim(w)
        BY <3>3 DEF Claim, ClaimRow, Ids
      <3>4. CASE \E j \in Ids : Elapse(j) \/ Retry(j)
        BY <3>4 DEF Elapse, BackoffElapses, Retry, RetryRow, Ids
      <3>5. QED
        BY <2>2, <3>1, <3>2, <3>3, <3>4
        DEF Next, vars, EnqueueSkips, EnqueueSelects, Die
    <2>3. QED
      BY <2>1, <2>2
  <1>3. CASE jobs[i].status = "running"
    <2>1. PICK w \in Workers : exec[w] = i
      BY <1>2, <1>3 DEF NoOrphan
    <2>2. ASSUME NEW v \in Workers, NEW permanent \in BOOLEAN,
                 Complete(v) \/ Fail(v, permanent)
          PROVE  exec'[w] = i
      <3>1. v # w
        BY <2>1, <2>2, EndSets DEF Sets
      <3>2. QED
        BY <1>1, <2>1, <2>2, <3>1 DEF Complete, Fail, Release
    <2>3. ASSUME NEW v \in Workers, Claim(v)
          PROVE  exec'[w] = i
      <3>1. v # w
        BY <1>1, <1>2, <2>1, <2>3 DEF Claim, Idle
      <3>2. QED
        BY <1>1, <2>1, <2>3, <3>1 DEF Claim
    <2>4. CASE exec' = exec
      BY <2>1, <2>4
    <2>5. QED
      BY <2>2, <2>3, <2>4
      DEF Next, vars, EnqueueSkips, EnqueueSelects, EnqueueInserts, Die, Elapse, Retry
  <1>4. CASE jobs[i].status # "running"
    BY <1>2, <1>4, RowsKept
  <1>5. QED
    BY <1>3, <1>4

\* Without deaths of threads, every row that says "running" has a thread that runs it:
\* what is left behind in the table is left by deaths alone.
THEOREM NoneOrphaned ==
    ASSUME ~Crashes
    PROVE  Spec => []NoOrphan
  <1>1. Init => NoOrphan
    BY DEF Init, NoOrphan, Ids
  <1>2. IInv /\ NoOrphan /\ [Next]_vars => NoOrphan'
    BY NextOrphan
  <1>3. QED
    BY <1>1, <1>2, Invariance, PTL DEF Spec

(***************************************************************************)
(* The refinement of JobLifecycle.                                         *)
(***************************************************************************)
\* The view of a row is a job of the abstract specification.
LEMMA ViewOfRow ==
    ASSUME NEW r \in Row
    PROVE  /\ View(r) \in Life!Job
           /\ View(r).project = r.project
           /\ View(r).write = (r.type \in WRITE_TYPES)
           /\ View(r).phase = r.status
           /\ View(r).tries = r.attempts
  BY DEF View, Row, Statuses, Life!Job, Life!Phases

\* Changing phase and tries of an abstract job keeps the rest.
LEMMA TwoFields ==
    ASSUME NEW v \in Life!Job, NEW f \in Life!Phases, NEW n \in Nat
    PROVE  [v EXCEPT !.phase = f, !.tries = n]
         = [project |-> v.project, write |-> v.write, phase |-> f, tries |-> n]
  <1> DEFINE u == [v EXCEPT !.phase = f]
  <1>1. u = [project |-> v.project, write |-> v.write, phase |-> f, tries |-> v.tries]
    BY DEF Life!Job
  <1>2. [v EXCEPT !.phase = f, !.tries = n] = [u EXCEPT !.tries = n]
    OBVIOUS
  <1> HIDE DEF u
  <1>3. [u EXCEPT !.tries = n]
        = [project |-> v.project, write |-> v.write, phase |-> f, tries |-> n]
    BY <1>1
  <1>4. QED
    BY <1>2, <1>3

\* The views of the table are a sequence of abstract jobs.
LEMMA LifeOfTable ==
    ASSUME jobs \in Seq(Row)
    PROVE  /\ LifeOf \in Seq(Life!Job)
           /\ DOMAIN LifeOf = Ids
           /\ Len(LifeOf) = Len(jobs)
           /\ \A i \in Ids : LifeOf[i] = View(jobs[i])
  <1>1. Ids = 1..Len(jobs) /\ Len(jobs) \in Nat
    BY DEF Ids
  <1>2. \A i \in Ids : View(jobs[i]) \in Life!Job
    BY ViewOfRow DEF Ids
  <1>3. QED
    BY <1>1, <1>2 DEF LifeOf

\* A step on one row is a step on one abstract job.
LEMMA SetsView ==
    ASSUME jobs \in Seq(Row), NEW i \in Ids, NEW r, Sets(i, r)
    PROVE  LifeOf' = [LifeOf EXCEPT ![i] = View(r)]
  BY DEF Sets, LifeOf

\* The abstract write lock is the one claim tests.
LEMMA WritingView ==
    ASSUME jobs \in Seq(Row), NEW p
    PROVE  Life!Writing(p) = RunningWrite(p)
  <1>1. \A i \in Ids : /\ LifeOf[i].phase = jobs[i].status
                      /\ LifeOf[i].project = jobs[i].project
                      /\ LifeOf[i].write = IsWrite(i)
    BY LifeOfTable, ViewOfRow DEF IsWrite, Ids
  <1>2. QED
    BY <1>1, LifeOfTable DEF Life!Writing, Life!Jobs, RunningWrite

LEMMA ClaimStarts ==
    ASSUME IInv, NEW w \in Workers, Claim(w)
    PROVE  \E i \in Life!Jobs : Life!Start(i)
  <1>1. PICK i \in Ids : ClaimRow(i)
    BY DEF Claim
  <1>2. jobs \in Seq(Row) /\ jobs[i] \in Row /\ Claimable(i)
    BY <1>1 DEF IInv, TypeOK, Ids, ClaimRow, IsNext
  <1> DEFINE r == [jobs[i] EXCEPT !.status = "running", !.attempts = @ + 1]
  <1>3. LifeOf' = [LifeOf EXCEPT ![i] = View(r)]
    BY <1>1, <1>2, ClaimSets, SetsView
  <1>4. /\ r.status = "running" /\ r.attempts = jobs[i].attempts + 1
        /\ r.type = jobs[i].type /\ r.project = jobs[i].project
    BY <1>2 DEF Row
  <1> HIDE DEF r
  <1>5. View(r) = [View(jobs[i]) EXCEPT !.phase = "running", !.tries = @ + 1]
    <2>1. View(jobs[i]) \in Life!Job /\ View(jobs[i]).tries = jobs[i].attempts
      BY <1>2, ViewOfRow
    <2>2. "running" \in Life!Phases /\ jobs[i].attempts + 1 \in Nat
      BY <1>2 DEF Life!Phases, Row
    <2>3. [View(jobs[i]) EXCEPT !.phase = "running", !.tries = @ + 1]
          = [project |-> View(jobs[i]).project, write |-> View(jobs[i]).write,
             phase |-> "running", tries |-> jobs[i].attempts + 1]
      BY <2>1, <2>2, TwoFields
    <2>4. QED
      BY <1>2, <1>4, <2>3, ViewOfRow DEF View
  <1>6. LifeOf[i] = View(jobs[i]) /\ i \in Life!Jobs
    BY <1>2, LifeOfTable DEF Life!Jobs
  <1>7. LifeOf' = [LifeOf EXCEPT ![i].phase = "running", ![i].tries = @ + 1]
    BY <1>2, <1>3, <1>5, <1>6, LifeOfTable
  <1>8. LifeOf[i].phase = "queued" /\ LifeOf[i].tries < MaxAttempts
    BY <1>2, <1>6, ViewOfRow DEF Claimable, IInv, AttemptsBounded
  <1>9. LifeOf[i].write => Life!Writing(LifeOf[i].project) = {}
    BY <1>2, <1>6, ViewOfRow, WritingView DEF Claimable, IsWrite
  <1>10. QED
    BY <1>6, <1>7, <1>8, <1>9 DEF Life!Start

LEMMA CompleteFinishes ==
    ASSUME IInv, NEW w \in Workers, Complete(w)
    PROVE  \E i \in Life!Jobs : Life!Finish(i)
  <1> DEFINE i == exec[w]
             r == [jobs[i] EXCEPT !.status = "done"]
  <1>1. /\ i \in Ids /\ jobs[i].status = "running"
        /\ jobs \in Seq(Row) /\ jobs[i] \in Row
    BY DEF IInv, OwnsRunning, Complete, TypeOK, Ids
  <1>2. LifeOf' = [LifeOf EXCEPT ![i] = View(r)]
    BY <1>1, CompleteSets, SetsView DEF Complete
  <1>3. View(r) = [View(jobs[i]) EXCEPT !.phase = "done"]
    BY <1>1 DEF View, Row
  <1> HIDE DEF r, i
  <1>4. LifeOf[i] = View(jobs[i]) /\ i \in Life!Jobs
    BY <1>1, LifeOfTable DEF Life!Jobs
  <1>5. LifeOf' = [LifeOf EXCEPT ![i].phase = "done"]
    BY <1>2, <1>3, <1>4, <1>1, LifeOfTable
  <1>6. QED
    BY <1>1, <1>4, <1>5, ViewOfRow DEF Life!Finish

LEMMA FailEnds ==
    ASSUME IInv, NEW w \in Workers, NEW permanent \in BOOLEAN, Fail(w, permanent)
    PROVE  \E i \in Life!Jobs : Life!Finish(i) \/ Life!Postpone(i)
  <1> DEFINE i == exec[w]
  <1>1. /\ i \in Ids /\ jobs[i].status = "running"
        /\ jobs \in Seq(Row) /\ jobs[i] \in Row
    BY DEF IInv, OwnsRunning, Fail, TypeOK, Ids
  <1>2. LifeOf[i] = View(jobs[i]) /\ i \in Life!Jobs
    BY <1>1, LifeOfTable DEF Life!Jobs
  <1>3. CASE permanent \/ Exhausted(i)
    <2> DEFINE r == [jobs[i] EXCEPT !.status = "failed"]
    <2>1. LifeOf' = [LifeOf EXCEPT ![i] = View(r)]
      BY <1>1, <1>3, FailSets, SetsView DEF Fail
    <2>2. View(r) = [View(jobs[i]) EXCEPT !.phase = "failed"]
      BY <1>1 DEF View, Row
    <2> HIDE DEF r, i
    <2>3. LifeOf' = [LifeOf EXCEPT ![i].phase = "failed"]
      BY <2>1, <2>2, <1>1, <1>2, LifeOfTable
    <2>4. QED
      BY <1>1, <1>2, <2>3, ViewOfRow DEF Life!Finish
  <1>4. CASE ~(permanent \/ Exhausted(i))
    <2> DEFINE r == [jobs[i] EXCEPT !.status = "queued", !.due = FALSE]
    <2>1. LifeOf' = [LifeOf EXCEPT ![i] = View(r)]
      BY <1>1, <1>4, FailSets, SetsView DEF Fail
    <2>2. /\ r.status = "queued" /\ r.attempts = jobs[i].attempts
          /\ r.type = jobs[i].type /\ r.project = jobs[i].project
      BY <1>1 DEF Row
    <2>3. View(r) = [View(jobs[i]) EXCEPT !.phase = "queued"]
      BY <2>2 DEF View
    <2>4. LifeOf[i].tries < MaxAttempts
      BY <1>1, <1>2, <1>4, ViewOfRow, TableAssumption DEF Exhausted, Row
    <2> HIDE DEF r, i
    <2>5. LifeOf' = [LifeOf EXCEPT ![i].phase = "queued"]
      BY <2>1, <2>3, <1>1, <1>2, LifeOfTable
    <2>6. QED
      BY <1>1, <1>2, <2>4, <2>5, ViewOfRow DEF Life!Postpone
  <1>5. QED
    BY <1>3, <1>4

LEMMA ElapseStutters ==
    ASSUME IInv, NEW i \in Ids, Elapse(i)
    PROVE  LifeOf' = LifeOf
  <1> DEFINE r == [jobs[i] EXCEPT !.due = TRUE]
  <1>1. jobs \in Seq(Row) /\ jobs[i] \in Row
    BY DEF IInv, TypeOK, Ids
  <1>2. LifeOf' = [LifeOf EXCEPT ![i] = View(r)]
    BY <1>1, ElapseSets, SetsView DEF Elapse
  <1>3. View(r) = View(jobs[i])
    BY <1>1 DEF View, Row
  <1>4. QED
    BY <1>1, <1>2, <1>3, LifeOfTable

LEMMA RetryResubmits ==
    ASSUME IInv, NEW i \in Ids, Retry(i)
    PROVE  (i \in Life!Jobs /\ Life!Resubmit(i)) \/ LifeOf' = LifeOf
  <1>1. jobs \in Seq(Row) /\ jobs[i] \in Row /\ jobs[i].status = "failed"
    BY DEF IInv, TypeOK, Ids, Retry
  <1>2. CASE ~RetryCommits
    BY <1>2 DEF Retry, RetryRow, LifeOf, Ids
  <1>3. CASE RetryCommits
    <2> DEFINE r == [jobs[i] EXCEPT !.status = "queued", !.attempts = 0, !.due = TRUE]
    <2>1. LifeOf' = [LifeOf EXCEPT ![i] = View(r)]
      BY <1>1, <1>3, RetrySets, SetsView DEF Retry
    <2>2. /\ r.status = "queued" /\ r.attempts = 0
          /\ r.type = jobs[i].type /\ r.project = jobs[i].project
      BY <1>1 DEF Row
    <2> HIDE DEF r
    <2>3. View(r) = [View(jobs[i]) EXCEPT !.phase = "queued", !.tries = 0]
      <3>1. View(jobs[i]) \in Life!Job /\ "queued" \in Life!Phases
        BY <1>1, ViewOfRow DEF Life!Phases
      <3>2. [View(jobs[i]) EXCEPT !.phase = "queued", !.tries = 0]
            = [project |-> View(jobs[i]).project, write |-> View(jobs[i]).write,
               phase |-> "queued", tries |-> 0]
        BY <3>1, TwoFields
      <3>3. QED
        BY <1>1, <2>2, <3>2, ViewOfRow DEF View
    <2>4. LifeOf[i] = View(jobs[i]) /\ i \in Life!Jobs
      BY <1>1, LifeOfTable DEF Life!Jobs
    <2>5. LifeOf' = [LifeOf EXCEPT ![i].phase = "queued", ![i].tries = 0]
      BY <2>1, <2>3, <2>4, <1>1, LifeOfTable
    <2>6. QED
      BY <1>1, <2>4, <2>5, ViewOfRow DEF Life!Resubmit
  <1>4. QED
    BY <1>2, <1>3

LEMMA InsertSubmits ==
    ASSUME IInv, NEW c \in Callers, EnqueueInserts(c)
    PROVE  \E p \in Projects, write \in BOOLEAN : Life!Submit(p, write)
  <1> PICK r : r = call[c]
    OBVIOUS
  <1>1. r \in Request /\ jobs \in Seq(Row) /\ InsertRow(r)
    BY QueueAssumption DEF IInv, TypeOK, EnqueueInserts
  <1>2. /\ jobs' \in Seq(Row) /\ Ids' = Ids \cup {Len(jobs) + 1}
        /\ NewRow(r) \in Row
        /\ jobs'[Len(jobs) + 1] = NewRow(r)
        /\ \A j \in Ids : jobs'[j] = jobs[j]
    BY <1>1, InsertAppends
  <1>3. LifeOf' = Append(LifeOf, View(NewRow(r)))
    <2>1. Len(LifeOf) = Len(jobs) /\ LifeOf \in Seq(Life!Job) /\ View(NewRow(r)) \in Life!Job
      BY <1>1, <1>2, LifeOfTable, ViewOfRow
    <2>2. LifeOf' = [i \in Ids' |-> View(jobs'[i])]
      BY DEF LifeOf
    <2>3. Ids = 1..Len(jobs) /\ Ids' = 1..(Len(jobs) + 1) /\ Len(jobs) \in Nat
      BY <1>1, <1>2 DEF Ids
    <2>4. \A i \in Ids : LifeOf[i] = View(jobs[i])
      BY <1>1, LifeOfTable
    <2> DEFINE v == View(NewRow(r))
               n == Len(jobs) + 1
    <2>5. \A i \in 1..n : View(jobs'[i]) = IF i = n THEN v ELSE LifeOf[i]
      <3>1. View(jobs'[n]) = v
        BY <1>2
      <3>2. \A i \in Ids : View(jobs'[i]) = LifeOf[i] /\ i # n
        BY <1>2, <2>3, <2>4
      <3>3. 1..n = Ids \cup {n}
        BY <2>3
      <3> HIDE DEF v, n
      <3>4. QED
        BY <3>1, <3>2, <3>3
    <2>6. LifeOf' = [i \in 1..n |-> IF i = n THEN v ELSE LifeOf[i]]
      BY <2>2, <2>3, <2>5
    <2>7. Append(LifeOf, v) = [i \in 1..n |-> IF i = n THEN v ELSE LifeOf[i]]
      <3>1. v \in Life!Job
        BY <2>1
      <3> HIDE DEF v
      <3>2. Append(LifeOf, v)
            = [i \in 1..(Len(LifeOf) + 1) |-> IF i = Len(LifeOf) + 1 THEN v ELSE LifeOf[i]]
        BY <2>1, <3>1, AppendIs
      <3>3. QED
        BY <2>1, <3>2
    <2>8. QED
      BY <2>6, <2>7 DEF v
  <1>4. View(NewRow(r)) = [project |-> r.project, write |-> r.type \in WRITE_TYPES,
                          phase |-> "queued", tries |-> 0]
    BY DEF View, NewRow
  <1>5. r.project \in Projects /\ (r.type \in WRITE_TYPES) \in BOOLEAN
    BY <1>1 DEF Request
  <1>6. QED
    BY <1>3, <1>4, <1>5 DEF Life!Submit

LEMMA NextLife == IInv /\ [Next]_vars => [Life!Next]_LifeOf
  <1> SUFFICES ASSUME IInv, [Next]_vars
               PROVE  [Life!Next]_LifeOf
    OBVIOUS
  <1>1. CASE \E c \in Callers, r \in Requests : EnqueueSkips(c, r) \/ EnqueueSelects(c, r)
    BY <1>1 DEF EnqueueSkips, EnqueueSelects, LifeOf, Ids
  <1>2. CASE (\E dead \in SUBSET Workers : Die(dead)) \/ UNCHANGED vars
    BY <1>2 DEF Die, vars, LifeOf, Ids
  <1>3. CASE \E c \in Callers : EnqueueInserts(c)
    BY <1>3, InsertSubmits DEF Life!Next
  <1>4. CASE \E w \in Workers : Claim(w) \/ Complete(w)
    BY <1>4, ClaimStarts, CompleteFinishes DEF Life!Next
  <1>5. CASE \E w \in Workers, permanent \in BOOLEAN : Fail(w, permanent)
    BY <1>5, FailEnds DEF Life!Next
  <1>6. CASE \E i \in Ids : Elapse(i) \/ Retry(i)
    BY <1>6, ElapseStutters, RetryResubmits DEF Life!Next
  <1>7. QED
    BY <1>1, <1>2, <1>3, <1>4, <1>5, <1>6 DEF Next

\* The queue implements the abstract lifecycle of jobs: whatever callers, threads,
\* deaths and retries do, a job only moves as JobLifecycle allows.
THEOREM Implements == Spec => Lifecycle
  <1>1. Init => Life!Init
    BY DEF Init, Life!Init, LifeOf, Ids
  <1>2. QED
    BY <1>1, NextLife, Invariance, PTL DEF Spec, Lifecycle, Life!Spec
=============================================================================
