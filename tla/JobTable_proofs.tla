-------------------------- MODULE JobTable_proofs --------------------------
(* What the statements on the jobs table do to it, for every table. *)
EXTENDS JobTable, TLAPS

\* Updating one row keeps the table a sequence of rows over the same ids.
LEMMA UpdateRow ==
    ASSUME NEW s \in Seq(Row), NEW i \in DOMAIN s, NEW r \in Row,
           NEW t, t = [s EXCEPT ![i] = r]
    PROVE  /\ t \in Seq(Row)
           /\ Len(t) = Len(s)
           /\ DOMAIN t = DOMAIN s
           /\ t[i] = r
           /\ \A j \in DOMAIN s : j # i => t[j] = s[j]
  OBVIOUS

\* Inserting a row adds the next id and keeps the others.
LEMMA AppendRow ==
    ASSUME NEW s \in Seq(Row), NEW r \in Row, NEW t, t = Append(s, r)
    PROVE  /\ t \in Seq(Row)
           /\ Len(t) = Len(s) + 1
           /\ DOMAIN t = DOMAIN s \cup {Len(s) + 1}
           /\ Len(s) + 1 \notin DOMAIN s
           /\ t[Len(s) + 1] = r
           /\ \A j \in DOMAIN s : t[j] = s[j]
  OBVIOUS

\* Append, index by index.
LEMMA AppendIs ==
    ASSUME NEW S, NEW s \in Seq(S), NEW e \in S
    PROVE  Append(s, e) = [i \in 1..(Len(s) + 1) |-> IF i = Len(s) + 1 THEN e ELSE s[i]]
  <1> DEFINE t == Append(s, e)
  <1>1. /\ t \in Seq(S) /\ Len(t) = Len(s) + 1 /\ Len(s) \in Nat
        /\ t[Len(s) + 1] = e
        /\ \A i \in 1..Len(s) : t[i] = s[i]
    OBVIOUS
  <1> HIDE DEF t
  <1>2. t = [i \in 1..(Len(s) + 1) |-> t[i]]
    BY <1>1
  <1>3. \A i \in 1..(Len(s) + 1) : t[i] = IF i = Len(s) + 1 THEN e ELSE s[i]
    BY <1>1
  <1>4. QED
    BY <1>2, <1>3 DEF t

(***************************************************************************)
(* What each statement on the table does to one row: Sets(i, r) says that  *)
(* row i becomes r and that nothing else changes.                          *)
(***************************************************************************)
Sets(i, r) ==
    /\ jobs' \in Seq(Row)
    /\ Len(jobs') = Len(jobs)
    /\ Ids' = Ids
    /\ r \in Row
    /\ jobs'[i] = r
    /\ \A j \in Ids : j # i => jobs'[j] = jobs[j]

LEMMA ClaimSets ==
    ASSUME jobs \in Seq(Row), NEW i \in Ids, ClaimRow(i)
    PROVE  Sets(i, [jobs[i] EXCEPT !.status = "running", !.attempts = @ + 1])
  <1> DEFINE r == [jobs[i] EXCEPT !.status = "running", !.attempts = @ + 1]
  <1>1. jobs[i] \in Row
    BY DEF Ids
  <1>2. r \in Row
    <2>1. ASSUME NEW n \in Nat
          PROVE  [jobs[i] EXCEPT !.status = "running", !.attempts = n] \in Row
      BY <1>1 DEF Row, Statuses
    <2>2. jobs[i].attempts + 1 \in Nat
      BY <1>1 DEF Row
    <2>3. QED
      BY <2>1, <2>2
  <1>3. jobs' = [jobs EXCEPT ![i] = r]
    BY <1>1 DEF ClaimRow, Row, Ids
  <1> HIDE DEF r
  <1>4. QED
    BY <1>2, <1>3, UpdateRow DEF Sets, Ids, r

LEMMA CompleteSets ==
    ASSUME jobs \in Seq(Row), NEW i \in Ids, CompleteRow(i)
    PROVE  Sets(i, [jobs[i] EXCEPT !.status = "done"])
  <1> DEFINE r == [jobs[i] EXCEPT !.status = "done"]
  <1>1. jobs[i] \in Row
    BY DEF Ids
  <1>2. r \in Row
    BY <1>1 DEF Row, Statuses
  <1>3. jobs' = [jobs EXCEPT ![i] = r]
    BY <1>1 DEF CompleteRow, Row, Ids
  <1> HIDE DEF r
  <1>4. QED
    BY <1>2, <1>3, UpdateRow DEF Sets, Ids, r

LEMMA FailSets ==
    ASSUME jobs \in Seq(Row), NEW i \in Ids, NEW permanent \in BOOLEAN, FailRow(i, permanent)
    PROVE  Sets(i, IF permanent \/ Exhausted(i)
                   THEN [jobs[i] EXCEPT !.status = "failed"]
                   ELSE [jobs[i] EXCEPT !.status = "queued", !.due = FALSE])
  <1> DEFINE r == IF permanent \/ Exhausted(i)
                  THEN [jobs[i] EXCEPT !.status = "failed"]
                  ELSE [jobs[i] EXCEPT !.status = "queued", !.due = FALSE]
  <1>1. jobs[i] \in Row
    BY DEF Ids
  <1>2. r \in Row
    BY <1>1 DEF Row, Statuses
  <1>3. jobs' = [jobs EXCEPT ![i] = r]
    BY <1>1 DEF FailRow, Row, Ids
  <1> HIDE DEF r
  <1>4. QED
    BY <1>2, <1>3, UpdateRow DEF Sets, Ids, r

LEMMA ElapseSets ==
    ASSUME jobs \in Seq(Row), NEW i \in Ids, BackoffElapses(i)
    PROVE  Sets(i, [jobs[i] EXCEPT !.due = TRUE])
  <1> DEFINE r == [jobs[i] EXCEPT !.due = TRUE]
  <1>1. jobs[i] \in Row
    BY DEF Ids
  <1>2. r \in Row
    BY <1>1 DEF Row
  <1>3. jobs' = [jobs EXCEPT ![i] = r]
    BY <1>1 DEF BackoffElapses, Row, Ids
  <1> HIDE DEF r
  <1>4. QED
    BY <1>2, <1>3, UpdateRow DEF Sets, Ids, r

LEMMA RetrySets ==
    ASSUME jobs \in Seq(Row), NEW i \in Ids, RetryRow(i), RetryCommits
    PROVE  Sets(i, [jobs[i] EXCEPT !.status = "queued", !.attempts = 0, !.due = TRUE])
  <1> DEFINE r == [jobs[i] EXCEPT !.status = "queued", !.attempts = 0, !.due = TRUE]
  <1>1. jobs[i] \in Row
    BY DEF Ids
  <1>2. r \in Row
    BY <1>1 DEF Row, Statuses
  <1>3. jobs' = [jobs EXCEPT ![i] = r]
    BY <1>1 DEF RetryRow, Row, Ids
  <1> HIDE DEF r
  <1>4. QED
    BY <1>2, <1>3, UpdateRow DEF Sets, Ids, r

LEMMA InsertAppends ==
    ASSUME jobs \in Seq(Row), NEW r \in Request, InsertRow(r)
    PROVE  /\ jobs' \in Seq(Row)
           /\ Len(jobs) + 1 \notin Ids
           /\ Ids' = Ids \cup {Len(jobs) + 1}
           /\ NewRow(r) \in Row
           /\ jobs'[Len(jobs) + 1] = NewRow(r)
           /\ \A j \in Ids : jobs'[j] = jobs[j]
  <1>1. NewRow(r) \in Row
    BY DEF NewRow, Request, Row, Statuses
  <1>2. QED
    BY <1>1, AppendRow DEF InsertRow, Ids
=============================================================================
