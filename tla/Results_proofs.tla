--------------------------- MODULE Results_proofs ---------------------------
(***************************************************************************)
(* Theorems about what is made of an index, for every value of the         *)
(* constants: findings, accounts, identities, chunks and reports, and the  *)
(* specification in which they are checked side by side.                   *)
(***************************************************************************)
EXTENDS MCResults, Retrieval_proofs

(***************************************************************************)
(* The findings of a branch: Findings.                                     *)
(***************************************************************************)
Statuses == {"absent", "new", "resolved", "ignored"}

FindingsTypeOK ==
    /\ second \in Nat
    /\ table \in [Tags -> [at : Nat, status : [Keys -> Statuses]]]
    /\ scan \in [Scanners -> [place : {"idle", "reconcile", "resolve"},
                              newer : Tags \cup {NoScan}, older : Tags \cup {NoScan}]]
    /\ disturbed \in BOOLEAN

\* What a scan that is about to update has read: two scans on record, in their order.
ReadInOrder ==
    \A w \in Scanners :
        scan[w].place = "resolve" =>
            LET n == scan[w].newer
                o == scan[w].older
            IN  n \in Stored /\ o \in Stored /\ n # o /\ table[n].at >= table[o].at

FindingsInv == FindingsTypeOK /\ ReadInOrder

(***************************************************************************)
(* What a step may do to findings on record: they stay on record, with     *)
(* their time, and no other ones join them.                                *)
(***************************************************************************)
KeepsRecord ==
    \A t \in Stored :
        /\ t \in Stored'
        /\ table'[t].at = table[t].at
        /\ Reported(t)' = Reported(t)

\* What was read in order stays in order.
LEMMA OrderKept ==
    ASSUME ReadInOrder, KeepsRecord, NEW w \in Scanners, scan'[w] = scan[w],
           scan[w].place = "resolve"
    PROVE  LET n == scan'[w].newer
               o == scan'[w].older
           IN  n \in Stored' /\ o \in Stored' /\ n # o /\ table'[n].at >= table'[o].at
  BY DEF ReadInOrder, KeepsRecord

LEMMA SaveKeeps ==
    ASSUME FindingsTypeOK, NEW w \in Scanners, NEW t \in Tags, NEW found \in Reports,
           NEW later \in {0, 1}, SaveFindings(w, t, found, later)
    PROVE  /\ FindingsTypeOK'
           /\ \A u \in Stored : table'[u] = table[u]
           /\ KeepsRecord
  <1>1. /\ scan' = [scan EXCEPT ![w].place = "reconcile"] /\ disturbed' = disturbed
        /\ found # {} => t \notin Stored
    BY DEF SaveFindings
  <1>2. scan' \in [Scanners -> [place : {"idle", "reconcile", "resolve"},
                                newer : Tags \cup {NoScan}, older : Tags \cup {NoScan}]]
    BY <1>1 DEF FindingsTypeOK
  <1>3. CASE found = {}
    <2>1. second' = second /\ table' = table
      BY <1>3 DEF SaveFindings
    <2>2. QED
      BY <1>1, <1>2, <2>1 DEF FindingsTypeOK, KeepsRecord, Stored, Reported
  <1>4. CASE found # {}
    <2> DEFINE row == [at |-> second + later,
                       status |-> [k \in Keys |-> IF k \in found THEN "new" ELSE "absent"]]
    <2>1. second' = second + later /\ table' = [table EXCEPT ![t] = row]
      BY <1>4 DEF SaveFindings
    <2>2. second + later \in Nat
      BY DEF FindingsTypeOK
    <2>3. row \in [at : Nat, status : [Keys -> Statuses]]
      BY <2>2 DEF Statuses
    <2> HIDE DEF row
    <2>4. FindingsTypeOK'
      BY <1>1, <1>2, <2>1, <2>2, <2>3 DEF FindingsTypeOK
    <2>5. \A u \in Stored : u \in Tags /\ u # t /\ table'[u] = table[u]
      BY <1>1, <1>4, <2>1 DEF FindingsTypeOK, Stored
    <2>6. KeepsRecord
      BY <2>5 DEF KeepsRecord, Stored, Reported
    <2>7. QED
      BY <2>4, <2>5, <2>6
  <1>5. QED
    BY <1>3, <1>4

\* An UPDATE of one scan's statuses that makes none of them "absent".
LEMMA UpdateKeeps ==
    ASSUME FindingsTypeOK, NEW t \in Tags, NEW f \in [Keys -> Statuses],
           table' = [table EXCEPT ![t].status = f],
           \A k \in Keys : f[k] = "absent" <=> table[t].status[k] = "absent"
    PROVE  /\ table' \in [Tags -> [at : Nat, status : [Keys -> Statuses]]]
           /\ table'[t].status = f
           /\ \A u \in Tags \ {t} : table'[u] = table[u]
           /\ KeepsRecord /\ Stored' = Stored
  <1>1. table[t] \in [at : Nat, status : [Keys -> Statuses]]
    BY DEF FindingsTypeOK
  <1> DEFINE row == [table[t] EXCEPT !.status = f]
  <1>2. row \in [at : Nat, status : [Keys -> Statuses]] /\ row.status = f /\ row.at = table[t].at
    BY <1>1
  <1>3. table' = [table EXCEPT ![t] = row]
    OBVIOUS
  <1> HIDE DEF row
  <1>4. /\ table' \in [Tags -> [at : Nat, status : [Keys -> Statuses]]]
        /\ table'[t] = row
        /\ \A u \in Tags \ {t} : table'[u] = table[u]
    BY <1>2, <1>3 DEF FindingsTypeOK
  <1>5. \A u \in Tags : Reported(u)' = Reported(u)
    <2>1. Reported(t)' = Reported(t)
      BY <1>2, <1>4 DEF Reported
    <2>2. \A u \in Tags \ {t} : Reported(u)' = Reported(u)
      BY <1>4 DEF Reported
    <2>3. QED
      BY <2>1, <2>2
  <1>6. KeepsRecord /\ Stored' = Stored
    BY <1>2, <1>4, <1>5 DEF KeepsRecord, Stored
  <1>7. QED
    BY <1>2, <1>4, <1>6

\* The UPDATE of _reconcile: it resolves what the newer scan it has read lacks.
LEMMA ResolveKeeps ==
    ASSUME FindingsInv, NEW w \in Scanners, Resolve(w)
    PROVE  LET n == scan[w].newer
               o == scan[w].older
           IN  /\ FindingsTypeOK' /\ KeepsRecord /\ Stored' = Stored
               /\ \A u \in Tags \ {o} : table'[u] = table[u]
               /\ \A k \in Keys : table'[o].status[k] =
                     IF k \in Reported(o) /\ k \notin Reported(n)
                     THEN "resolved" ELSE table[o].status[k]
               /\ scan' = [scan EXCEPT ![w] = Resting]
  <1> DEFINE n == scan[w].newer
             o == scan[w].older
             f == [k \in Keys |-> IF table[o].status[k] # "absent" /\ k \notin Reported(n)
                                  THEN "resolved" ELSE table[o].status[k]]
  <1>1. o \in Tags /\ table[o] \in [at : Nat, status : [Keys -> Statuses]]
    BY DEF FindingsInv, FindingsTypeOK, ReadInOrder, Resolve, Stored
  <1>2. table' = [table EXCEPT ![o].status = f]
    BY DEF Resolve
  <1>3. f \in [Keys -> Statuses]
    BY <1>1 DEF Statuses
  <1>4. \A k \in Keys : f[k] = "absent" <=> table[o].status[k] = "absent"
    OBVIOUS
  <1>5. \A k \in Keys : f[k] = IF k \in Reported(o) /\ k \notin Reported(n)
                              THEN "resolved" ELSE table[o].status[k]
    BY DEF Reported
  <1> HIDE DEF f
  <1>6. /\ table' \in [Tags -> [at : Nat, status : [Keys -> Statuses]]]
        /\ table'[o].status = f
        /\ \A u \in Tags \ {o} : table'[u] = table[u]
        /\ KeepsRecord /\ Stored' = Stored
    BY <1>1, <1>2, <1>3, <1>4, UpdateKeeps DEF FindingsInv
  <1>7. FindingsTypeOK'
    BY <1>6 DEF FindingsInv, FindingsTypeOK, Resolve, Resting
  <1>8. QED
    BY <1>5, <1>6, <1>7 DEF Resolve

\* A user's UPDATE of one finding.
LEMMA UserKeeps ==
    ASSUME FindingsTypeOK, NEW t \in Tags, NEW k \in Keys, NEW status \in UserStatuses,
           UpdateFinding(t, k, status)
    PROVE  /\ FindingsTypeOK' /\ KeepsRecord /\ Stored' = Stored
           /\ \A u \in Tags \ {t} : table'[u] = table[u]
           /\ \A j \in Keys : table'[t].status[j] =
                 IF j = k THEN status ELSE table[t].status[j]
  <1> DEFINE f == [table[t].status EXCEPT ![k] = status]
  <1>1. table[t].status \in [Keys -> Statuses] /\ table[t].status[k] # "absent"
    BY DEF FindingsTypeOK, UpdateFinding, Reported
  <1>2. status \in Statuses /\ status # "absent"
    BY FindingsAssumption DEF Statuses
  <1>3. /\ f \in [Keys -> Statuses]
        /\ \A j \in Keys : f[j] = IF j = k THEN status ELSE table[t].status[j]
        /\ \A j \in Keys : f[j] = "absent" <=> table[t].status[j] = "absent"
    BY <1>1, <1>2
  <1>4. table' = [table EXCEPT ![t].status = f]
    BY DEF UpdateFinding
  <1> HIDE DEF f
  <1>5. /\ table' \in [Tags -> [at : Nat, status : [Keys -> Statuses]]]
        /\ table'[t].status = f
        /\ \A u \in Tags \ {t} : table'[u] = table[u]
        /\ KeepsRecord /\ Stored' = Stored
    BY <1>3, <1>4, UpdateKeeps
  <1>6. FindingsTypeOK'
    BY <1>5 DEF FindingsTypeOK, UpdateFinding
  <1>7. QED
    BY <1>3, <1>5, <1>6

(***************************************************************************)
(* FindingsInv is inductive.                                               *)
(***************************************************************************)
LEMMA InitFindingsInv == FindingsInit => FindingsInv
  <1> SUFFICES ASSUME FindingsInit
               PROVE  FindingsInv
    OBVIOUS
  <1> DEFINE none == [k \in Keys |-> "absent"]
  <1>1. none \in [Keys -> Statuses]
    BY DEF Statuses
  <1>2. table = [t \in Tags |-> [at |-> 0, status |-> none]]
    BY DEF FindingsInit
  <1> HIDE DEF none
  <1>3. table \in [Tags -> [at : Nat, status : [Keys -> Statuses]]]
    BY <1>1, <1>2
  <1>4. QED
    BY <1>3 DEF FindingsInit, FindingsInv, FindingsTypeOK, ReadInOrder, Resting

\* Steps that leave the table alone.
LEMMA ScanSteps ==
    ASSUME FindingsInv, NEW w \in Scanners,
           \/ \E n, o \in Tags : ReadLastTwo(w, n, o)
           \/ NothingToCompare(w)
           \/ ReconcileRaises(w)
    PROVE  FindingsInv'
  <1>1. UNCHANGED <<second, table>> /\ disturbed' \in BOOLEAN
    BY DEF ReadLastTwo, NothingToCompare, ReconcileRaises, FindingsInv, FindingsTypeOK
  <1>2. KeepsRecord
    BY <1>1 DEF KeepsRecord, Stored, Reported
  <1>3. CASE \E n, o \in Tags : ReadLastTwo(w, n, o)
    <2>1. PICK n \in Tags, o \in Tags : ReadLastTwo(w, n, o)
      BY <1>3
    <2> DEFINE s == [place |-> "resolve", newer |-> n, older |-> o]
    <2>2. /\ scan' = [scan EXCEPT ![w] = s]
          /\ n \in Stored /\ o \in Stored /\ n # o /\ table[n].at >= table[o].at
      BY <2>1 DEF ReadLastTwo, LastTwo
    <2>3. FindingsTypeOK'
      BY <1>1, <2>2 DEF FindingsInv, FindingsTypeOK
    <2>4. scan'[w] = s /\ \A v \in Scanners \ {w} : scan'[v] = scan[v]
      BY <2>2 DEF FindingsInv, FindingsTypeOK
    <2>5. ReadInOrder'
      BY <1>1, <1>2, <2>2, <2>4 DEF FindingsInv, ReadInOrder, KeepsRecord
    <2>6. QED
      BY <2>3, <2>5 DEF FindingsInv
  <1>4. CASE NothingToCompare(w) \/ ReconcileRaises(w)
    <2>1. scan' = [scan EXCEPT ![w] = Resting]
      BY <1>4 DEF NothingToCompare, ReconcileRaises
    <2>2. FindingsTypeOK'
      BY <1>1, <2>1 DEF FindingsInv, FindingsTypeOK, Resting
    <2>3. scan'[w] = Resting /\ \A v \in Scanners \ {w} : scan'[v] = scan[v]
      BY <2>1 DEF FindingsInv, FindingsTypeOK
    <2>4. ReadInOrder'
      BY <1>1, <1>2, <2>3 DEF FindingsInv, ReadInOrder, KeepsRecord, Resting
    <2>5. QED
      BY <2>2, <2>4 DEF FindingsInv
  <1>5. QED
    BY <1>3, <1>4

LEMMA NextFindingsInv == FindingsInv /\ [FindingsNext]_findingsVars => FindingsInv'
  <1> SUFFICES ASSUME FindingsInv, [FindingsNext]_findingsVars
               PROVE  FindingsInv'
    OBVIOUS
  <1>1. scan \in [Scanners -> [place : {"idle", "reconcile", "resolve"},
                               newer : Tags \cup {NoScan}, older : Tags \cup {NoScan}]]
    BY DEF FindingsInv, FindingsTypeOK
  <1>2. ASSUME NEW w \in Scanners, NEW t \in Tags, NEW found \in Reports, NEW later \in {0, 1},
               SaveFindings(w, t, found, later)
        PROVE  FindingsInv'
    <2>1. FindingsTypeOK' /\ KeepsRecord
      BY <1>2, SaveKeeps DEF FindingsInv
    <2>2. scan' = [scan EXCEPT ![w].place = "reconcile"]
      BY <1>2 DEF SaveFindings
    <2>3. scan'[w].place = "reconcile" /\ \A v \in Scanners \ {w} : scan'[v] = scan[v]
      BY <1>1, <2>2
    <2>4. ReadInOrder'
      BY <2>1, <2>3, OrderKept DEF FindingsInv, ReadInOrder
    <2>5. QED
      BY <2>1, <2>4 DEF FindingsInv
  <1>3. ASSUME NEW w \in Scanners, Resolve(w)
        PROVE  FindingsInv'
    <2>1. FindingsTypeOK' /\ KeepsRecord /\ scan' = [scan EXCEPT ![w] = Resting]
      BY <1>3, ResolveKeeps
    <2>2. scan'[w] = Resting /\ \A v \in Scanners \ {w} : scan'[v] = scan[v]
      BY <1>1, <2>1
    <2>3. ReadInOrder'
      BY <2>1, <2>2, OrderKept DEF FindingsInv, ReadInOrder, Resting
    <2>4. QED
      BY <2>1, <2>3 DEF FindingsInv
  <1>4. ASSUME NEW t \in Tags, NEW k \in Keys, NEW status \in UserStatuses,
               UpdateFinding(t, k, status)
        PROVE  FindingsInv'
    <2>1. FindingsTypeOK' /\ KeepsRecord /\ scan' = scan
      BY <1>4, UserKeeps DEF FindingsInv, UpdateFinding
    <2>2. ReadInOrder'
      BY <2>1, OrderKept DEF FindingsInv, ReadInOrder
    <2>3. QED
      BY <2>1, <2>2 DEF FindingsInv
  <1>5. CASE UNCHANGED findingsVars
    BY <1>5 DEF findingsVars, FindingsInv, FindingsTypeOK, ReadInOrder, Stored, Reported
  <1>6. QED
    BY <1>2, <1>3, <1>4, <1>5, ScanSteps DEF FindingsNext

THEOREM FindingsInvariance == FindingsSpec => []FindingsInv
  BY InitFindingsInv, NextFindingsInv, PTL DEF FindingsSpec

\* Every variable always holds a value of its type.
THEOREM FindingsTypeCorrect == FindingsSpec => []FindingsTypeOK
  <1>1. FindingsInv => FindingsTypeOK
    BY DEF FindingsInv
  <1>2. QED
    BY <1>1, FindingsInvariance, PTL

\* However scans and users interleave, nobody but a user touches the status of a finding
\* that the newest scan has.
THEOREM OnlyTheGoneChanges == FindingsSpec => OnlyTheGone
  <1>1. ASSUME FindingsInv, [FindingsNext]_findingsVars, NEW t \in Stored, NEW k \in Keys,
               table'[t].status[k] # table[t].status[k]
        PROVE  \/ \E s \in UserStatuses : UpdateFinding(t, k, s)
               \/ /\ table'[t].status[k] = "resolved"
                  /\ \E u \in Stored \ {t} :
                        table[u].at >= table[t].at /\ k \notin Reported(u)
    <2>1. FindingsTypeOK /\ t \in Tags /\ table' # table
      BY <1>1 DEF FindingsInv, Stored
    <2>2. ASSUME NEW w \in Scanners, NEW u \in Tags, NEW found \in Reports, NEW later \in {0, 1},
                 SaveFindings(w, u, found, later)
          PROVE  FALSE
      BY <1>1, <2>1, <2>2, SaveKeeps
    <2>3. ASSUME NEW w \in Scanners, Resolve(w)
          PROVE  /\ table'[t].status[k] = "resolved"
                 /\ \E u \in Stored \ {t} :
                       table[u].at >= table[t].at /\ k \notin Reported(u)
      <3> DEFINE n == scan[w].newer
                 o == scan[w].older
      <3>1. n \in Stored /\ n # o /\ table[n].at >= table[o].at
        BY <1>1, <2>3 DEF FindingsInv, ReadInOrder, Resolve
      <3>2. /\ \A u \in Tags \ {o} : table'[u] = table[u]
            /\ table'[o].status[k] = IF k \in Reported(o) /\ k \notin Reported(n)
                                     THEN "resolved" ELSE table[o].status[k]
        BY <1>1, <2>3, ResolveKeeps
      <3> HIDE DEF n, o
      <3>3. t = o
        BY <1>1, <2>1, <3>2
      <3>4. table'[t].status[k] = "resolved" /\ k \notin Reported(n)
        BY <1>1, <3>2, <3>3
      <3>5. QED
        BY <3>1, <3>3, <3>4
    <2>4. ASSUME NEW u \in Tags, NEW j \in Keys, NEW status \in UserStatuses,
                 UpdateFinding(u, j, status)
          PROVE  \E s \in UserStatuses : UpdateFinding(t, k, s)
      <3>1. u = t /\ j = k
        BY <1>1, <2>1, <2>4, UserKeeps
      <3>2. QED
        BY <2>4, <3>1
    <2>5. QED
      BY <1>1, <2>1, <2>2, <2>3, <2>4
      DEF FindingsNext, findingsVars, ReadLastTwo, NothingToCompare, ReconcileRaises
  <1>2. FindingsInv /\ [FindingsNext]_findingsVars =>
          [\A t \in Stored, k \in Keys :
             table'[t].status[k] # table[t].status[k] =>
                \/ \E s \in UserStatuses : UpdateFinding(t, k, s)
                \/ /\ table'[t].status[k] = "resolved"
                   /\ \E u \in Stored \ {t} :
                         table[u].at >= table[t].at /\ k \notin Reported(u)]_findingsVars
    BY <1>1
  <1>3. QED
    BY <1>2, FindingsInvariance, PTL DEF FindingsSpec, OnlyTheGone

(***************************************************************************)
(* What the newest scan lacks: either a thread is about to compare just    *)
(* the last two scans, or will look which they are, or it is done.         *)
(***************************************************************************)
StrictLastTwo(n, o) ==
    /\ n \in Stored /\ o \in Stored
    /\ LastTwo(n, o)
    /\ \A t \in Stored \ {n} : table[t].at < table[n].at
    /\ \A t \in Stored \ {n, o} : table[t].at < table[o].at

GoneClosed(n, o) == \A k \in Reported(o) \ Reported(n) : table[o].status[k] # "new"

Behind(w, n, o) ==
    \/ scan[w].place = "reconcile"
    \/ scan[w].place = "resolve" /\ scan[w].newer = n /\ scan[w].older = o

BaselineInv ==
    ~disturbed =>
        \A n, o \in Tags :
            StrictLastTwo(n, o) => GoneClosed(n, o) \/ \E w \in Scanners : Behind(w, n, o)

\* The last two scans are the same as long as no scan is stored.
LEMMA SameLastTwo ==
    ASSUME KeepsRecord, Stored' = Stored, NEW n \in Tags, NEW o \in Tags, StrictLastTwo(n, o)'
    PROVE  StrictLastTwo(n, o)
  BY DEF KeepsRecord, StrictLastTwo, LastTwo

\* There are not two pairs of last two scans if one of them is strict.
LEMMA OneLastTwo ==
    ASSUME FindingsTypeOK, NEW n \in Tags, NEW o \in Tags, StrictLastTwo(n, o),
           NEW m \in Tags, NEW p \in Tags, LastTwo(m, p)
    PROVE  m = n /\ p = o
  <1>1. /\ n # o /\ m # p
        /\ n \in Stored /\ o \in Stored /\ m \in Stored /\ p \in Stored
        /\ table[m].at >= table[p].at
        /\ \A t \in Stored \ {m, p} : table[t].at <= table[p].at
        /\ \A t \in Stored \ {n} : table[t].at < table[n].at
        /\ \A t \in Stored \ {n, o} : table[t].at < table[o].at
    BY DEF StrictLastTwo, LastTwo
  <1>2. \A t \in Tags : table[t].at \in Nat
    BY DEF FindingsTypeOK
  <1>3. m = n
    BY <1>1, <1>2
  <1>4. p = o
    BY <1>1, <1>2, <1>3
  <1>5. QED
    BY <1>3, <1>4

LEMMA NextBaseline ==
    FindingsInv /\ BaselineInv /\ [FindingsNext]_findingsVars => BaselineInv'
  <1> SUFFICES ASSUME FindingsInv, BaselineInv, [FindingsNext]_findingsVars, ~disturbed',
                      NEW n \in Tags, NEW o \in Tags, StrictLastTwo(n, o)'
               PROVE  GoneClosed(n, o)' \/ \E w \in Scanners : Behind(w, n, o)'
    BY DEF BaselineInv
  <1>1. /\ FindingsTypeOK
        /\ scan \in [Scanners -> [place : {"idle", "reconcile", "resolve"},
                                  newer : Tags \cup {NoScan}, older : Tags \cup {NoScan}]]
    BY DEF FindingsInv, FindingsTypeOK
  <1>2. ASSUME NEW w \in Scanners, NEW t \in Tags, NEW found \in Reports, NEW later \in {0, 1},
               SaveFindings(w, t, found, later)
        PROVE  Behind(w, n, o)'
    BY <1>1, <1>2 DEF SaveFindings, Behind
  <1>3. ASSUME ~disturbed, KeepsRecord, Stored' = Stored
        PROVE  StrictLastTwo(n, o) /\ (GoneClosed(n, o) \/ \E w \in Scanners : Behind(w, n, o))
    BY <1>3, SameLastTwo DEF BaselineInv
  <1>4. ASSUME table' = table, ~disturbed
        PROVE  /\ StrictLastTwo(n, o)
               /\ GoneClosed(n, o) => GoneClosed(n, o)'
               /\ GoneClosed(n, o) \/ \E w \in Scanners : Behind(w, n, o)
    <2>1. KeepsRecord /\ Stored' = Stored
      BY <1>4 DEF KeepsRecord, Stored, Reported
    <2>2. GoneClosed(n, o)' = GoneClosed(n, o)
      BY <1>4 DEF GoneClosed, Reported
    <2>3. QED
      BY <1>3, <1>4, <2>1, <2>2
  <1>5. ASSUME NEW w \in Scanners, NEW m \in Tags, NEW p \in Tags, ReadLastTwo(w, m, p)
        PROVE  GoneClosed(n, o)' \/ Behind(w, n, o)'
    <2>1. table' = table /\ ~disturbed /\ LastTwo(m, p)
      BY <1>5 DEF ReadLastTwo
    <2>2. m = n /\ p = o
      BY <1>1, <1>4, <2>1, OneLastTwo
    <2>3. QED
      BY <1>1, <1>5, <2>2 DEF ReadLastTwo, Behind
  <1>6. ASSUME NEW w \in Scanners, NothingToCompare(w)
        PROVE  FALSE
    <2>1. table' = table /\ ~disturbed /\ ~LastTwo(n, o)
      BY <1>6 DEF NothingToCompare
    <2>2. QED
      BY <1>4, <2>1 DEF StrictLastTwo
  <1>7. ASSUME NEW w \in Scanners, Resolve(w)
        PROVE  GoneClosed(n, o)' \/ \E v \in Scanners : Behind(v, n, o)'
    <2> DEFINE m == scan[w].newer
               p == scan[w].older
    <2>1. /\ KeepsRecord /\ Stored' = Stored /\ ~disturbed
          /\ \A u \in Tags \ {p} : table'[u] = table[u]
          /\ \A k \in Keys : table'[p].status[k] =
                IF k \in Reported(p) /\ k \notin Reported(m)
                THEN "resolved" ELSE table[p].status[k]
          /\ \A v \in Scanners \ {w} : scan'[v] = scan[v]
      BY <1>1, <1>7, ResolveKeeps DEF Resolve
    <2>2. n \in Stored /\ o \in Stored
      BY <1>3, <2>1 DEF StrictLastTwo
    <2>3. Reported(n)' = Reported(n) /\ Reported(o)' = Reported(o)
      BY <2>1, <2>2 DEF KeepsRecord
    <2>4. Reported(o) \subseteq Keys
      BY DEF Reported
    <2>5. \A k \in Keys : table'[o].status[k] = "new" => table[o].status[k] = "new"
      BY <2>1
    <2>6. CASE GoneClosed(n, o)
      BY <2>3, <2>4, <2>5, <2>6 DEF GoneClosed
    <2>7. CASE Behind(w, n, o)
      <3>1. m = n /\ p = o
        BY <1>7, <2>7 DEF Behind, Resolve
      <3>2. \A k \in Reported(o) \ Reported(n) : table'[o].status[k] = "resolved"
        BY <2>1, <2>4, <3>1
      <3>3. QED
        BY <2>3, <3>2 DEF GoneClosed
    <2>8. CASE \E v \in Scanners \ {w} : Behind(v, n, o)
      BY <2>1, <2>8 DEF Behind
    <2>9. QED
      BY <1>3, <2>1, <2>6, <2>7, <2>8
  <1>8. ASSUME NEW t \in Tags, NEW k \in Keys, NEW status \in UserStatuses,
               UpdateFinding(t, k, status)
        PROVE  GoneClosed(n, o)' \/ \E w \in Scanners : Behind(w, n, o)'
    <2>1. /\ KeepsRecord /\ Stored' = Stored
          /\ \A u \in Tags \ {t} : table'[u] = table[u]
          /\ \A j \in Keys : table'[t].status[j] = IF j = k THEN status ELSE table[t].status[j]
      BY <1>1, <1>8, UserKeeps
    <2>2. ~disturbed /\ status # "new" /\ scan' = scan
      BY <1>8 DEF UpdateFinding
    <2>3. n \in Stored /\ o \in Stored
      BY <1>3, <2>1, <2>2 DEF StrictLastTwo
    <2>4. Reported(n)' = Reported(n) /\ Reported(o)' = Reported(o)
      BY <2>1, <2>3 DEF KeepsRecord
    <2>5. Reported(o) \subseteq Keys
      BY DEF Reported
    <2>6. \A j \in Keys : table'[o].status[j] = "new" => table[o].status[j] = "new"
      BY <2>1, <2>2
    <2>7. GoneClosed(n, o) => GoneClosed(n, o)'
      BY <2>4, <2>5, <2>6 DEF GoneClosed
    <2>8. QED
      BY <1>3, <2>1, <2>2, <2>7 DEF Behind
  <1>9. CASE UNCHANGED findingsVars
    BY <1>4, <1>9 DEF findingsVars, Behind
  <1>10. ASSUME NEW w \in Scanners, ReconcileRaises(w)
         PROVE  FALSE
    BY <1>10 DEF ReconcileRaises
  <1>11. QED
    BY <1>2, <1>5, <1>6, <1>7, <1>8, <1>9, <1>10 DEF FindingsNext

\* However many scans save before the first of them reconciles: when all are at rest, what
\* the last one no longer has is not left open in the one before it.
THEOREM Compared == FindingsSpec => []BaselineCompared
  <1>1. FindingsInit => BaselineInv
    BY DEF FindingsInit, BaselineInv, StrictLastTwo, Stored, Reported
  <1>2. FindingsInv /\ BaselineInv => BaselineCompared
    <2> SUFFICES ASSUME FindingsInv, BaselineInv, ~disturbed,
                        \A w \in Scanners : scan[w].place = "idle",
                        NEW n \in Stored, NEW o \in Stored, n # o,
                        \A t \in Stored \ {n} : table[t].at < table[n].at,
                        \A t \in Stored \ {n, o} : table[t].at < table[o].at
                 PROVE  GoneClosed(n, o)
      BY DEF BaselineCompared, GoneClosed
    <2>1. n \in Tags /\ o \in Tags
      BY DEF Stored
    <2>2. \A t \in Tags : table[t].at \in Nat
      BY DEF FindingsInv, FindingsTypeOK
    <2>3. StrictLastTwo(n, o)
      BY <2>1, <2>2 DEF StrictLastTwo, LastTwo, Stored
    <2>4. QED
      BY <2>1, <2>3 DEF BaselineInv, Behind
  <1>3. QED
    BY <1>1, <1>2, NextBaseline, FindingsInvariance, PTL DEF FindingsSpec
-----------------------------------------------------------------------------
(***************************************************************************)
(* Accounts and their projects: Accounts.                                  *)
(***************************************************************************)
Rows == [users : SUBSET Usernames, access : [Usernames -> SUBSET AccessIds]]

Txn == [op : {"none", "bootstrap", "create_user", "set_access"},
        place : {"out", "begin", "first", "insert"}, user : Usernames,
        asked : SUBSET AccessIds, todo : SUBSET AccessIds]

AccountsTypeOK ==
    /\ db \in Rows /\ draft \in Rows
    /\ writer \in Clients \cup {Nobody}
    /\ txn \in [Clients -> Txn]
    /\ granted \in [Usernames -> SUBSET AccessIds]

Inside(c) == txn[c].place \in {"first", "insert"}

\* SQLite's lock: whoever is inside a transaction, alone, is the writer.
Locked == \A c \in Clients : Inside(c) <=> writer = c

\* The foreign key from project_access to users.
Owned(state) == \A u \in Usernames : state.access[u] # {} => u \in state.users

\* What the open transaction of a client has done so far.
Progress(c) ==
    LET t == txn[c] IN
    /\ t.op = "bootstrap" => t.asked = {}
    /\ t.place = "begin" => t.op # "none" /\ t.todo = t.asked
    /\ t.place = "first" => t.op # "none" /\ t.todo = t.asked /\ draft = db
    /\ t.place = "insert" /\ t.op = "bootstrap" => t.todo = {} /\ draft.access = db.access
    /\ t.place = "insert" /\ t.op # "bootstrap" =>
          /\ t.op # "none" /\ t.todo \subseteq t.asked
          /\ draft.access = [db.access EXCEPT ![t.user] = t.asked \ t.todo]

AccountsInv ==
    /\ AccountsTypeOK /\ Locked
    /\ Owned(db) /\ Owned(draft)
    /\ \A c \in Clients : Progress(c)
    /\ AccessWhole

LEMMA IdleTxn == Idle \in Txn
  BY AccountsAssumption DEF Idle, Txn

LEMMA InitAccounts == AccountsInit => AccountsInv
  <1> SUFFICES ASSUME AccountsInit
               PROVE  AccountsInv
    OBVIOUS
  <1> DEFINE none == [u \in Usernames |-> {}]
  <1>1. none \in [Usernames -> SUBSET AccessIds] /\ \A u \in Usernames : none[u] = {}
    OBVIOUS
  <1>2. db = [users |-> {}, access |-> none] /\ draft = db /\ granted = none
    BY DEF AccountsInit
  <1> HIDE DEF none
  <1>3. db \in Rows
    BY <1>1, <1>2 DEF Rows
  <1>4. AccountsTypeOK
    BY <1>1, <1>2, <1>3, IdleTxn DEF AccountsInit, AccountsTypeOK
  <1>5. Owned(db) /\ Owned(draft) /\ AccessWhole
    BY <1>1, <1>2 DEF Owned, AccessWhole
  <1>6. Locked /\ \A c \in Clients : Progress(c)
    BY AccountsAssumption DEF AccountsInit, Locked, Inside, Progress, Idle
  <1>7. QED
    BY <1>4, <1>5, <1>6 DEF AccountsInv

\* Other clients are not concerned, unless they are inside a transaction.
LEMMA OthersKept ==
    ASSUME AccountsInv, NEW c \in Clients, NEW s \in Txn, txn' = [txn EXCEPT ![c] = s],
           UNCHANGED <<db, draft>> \/ \A d \in Clients \ {c} : ~Inside(d)
    PROVE  /\ txn' \in [Clients -> Txn] /\ txn'[c] = s
           /\ \A d \in Clients \ {c} : txn'[d] = txn[d] /\ Progress(d)'
  <1>1. txn' \in [Clients -> Txn] /\ txn'[c] = s /\ \A d \in Clients \ {c} : txn'[d] = txn[d]
    BY DEF AccountsInv, AccountsTypeOK
  <1>2. ASSUME NEW d \in Clients \ {c}
        PROVE  Progress(d)'
    <2>1. Progress(d) /\ txn'[d] = txn[d]
      BY <1>1 DEF AccountsInv
    <2>2. CASE UNCHANGED <<db, draft>>
      BY <2>1, <2>2 DEF Progress
    <2>3. CASE ~Inside(d)
      BY <2>1, <2>3 DEF Progress, Inside
    <2>4. QED
      BY <2>2, <2>3
  <1>3. QED
    BY <1>1, <1>2

\* Who is inside is alone there.
LEMMA Alone ==
    ASSUME AccountsInv, NEW c \in Clients, Inside(c)
    PROVE  writer = c /\ \A d \in Clients \ {c} : ~Inside(d)
  BY DEF AccountsInv, Locked

LEMMA CallAccounts ==
    ASSUME AccountsInv, NEW c \in Clients, NEW op \in {"bootstrap", "create_user", "set_access"},
           NEW u \in Usernames, NEW projects \in SUBSET AccessIds, Call(c, op, u, projects)
    PROVE  AccountsInv'
  <1> DEFINE s == [op |-> op, place |-> "begin", user |-> u, asked |-> projects, todo |-> projects]
  <1>1. /\ s \in Txn /\ s.place = "begin" /\ s.op = op /\ s.todo = projects /\ s.asked = projects
        /\ txn' = [txn EXCEPT ![c] = s] /\ UNCHANGED <<db, writer, draft, granted>>
        /\ ~Inside(c) /\ (op = "bootstrap" => projects = {})
    BY DEF Call, Txn, Idle, Inside
  <1> HIDE DEF s
  <1>2. /\ txn' \in [Clients -> Txn] /\ txn'[c] = s
        /\ \A d \in Clients \ {c} : txn'[d] = txn[d] /\ Progress(d)'
    BY <1>1, OthersKept
  <1>3. Progress(c)'
    BY <1>1, <1>2 DEF Progress
  <1>4. Locked'
    BY <1>1, <1>2 DEF AccountsInv, Locked, Inside
  <1>5. QED
    BY <1>1, <1>2, <1>3, <1>4 DEF AccountsInv, AccountsTypeOK, Owned, AccessWhole

LEMMA BeginAccounts ==
    ASSUME AccountsInv, NEW c \in Clients, Begin(c)
    PROVE  AccountsInv'
  <1> DEFINE s == [txn[c] EXCEPT !.place = "first"]
  <1>1. /\ txn[c] \in Txn /\ txn[c].place = "begin" /\ writer = Nobody /\ writer' = c
        /\ draft' = db /\ txn' = [txn EXCEPT ![c] = s] /\ UNCHANGED <<db, granted>>
    BY DEF Begin, AccountsInv, AccountsTypeOK
  <1>2. /\ s \in Txn /\ s.place = "first" /\ s.op = txn[c].op /\ s.todo = txn[c].todo
        /\ s.asked = txn[c].asked
    BY <1>1 DEF Txn
  <1> HIDE DEF s
  <1>3. \A d \in Clients : ~Inside(d)
    BY <1>1, AccountsAssumption DEF AccountsInv, Locked
  <1>4. /\ txn' \in [Clients -> Txn] /\ txn'[c] = s
        /\ \A d \in Clients \ {c} : txn'[d] = txn[d] /\ Progress(d)'
    BY <1>1, <1>2, <1>3, OthersKept
  <1>5. Progress(c)'
    BY <1>1, <1>2, <1>4 DEF AccountsInv, Progress
  <1>6. Locked'
    BY <1>1, <1>2, <1>3, <1>4 DEF Locked, Inside
  <1>7. QED
    BY <1>1, <1>4, <1>5, <1>6 DEF AccountsInv, AccountsTypeOK, Owned, AccessWhole

LEMMA FirstAccounts ==
    ASSUME AccountsInv, NEW c \in Clients, FirstStatement(c)
    PROVE  AccountsInv'
  <1> DEFINE t == txn[c]
             s == [t EXCEPT !.place = "insert"]
             own == IF t.op = "set_access" THEN {} ELSE draft.access[t.user]
             users == IF t.op = "set_access" THEN draft.users ELSE draft.users \cup {t.user}
             access == [draft.access EXCEPT ![t.user] = own]
  <1>1. /\ t \in Txn /\ t.place = "first" /\ (t.op = "create_user" => t.user \notin draft.users)
        /\ draft' = [users |-> users, access |-> access]
        /\ txn' = [txn EXCEPT ![c] = s] /\ UNCHANGED <<db, writer, granted>>
    BY DEF FirstStatement, AccountsInv, AccountsTypeOK
  <1>2. /\ s \in Txn /\ s.place = "insert" /\ s.op = t.op /\ s.user = t.user
        /\ s.todo = t.todo /\ s.asked = t.asked
    BY <1>1 DEF Txn
  <1>3. Inside(c) /\ writer = c /\ \A d \in Clients \ {c} : ~Inside(d)
    BY <1>1, Alone DEF Inside
  <1>4. /\ draft = db /\ t.op # "none" /\ t.todo = t.asked
        /\ (t.op = "bootstrap" => t.asked = {})
        /\ draft.access \in [Usernames -> SUBSET AccessIds] /\ draft.users \in SUBSET Usernames
        /\ t.user \in Usernames
        /\ \A u \in Usernames : draft.access[u] # {} => u \in draft.users
    BY <1>1 DEF AccountsInv, AccountsTypeOK, Progress, Rows, Txn, Owned
  <1>5. own \in SUBSET AccessIds /\ (t.op # "bootstrap" => own = {})
        /\ (t.op = "bootstrap" => own = draft.access[t.user])
    BY <1>1, <1>4 DEF Txn
  <1>6. /\ access \in [Usernames -> SUBSET AccessIds] /\ users \in SUBSET Usernames
        /\ draft.users \subseteq users
        /\ (t.op = "bootstrap" => access = draft.access)
    BY <1>4, <1>5
  <1> HIDE DEF s
  <1>7. /\ txn' \in [Clients -> Txn] /\ txn'[c] = s
        /\ \A d \in Clients \ {c} : txn'[d] = txn[d] /\ Progress(d)'
    BY <1>1, <1>2, <1>3, OthersKept
  <1>8. draft'.access = access /\ draft'.users = users /\ draft' \in Rows
    BY <1>1, <1>6 DEF Rows
  <1>9. Progress(c)'
    <2>1. CASE t.op = "bootstrap"
      BY <1>1, <1>2, <1>4, <1>6, <1>7, <1>8, <2>1 DEF Progress
    <2>2. CASE t.op # "bootstrap"
      <3>1. t.asked \ t.todo = {}
        BY <1>4
      <3>2. access = [db.access EXCEPT ![t.user] = t.asked \ t.todo]
        BY <1>4, <1>5, <2>2, <3>1
      <3> HIDE DEF access, users, own
      <3>3. QED
        BY <1>1, <1>2, <1>4, <1>7, <1>8, <2>2, <3>2 DEF Progress
    <2>3. QED
      BY <2>1, <2>2
  <1>10. Owned(draft)'
    <2>1. ASSUME NEW u \in Usernames, access[u] # {}
          PROVE  u \in users
      <3>1. draft.access[u] # {}
        BY <1>4, <1>5, <2>1
      <3>2. QED
        BY <1>4, <1>6, <3>1
    <2> HIDE DEF access, users
    <2>2. QED
      BY <1>8, <2>1 DEF Owned
  <1>11. Locked'
    BY <1>1, <1>2, <1>3, <1>7 DEF AccountsInv, Locked, Inside
  <1>12. QED
    BY <1>1, <1>7, <1>8, <1>9, <1>10, <1>11
    DEF AccountsInv, AccountsTypeOK, Owned, AccessWhole

LEMMA InsertAccounts ==
    ASSUME AccountsInv, NEW c \in Clients, NEW p \in AccessIds, InsertAccess(c, p)
    PROVE  AccountsInv'
  <1> DEFINE t == txn[c]
             s == [t EXCEPT !.todo = t.todo \ {p}]
             access == [draft.access EXCEPT ![t.user] = draft.access[t.user] \cup {p}]
  <1>1. /\ t \in Txn /\ t.place = "insert" /\ p \in t.todo /\ t.user \in draft.users
        /\ draft' = [draft EXCEPT !.access = access]
        /\ txn' = [txn EXCEPT ![c] = s] /\ UNCHANGED <<db, writer, granted>>
    BY DEF InsertAccess, AccountsInv, AccountsTypeOK
  <1>2. /\ s \in Txn /\ s.place = "insert" /\ s.op = t.op /\ s.user = t.user
        /\ s.todo = t.todo \ {p} /\ s.asked = t.asked
    BY <1>1 DEF Txn
  <1>3. Inside(c) /\ writer = c /\ \A d \in Clients \ {c} : ~Inside(d)
    BY <1>1, Alone DEF Inside
  <1>4. /\ t.op # "bootstrap" /\ t.op # "none" /\ t.todo \subseteq t.asked
        /\ draft.access = [db.access EXCEPT ![t.user] = t.asked \ t.todo]
        /\ db.access \in [Usernames -> SUBSET AccessIds]
        /\ draft.access \in [Usernames -> SUBSET AccessIds] /\ draft \in Rows
        /\ t.user \in Usernames
        /\ \A u \in Usernames : draft.access[u] # {} => u \in draft.users
    BY <1>1 DEF AccountsInv, AccountsTypeOK, Progress, Rows, Txn, Owned
  <1>5. access \in [Usernames -> SUBSET AccessIds]
    BY <1>4
  <1>6. access = [db.access EXCEPT ![t.user] = t.asked \ (t.todo \ {p})]
    <2>1. draft.access[t.user] = t.asked \ t.todo
      BY <1>4
    <2>2. draft.access[t.user] \cup {p} = t.asked \ (t.todo \ {p})
      BY <1>1, <1>4, <2>1
    <2>3. QED
      BY <1>4, <2>2
  <1> HIDE DEF s
  <1>7. /\ txn' \in [Clients -> Txn] /\ txn'[c] = s
        /\ \A d \in Clients \ {c} : txn'[d] = txn[d] /\ Progress(d)'
    BY <1>1, <1>2, <1>3, OthersKept
  <1>8. Owned(draft)' /\ draft' \in Rows /\ draft'.access = access
    <2>1. \A u \in Usernames : access[u] # {} => u \in draft.users
      BY <1>1, <1>4
    <2> HIDE DEF access
    <2>2. draft'.access = access /\ draft'.users = draft.users /\ draft' \in Rows
      BY <1>1, <1>4, <1>5 DEF Rows
    <2>3. QED
      BY <2>1, <2>2 DEF Owned
  <1> HIDE DEF access
  <1>9. Progress(c)'
    BY <1>1, <1>2, <1>4, <1>6, <1>7, <1>8 DEF Progress
  <1>10. Locked'
    BY <1>1, <1>2, <1>3, <1>7 DEF AccountsInv, Locked, Inside
  <1>11. QED
    BY <1>1, <1>7, <1>8, <1>9, <1>10
    DEF AccountsInv, AccountsTypeOK, Owned, AccessWhole

\* A client that leaves: its transaction is over, or it never had one.
LEMMA LeaveAccounts ==
    ASSUME AccountsInv, NEW c \in Clients,
           Commit(c) \/ Rollback(c) \/ BeginTimesOut(c)
    PROVE  AccountsInv'
  <1>1. txn' = [txn EXCEPT ![c] = Idle] /\ Idle \in Txn /\ Idle.place = "out" /\ Idle.op = "none"
    BY IdleTxn DEF Commit, Rollback, BeginTimesOut, Idle
  <1>2. UNCHANGED <<db, draft>> \/ \A d \in Clients \ {c} : ~Inside(d)
    BY Alone DEF Commit, Rollback, BeginTimesOut, Inside
  <1>3. /\ txn' \in [Clients -> Txn] /\ txn'[c] = Idle
        /\ \A d \in Clients \ {c} : txn'[d] = txn[d] /\ Progress(d)'
    BY <1>1, <1>2, OthersKept
  <1>4. Progress(c)'
    BY <1>1, <1>3 DEF Progress
  <1>5. writer' \in Clients \cup {Nobody} /\ Locked'
    <2>1. CASE Inside(c)
      <3>1. writer' = Nobody /\ \A d \in Clients \ {c} : ~Inside(d)
        BY <2>1, Alone DEF Commit, Rollback, BeginTimesOut, Inside
      <3>2. QED
        BY <1>1, <1>3, <3>1, AccountsAssumption DEF Locked, Inside
    <2>2. CASE ~Inside(c)
      <3>1. writer' = writer
        BY <2>2 DEF Commit, Rollback, BeginTimesOut, Inside
      <3>2. QED
        BY <1>1, <1>3, <2>2, <3>1 DEF AccountsInv, AccountsTypeOK, Locked, Inside
    <2>3. QED
      BY <2>1, <2>2
  <1>6. /\ db' \in Rows /\ draft' \in Rows /\ Owned(db)' /\ Owned(draft)'
        /\ granted' \in [Usernames -> SUBSET AccessIds] /\ AccessWhole'
    <2>1. CASE Rollback(c) \/ BeginTimesOut(c)
      BY <2>1 DEF Rollback, BeginTimesOut, AccountsInv, AccountsTypeOK, Owned, AccessWhole
    <2>2. CASE Commit(c)
      <3> DEFINE t == txn[c]
      <3>1. /\ t.place = "insert" /\ t.todo = {} /\ db' = draft /\ draft' = draft
            /\ granted' = [granted EXCEPT ![t.user] =
                             IF t.op = "bootstrap" THEN granted[t.user] ELSE t.asked]
            /\ t.user \in Usernames /\ t.asked \in SUBSET AccessIds
            /\ granted \in [Usernames -> SUBSET AccessIds] /\ db.access = granted
            /\ draft \in Rows /\ Owned(draft)
        BY <2>2 DEF Commit, AccountsInv, AccountsTypeOK, Txn, AccessWhole
      <3>2. db' \in Rows /\ draft' \in Rows /\ Owned(db)' /\ Owned(draft)'
        BY <3>1 DEF Owned
      <3>3. granted' \in [Usernames -> SUBSET AccessIds]
        BY <3>1
      <3>4. CASE t.op = "bootstrap"
        <4>1. draft.access = db.access
          BY <3>1, <3>4 DEF AccountsInv, Progress
        <4>2. granted' = granted
          BY <3>1, <3>4
        <4>3. QED
          BY <3>1, <3>2, <3>3, <4>1, <4>2 DEF AccessWhole
      <3>5. CASE t.op # "bootstrap"
        <4>1. draft.access = [db.access EXCEPT ![t.user] = t.asked \ {}]
          BY <3>1, <3>5 DEF AccountsInv, Progress
        <4>2. t.asked \ {} = t.asked
          OBVIOUS
        <4>3. draft.access = granted'
          BY <3>1, <3>5, <4>1, <4>2
        <4>4. QED
          BY <3>1, <3>2, <3>3, <4>3 DEF AccessWhole
      <3>6. QED
        BY <3>4, <3>5
    <2>3. QED
      BY <2>1, <2>2
  <1>7. QED
    BY <1>3, <1>4, <1>5, <1>6 DEF AccountsInv, AccountsTypeOK

LEMMA NextAccounts == AccountsInv /\ [AccountsNext]_accountVars => AccountsInv'
  <1> SUFFICES ASSUME AccountsInv, [AccountsNext]_accountVars
               PROVE  AccountsInv'
    OBVIOUS
  <1>1. CASE UNCHANGED accountVars
    BY <1>1 DEF accountVars, AccountsInv, AccountsTypeOK, Locked, Inside, Owned, Progress,
                AccessWhole
  <1>2. QED
    BY <1>1, CallAccounts, BeginAccounts, FirstAccounts, InsertAccounts, LeaveAccounts
    DEF AccountsNext

THEOREM AccountsInvariance == AccountsSpec => []AccountsInv
  BY InitAccounts, NextAccounts, PTL DEF AccountsSpec

\* For every number of callers, accounts and projects: what an account may see is the list
\* of the last call that succeeded, as a whole.
THEOREM WholeLists == AccountsSpec => []AccessWhole
  <1>1. AccountsInv => AccessWhole
    BY DEF AccountsInv
  <1>2. QED
    BY <1>1, AccountsInvariance, PTL
-----------------------------------------------------------------------------
(***************************************************************************)
(* The windows of the weekly reports: WeeklyReport.                        *)
(***************************************************************************)
\* A week begins at most six days before any day of it, and where a week begins is decided
\* by its number.
LEMMA Mondays ==
    ASSUME NEW day \in Int
    PROVE  \E n \in Int : Monday(day) = 7 * n /\ 7 * n <= day /\ day < 7 * n + 7
  <1> DEFINE n == day \div 7
  <1>1. n \in Int /\ day = 7 * n + (day % 7) /\ 0 <= day % 7 /\ day % 7 < 7
    OBVIOUS
  <1>2. QED
    BY <1>1 DEF Monday

\* Days of one week have one Monday.
LEMMA OneMonday ==
    ASSUME NEW day \in Int, NEW n \in Int, 7 * n <= day, day < 7 * n + 7
    PROVE  Monday(day) = 7 * n
  <1>1. PICK m \in Int : Monday(day) = 7 * m /\ 7 * m <= day /\ day < 7 * m + 7
    BY Mondays
  <1>2. m = n
    BY <1>1
  <1>3. QED
    BY <1>1, <1>2

\* For every day and hour of the reports and every commit: Tiles.
THEOREM WeeksMeet ==
    ASSUME NEW day \in Int, NEW hour \in Int, NEW now \in 0..23
    PROVE  Tiles(day, hour, now)
  <1> DEFINE last == LastFullWeek(day)
             made == hour \div 24
             own == WeekOf(made)
             before == WeekOf(made - 7)
  <1>1. PICK n \in Int : Monday(day) = 7 * n /\ 7 * n <= day /\ day < 7 * n + 7
    BY Mondays
  <1>2. made \in Int /\ 24 * made <= hour /\ hour < 24 * made + 24
    OBVIOUS
  <1>3. PICK m \in Int : Monday(made) = 7 * m /\ 7 * m <= made /\ made < 7 * m + 7
    BY <1>2, Mondays
  <1>4. now \in Int /\ 0 <= now /\ now < 24
    OBVIOUS
  <1> HIDE DEF made
  <1>5. last = [since |-> 7 * (n - 1), until |-> 7 * n]
    <2>1. 7 * (n - 1) = 7 * n - 7
      BY <1>1
    <2>2. QED
      BY <1>1, <2>1 DEF LastFullWeek
  <1>6. own = [since |-> 7 * m, until |-> 7 * m + 7]
    BY <1>3 DEF WeekOf
  <1>7. before = [since |-> 7 * m - 7, until |-> 7 * m]
    <2> DEFINE k == m - 1
               d == made - 7
    <2>1. /\ k \in Int /\ d \in Int /\ 7 * k <= d /\ d < 7 * k + 7
          /\ 7 * k = 7 * m - 7 /\ 7 * k + 7 = 7 * m
      BY <1>2, <1>3
    <2> HIDE DEF k, d
    <2>2. Monday(d) = 7 * k
      BY <2>1, OneMonday
    <2>3. QED
      BY <2>1, <2>2 DEF WeekOf, d
  <1>8. last = WeekOf(last.since)
    <2> DEFINE k == n - 1
               d == 7 * k
    <2>1. k \in Int /\ d \in Int /\ 7 * k <= d /\ d < 7 * k + 7 /\ d + 7 = 7 * n
      BY <1>1
    <2>2. last = [since |-> d, until |-> 7 * n]
      BY <1>5
    <2> HIDE DEF k, d, last
    <2>3. Monday(d) = d
      <3>1. Monday(d) = 7 * k
        BY <2>1, OneMonday
      <3>2. QED
        BY <3>1 DEF d
    <2>4. last.since = d
      BY <2>2
    <2>5. QED
      BY <2>1, <2>2, <2>3, <2>4 DEF WeekOf
  <1>9. last.until <= day
    BY <1>1, <1>5
  <1>10. /\ last = own <=> n = m + 1
         /\ last = before <=> n = m
    <2>1. (7 * (n - 1) = 7 * m <=> n = m + 1) /\ (7 * n = 7 * m + 7 <=> n = m + 1)
      BY <1>1, <1>3
    <2>2. (7 * (n - 1) = 7 * m - 7 <=> n = m) /\ (7 * n = 7 * m <=> n = m)
      BY <1>1, <1>3
    <2>3. QED
      BY <1>5, <1>6, <1>7, <2>1, <2>2
  <1>11. /\ Selected(hour, last, now) <=>
              24 * (7 * (n - 1)) + now <= hour /\ hour <= 24 * (7 * n) + now
         /\ Selected(hour, own, now) <=>
              24 * (7 * m) + now <= hour /\ hour <= 24 * (7 * m + 7) + now
         /\ Selected(hour, before, now) <=>
              24 * (7 * m - 7) + now <= hour /\ hour <= 24 * (7 * m) + now
    BY <1>5, <1>6, <1>7 DEF Selected
  <1> HIDE DEF last, own, before
  <1>12. ASSUME made # Monday(made)
         PROVE  Selected(hour, last, now) <=> last = own
    <2>1. 7 * m + 1 <= made
      BY <1>2, <1>3, <1>12
    <2>2. QED
      BY <1>1, <1>2, <1>3, <1>4, <1>10, <1>11, <2>1
  <1>13. ASSUME made = Monday(made)
         PROVE  /\ Selected(hour, last, now) => last \in {own, before}
                /\ Selected(hour, own, now) \/ Selected(hour, before, now)
                /\ Selected(hour, own, now) /\ Selected(hour, before, now) => hour % 24 = now
    <2>1. made = 7 * m
      BY <1>3, <1>13
    <2>2. Selected(hour, last, now) => last \in {own, before}
      BY <1>1, <1>2, <1>3, <1>4, <1>10, <1>11, <2>1
    <2>3. Selected(hour, own, now) \/ Selected(hour, before, now)
      BY <1>2, <1>3, <1>4, <1>11, <2>1
    <2>4. Selected(hour, own, now) /\ Selected(hour, before, now) => hour % 24 = now
      <3>1. (24 * (7 * m) + now) % 24 = now
        BY <1>3, <1>4
      <3>2. Selected(hour, own, now) /\ Selected(hour, before, now)
              => hour = 24 * (7 * m) + now
        BY <1>3, <1>4, <1>11
      <3>3. QED
        BY <3>1, <3>2
    <2>5. QED
      BY <2>2, <2>3, <2>4
  <1>14. QED
    BY <1>8, <1>9, <1>12, <1>13 DEF Tiles, last, own, before, made

-----------------------------------------------------------------------------
(***************************************************************************)
(* The platform accounts: Identities.  Whoever is merged into an account   *)
(* stands behind it, with all who stand behind him: chains of merges get   *)
(* an ever larger following, and so they end.                              *)
(***************************************************************************)
\* Rows whoever merges whatever.
IdentityTypes ==
    /\ accounts \subseteq Persons
    /\ merged \in [Persons -> Persons \cup {NoPerson}]
    /\ misled \in BOOLEAN

\* D[i] are those who stand behind i, and none of them but i is merged into nobody; only
\* accounts are merged, into accounts.
Following(D) ==
    /\ \A i \in Persons : merged[i] # NoPerson => i \in accounts /\ merged[i] \in accounts
    /\ D \in [Persons -> SUBSET Persons]
    /\ \A i \in Persons : i \in D[i]
    /\ \A i \in Persons : \A j \in D[i] : merged[j] = NoPerson => j = i
    /\ \A i \in Persons :
          merged[i] # NoPerson => D[i] \subseteq D[merged[i]] /\ merged[i] \notin D[i]

IdentityInv == IdentityTypes /\ (~misled => \E D : Following(D))

LEMMA InitIdentities == IdentitiesInit => IdentityInv
  <1> SUFFICES ASSUME IdentitiesInit
               PROVE  IdentityInv
    OBVIOUS
  <1> DEFINE D == [i \in Persons |-> {i}]
  <1>1. IdentityTypes
    BY DEF IdentitiesInit, IdentityTypes
  <1>2. Following(D)
    BY DEF IdentitiesInit, Following
  <1>3. QED
    BY <1>1, <1>2 DEF IdentityInv

\* The source and all behind it move behind the target, both listed and so in nobody's
\* following but their own.
LEMMA MergeListed ==
    ASSUME IdentityTypes, NEW source \in Persons, NEW target \in Persons,
           TwoListed(source, target), NEW D, Following(D), Merge(source, target)
    PROVE  \E E : Following(E)'
  <1>1. /\ source \in accounts /\ target \in accounts /\ source # target
        /\ merged[source] = NoPerson /\ merged[target] = NoPerson
        /\ NoPerson \notin Persons /\ accounts \subseteq Persons
    BY IdentitiesAssumption DEF IdentityTypes, TwoListed, Listed
  <1>2. /\ merged' = [i \in Persons |->
                        IF i = source /\ source \in accounts THEN target ELSE merged[i]]
        /\ accounts' = accounts
    BY DEF Merge
  <1>3. /\ merged'[source] = target
        /\ \A i \in Persons \ {source} : merged'[i] = merged[i]
    BY <1>1, <1>2
  <1> DEFINE E == [D EXCEPT ![target] = D[target] \cup D[source]]
  <1>4. /\ E \in [Persons -> SUBSET Persons]
        /\ E[target] = D[target] \cup D[source]
        /\ \A i \in Persons \ {target} : E[i] = D[i]
    BY DEF Following
  <1> HIDE DEF E
  <1>5. \A i \in Persons : i \in E[i]
    BY <1>4 DEF Following
  <1>6. ASSUME NEW i \in Persons, NEW j \in E[i], merged'[j] = NoPerson
        PROVE  j = i
    <2>1. j \in Persons /\ j # source /\ merged[j] = NoPerson
      BY <1>1, <1>3, <1>4, <1>6
    <2>2. CASE i = target
      BY <1>1, <1>4, <2>1, <2>2 DEF Following
    <2>3. CASE i # target
      BY <1>4, <1>6, <2>1, <2>3 DEF Following
    <2>4. QED
      BY <2>2, <2>3
  <1>7. ASSUME NEW i \in Persons, merged'[i] # NoPerson
        PROVE  /\ i \in accounts /\ merged'[i] \in accounts
               /\ E[i] \subseteq E[merged'[i]] /\ merged'[i] \notin E[i]
    <2>1. CASE i = source
      <3>1. target \notin D[source]
        BY <1>1 DEF Following
      <3>2. QED
        BY <1>1, <1>3, <1>4, <2>1, <3>1
    <2>2. CASE i # source
      <3>1. /\ merged'[i] = merged[i] /\ i # target
            /\ i \in accounts /\ merged[i] \in accounts /\ merged[i] \in Persons
        BY <1>1, <1>3, <1>7, <2>2 DEF Following
      <3>2. D[i] \subseteq D[merged[i]] /\ merged[i] \notin D[i]
        BY <1>7, <3>1 DEF Following
      <3>3. D[merged[i]] \subseteq E[merged[i]] /\ E[i] = D[i]
        BY <1>4, <3>1
      <3>4. QED
        BY <3>1, <3>2, <3>3
    <2>3. QED
      BY <2>1, <2>2
  <1>8. Following(E)'
    BY <1>2, <1>4, <1>5, <1>6, <1>7 DEF Following
  <1>9. QED
    BY <1>8

\* A merge of what is on the list keeps the followings, one of what is no account changes
\* nothing, and any other is recorded in misled.
LEMMA MergeIdentities ==
    ASSUME IdentityInv, NEW source \in Persons, NEW target \in Persons, Merge(source, target)
    PROVE  IdentityInv'
  <1>1. /\ merged' = [i \in Persons |->
                        IF i = source /\ source \in accounts THEN target ELSE merged[i]]
        /\ accounts' = accounts
        /\ misled' = (misled \/ (source \in accounts /\ ~TwoListed(source, target)))
    BY DEF Merge
  <1>2. IdentityTypes'
    BY <1>1 DEF IdentityInv, IdentityTypes
  <1>3. ASSUME ~misled'
        PROVE  \E D : Following(D)'
    <2>1. PICK D : Following(D)
      BY <1>1, <1>3 DEF IdentityInv
    <2>2. CASE source \in accounts
      BY <1>1, <1>3, <2>1, <2>2, MergeListed DEF IdentityInv
    <2>3. CASE source \notin accounts
      <3>1. merged' = merged
        BY <1>1, <2>3 DEF IdentityInv, IdentityTypes
      <3>2. Following(D)'
        BY <1>1, <2>1, <3>1 DEF Following
      <3>3. QED
        BY <3>2
    <2>4. QED
      BY <2>2, <2>3
  <1>4. QED
    BY <1>2, <1>3 DEF IdentityInv

THEOREM IdentityInvariance == IdentitiesSpec => []IdentityInv
  <1>1. ASSUME IdentityInv, [IdentitiesNext]_identityVars
        PROVE  IdentityInv'
    <2>1. CASE UNCHANGED identityVars
      BY <1>1, <2>1 DEF IdentityInv, IdentityTypes, Following, identityVars
    <2>2. ASSUME NEW authors \in SUBSET Persons, ResolveIdentities(authors)
          PROVE  IdentityInv'
      BY <1>1, <2>2 DEF IdentityInv, IdentityTypes, Following, ResolveIdentities
    <2>3. QED
      BY <1>1, <2>1, <2>2, MergeIdentities DEF IdentitiesNext
  <1>2. QED
    BY <1>1, InitIdentities, PTL DEF IdentitiesSpec

\* What MergedInto computes, for each account and any number of accounts.
Walk(i) ==
    CHOOSE w : w = [n \in 0..Cardinality(Persons) |->
                      IF n = 0 THEN {i}
                      ELSE w[n - 1] \cup {merged[j] : j \in w[n - 1] \cap accounts}]

LEMMA WalkIs ==
    ASSUME IdentityTypes, NEW i \in accounts
    PROVE  /\ Cardinality(Persons) \in Nat
           /\ MergedInto(i) = Walk(i)[Cardinality(Persons)]
           /\ Walk(i)[0] = {i}
           /\ \A n \in 1..Cardinality(Persons) :
                 Walk(i)[n] = Walk(i)[n - 1]
                                \cup {merged[j] : j \in Walk(i)[n - 1] \cap accounts}
  <1> DEFINE N == Cardinality(Persons)
             Acc == SUBSET (Persons \cup {NoPerson})
             Step == [x \in Acc \X Nat |-> x[1] \cup {merged[j] : j \in x[1] \cap accounts}]
  <1>1. N \in Nat
    BY IdentitiesAssumption, FS_CardinalityType
  <1>2. {i} \in Acc
    BY DEF IdentityTypes
  <1>3. Step \in [Acc \X Nat -> Acc]
    <2>1. ASSUME NEW x \in Acc \X Nat
          PROVE  x[1] \cup {merged[j] : j \in x[1] \cap accounts} \in Acc
      BY DEF IdentityTypes
    <2>2. QED
      BY <2>1
  <1>4. PICK g \in [0..N -> Acc] : g[0] = {i} /\ \A n \in 1..N : g[n] = Step[<<g[n - 1], n>>]
    <2> DEFINE base == {i}
    <2>1. base \in Acc
      BY <1>2
    <2> HIDE DEF N, Acc, Step, base
    <2>2. \E g \in [0..N -> Acc] : Runs(g, N, base, Step)
      BY <1>1, <2>1, <1>3, Iterates
    <2>3. QED
      BY <2>2 DEF base, Runs
  <1>5. ASSUME NEW n \in 1..N
        PROVE  g[n] = g[n - 1] \cup {merged[j] : j \in g[n - 1] \cap accounts}
    <2>1. n - 1 \in 0..N /\ n \in Nat
      BY <1>1
    <2>2. g[n - 1] \in Acc
      BY <1>4, <2>1
    <2>3. <<g[n - 1], n>> \in Acc \X Nat
      BY <2>1, <2>2
    <2> DEFINE x == <<g[n - 1], n>>
    <2>4. Step[x] = x[1] \cup {merged[j] : j \in x[1] \cap accounts} /\ x[1] = g[n - 1]
      BY <2>3
    <2> HIDE DEF Step
    <2>5. QED
      BY <1>4, <2>4
  <1>6. g = [n \in 0..N |-> IF n = 0 THEN {i}
                            ELSE g[n - 1] \cup {merged[j] : j \in g[n - 1] \cap accounts}]
    <2>1. g = [n \in 0..N |-> g[n]]
      BY <1>4
    <2>2. \A n \in 0..N : n # 0 => n \in 1..N
      BY <1>1
    <2>3. \A n \in 0..N : g[n] = IF n = 0 THEN {i}
                            ELSE g[n - 1] \cup {merged[j] : j \in g[n - 1] \cap accounts}
      BY <1>4, <1>5, <2>2
    <2>4. QED
      BY <2>1, <2>3
  <1>7. Walk(i) = [n \in 0..N |-> IF n = 0 THEN {i}
                     ELSE Walk(i)[n - 1] \cup {merged[j] : j \in Walk(i)[n - 1] \cap accounts}]
    BY <1>6 DEF Walk
  <1>8. MergedInto(i) = Walk(i)[N]
    BY DEF MergedInto, Walk
  <1> HIDE DEF N
  <1>9. Walk(i)[0] = {i}
    <2>1. 0 \in 0..N
      BY <1>1
    <2>2. QED
      BY <1>7, <2>1
  <1>10. ASSUME NEW n \in 1..N
         PROVE  Walk(i)[n] = Walk(i)[n - 1]
                               \cup {merged[j] : j \in Walk(i)[n - 1] \cap accounts}
    <2>1. n \in 0..N /\ n # 0
      BY <1>1
    <2>2. QED
      BY <1>7, <2>1
  <1>11. QED
    BY <1>1, <1>8, <1>9, <1>10 DEF N

\* For any number of accounts: as long as only accounts on the list are merged, into others
\* on the list, whoever is merged, again and again, is represented by an account that is
\* merged into no other, and the accounts that MergedInto visits are enough to find it.
THEOREM AlwaysRepresented == IdentitiesSpec => []Represented
  <1>1. ASSUME IdentityInv, ~misled, NEW i \in accounts
        PROVE  Shows(i)
    <2> DEFINE N == Cardinality(Persons)
    <2>1. PICK D : Following(D)
      BY <1>1 DEF IdentityInv
    <2>2. /\ N \in Nat /\ MergedInto(i) = Walk(i)[N] /\ Walk(i)[0] = {i}
          /\ \A n \in 1..N : Walk(i)[n] = Walk(i)[n - 1]
                               \cup {merged[j] : j \in Walk(i)[n - 1] \cap accounts}
      BY <1>1, WalkIs DEF IdentityInv
    <2>3. ASSUME NEW j \in Persons
          PROVE  /\ IsFiniteSet(D[j]) /\ Cardinality(D[j]) \in Nat
                 /\ 1 <= Cardinality(D[j]) /\ Cardinality(D[j]) <= N
      <3>1. D[j] \in SUBSET Persons /\ j \in D[j] /\ IsFiniteSet(Persons)
        BY <2>1, IdentitiesAssumption DEF Following
      <3>2. IsFiniteSet(D[j]) /\ Cardinality(D[j]) <= N
        BY <3>1, FS_Subset
      <3>3. Cardinality(D[j]) \in Nat /\ Cardinality(D[j]) # 0
        BY <3>1, <3>2, FS_CardinalityType, FS_EmptySet
      <3>4. QED
        BY <3>2, <3>3
    <2>4. ASSUME NEW j \in accounts, merged[j] # NoPerson
          PROVE  /\ merged[j] \in accounts
                 /\ Cardinality(D[j]) < Cardinality(D[merged[j]])
      <3>1. merged[j] \in accounts /\ j \in Persons /\ merged[j] \in Persons
        BY <1>1, <2>1, <2>4 DEF IdentityInv, IdentityTypes, Following
      <3>2. /\ D[j] \in SUBSET D[merged[j]] /\ D[j] # D[merged[j]]
            /\ IsFiniteSet(D[merged[j]])
        BY <2>1, <2>3, <2>4, <3>1 DEF Following
      <3>3. /\ Cardinality(D[j]) <= Cardinality(D[merged[j]])
            /\ Cardinality(D[j]) # Cardinality(D[merged[j]])
        BY <3>2, FS_Subset
      <3>4. QED
        BY <2>3, <3>1, <3>3
    <2> DEFINE S == {n \in 0..N : \E j \in Walk(i)[n] \cap accounts :
                        merged[j] = NoPerson \/ n + 1 <= Cardinality(D[j])}
    <2> HIDE DEF N
    <2>5. i \in Persons /\ accounts \subseteq Persons
      BY <1>1 DEF IdentityInv, IdentityTypes
    <2>6. 0 \in S
      BY <2>2, <2>3, <2>5
    <2>7. ASSUME NEW n \in Nat, n < N, n \in S
          PROVE  n + 1 \in S
      <3>1. PICK j \in Walk(i)[n] \cap accounts :
              merged[j] = NoPerson \/ n + 1 <= Cardinality(D[j])
        BY <2>7
      <3>2. n + 1 \in 1..N /\ n + 1 \in 0..N /\ (n + 1) - 1 = n
        BY <2>2, <2>7
      <3>3. Walk(i)[n + 1] = Walk(i)[n] \cup {merged[k] : k \in Walk(i)[n] \cap accounts}
        BY <2>2, <3>2
      <3>4. CASE merged[j] = NoPerson
        BY <3>1, <3>2, <3>3, <3>4
      <3>5. CASE merged[j] # NoPerson
        <4>1. merged[j] \in Walk(i)[n + 1] \cap accounts
          BY <2>4, <3>1, <3>3, <3>5
        <4>2. (n + 1) + 1 <= Cardinality(D[merged[j]])
          <5>1. n + 1 <= Cardinality(D[j]) /\ Cardinality(D[j]) < Cardinality(D[merged[j]])
            BY <2>4, <3>1, <3>5
          <5>2. Cardinality(D[j]) \in Nat /\ Cardinality(D[merged[j]]) \in Nat
            BY <2>3, <2>5, <3>1, <4>1
          <5>3. QED
            BY <5>1, <5>2
        <4>3. QED
          BY <3>2, <4>1, <4>2
      <3>6. QED
        BY <3>4, <3>5
    <2>8. N \in S
      <3> HIDE DEF S
      <3>1. \A n \in 0..N : n \in S
        BY <2>2, <2>6, <2>7, CountingUp
      <3>2. QED
        BY <2>2, <3>1
    <2>9. PICK j \in Walk(i)[N] \cap accounts :
            merged[j] = NoPerson \/ N + 1 <= Cardinality(D[j])
      BY <2>8
    <2>10. ~(N + 1 <= Cardinality(D[j]))
      BY <2>2, <2>3, <2>5, <2>9
    <2>11. QED
      BY <2>2, <2>9, <2>10 DEF Shows
  <1>2. IdentityInv => Represented
    BY <1>1 DEF Represented
  <1>3. QED
    BY <1>2, IdentityInvariance, PTL

-----------------------------------------------------------------------------
(***************************************************************************)
(* The points of a contributor's week: compute_quality of WeeklyReport.    *)
(***************************************************************************)
\* The weeks that can be counted: a fix is a labelled commit, a labelled commit a commit.
WeekStats(Dirs) ==
    {st \in [commits : Nat \ {0}, conv : Nat, fix : Nat, dirs : SUBSET Dirs, churn : Nat] :
        st.fix <= st.conv /\ st.conv <= st.commits}

\* Labels: what is lost on focus is less than what is won.
LEMMA FocusOf ==
    ASSUME NEW a, NEW b, NEW n \in Nat, a.commits = n, b.commits = n, a.dirs = b.dirs,
           a.fix \in Nat, b.fix \in a.fix..(a.fix + 1)
    PROVE  /\ Focus(a) \in Nat /\ Focus(b) \in Nat
           /\ Focus(a) <= 15000 * n
           /\ Focus(a) - 12500 <= Focus(b)
  <1> DEFINE x == 150 * n - 25 * Least(5 * a.fix, 3 * n)
             y == 150 * n - 25 * Least(5 * b.fix, 3 * n)
             d == Cardinality(a.dirs)
             points == IF d = 0 \/ d > 8 THEN 70 ELSE IF d > 4 THEN 85 ELSE 100
  <1>1. Focus(a) = x * points /\ Focus(b) = y * points
    BY DEF Focus
  <1>2. points \in {70, 85, 100}
    OBVIOUS
  <1>3. /\ x \in Int /\ y \in Int /\ 0 <= x /\ 0 <= y /\ x <= 150 * n
        /\ x - 125 <= y
    BY DEF Least
  <1> HIDE DEF x, y, points
  <1>4. CASE points = 70
    BY <1>1, <1>3, <1>4
  <1>5. CASE points = 85
    BY <1>1, <1>3, <1>5
  <1>6. CASE points = 100
    BY <1>1, <1>3, <1>6
  <1>7. QED
    BY <1>2, <1>4, <1>5, <1>6

\* Size: from a certain size on, less is more.
LEMMA SizeOf ==
    ASSUME NEW a, NEW b, NEW n \in Nat, a.commits = n, b.commits = n,
           a.churn \in Nat, b.churn \in Nat
    PROVE  /\ Size(a) \in Nat /\ Size(a) <= 33000 * n
           /\ a.churn > 3 * n /\ b.churn = a.churn - 1 => Size(a) <= Size(b)
           /\ a.churn = b.churn => Size(a) = Size(b)
  <1> DEFINE base(c) == IF c <= 400 * n THEN 33000 * n
                        ELSE IF c <= 1500 * n THEN 33000 * n - 18 * (c - 400 * n)
                        ELSE 13200 * n
  <1>1. \A c \in Nat : base(c) \in Nat /\ base(c) <= 33000 * n
    OBVIOUS
  <1>2. /\ Size(a) = IF a.churn < 3 * n THEN (base(a.churn) * 8) \div 10 ELSE base(a.churn)
        /\ Size(b) = IF b.churn < 3 * n THEN (base(b.churn) * 8) \div 10 ELSE base(b.churn)
    BY DEF Size
  <1>3. \A k \in Nat : (k * 8) \div 10 \in Nat /\ (k * 8) \div 10 <= k
    OBVIOUS
  <1>4. a.churn > 3 * n /\ b.churn = a.churn - 1 => base(a.churn) <= base(b.churn)
    OBVIOUS
  <1> HIDE DEF base
  <1>5. Size(a) \in Nat /\ Size(a) <= 33000 * n
    BY <1>1, <1>2, <1>3
  <1>6. ASSUME a.churn > 3 * n, b.churn = a.churn - 1
        PROVE  Size(a) <= Size(b)
    <2>1. ~(a.churn < 3 * n) /\ ~(b.churn < 3 * n)
      BY <1>6
    <2>2. QED
      BY <1>2, <1>4, <1>6, <2>1
  <1>7. QED
    BY <1>2, <1>5, <1>6

\* For every week there can be, of any number of commits, files and directories.
THEOREM WeeksFair ==
    ASSUME NEW Dirs, NEW st \in WeekStats(Dirs)
    PROVE  Fair(st)
  <1> DEFINE n == st.commits
  <1>1. /\ n \in Nat /\ st.conv \in Nat /\ st.fix \in Nat /\ st.churn \in Nat
        /\ st.fix <= st.conv /\ st.conv <= n
    BY DEF WeekStats
  <1>2. Focus(st) \in Nat /\ Focus(st) <= 15000 * n
    BY <1>1, FocusOf, st.fix \in st.fix..(st.fix + 1)
  <1>3. Size(st) \in Nat /\ Size(st) <= 33000 * n
    BY <1>1, SizeOf
  <1>4. 0 <= Quality(st) /\ Quality(st) <= 100 * (550000 * n)
    BY <1>1, <1>2, <1>3 DEF Quality
  <1>5. ASSUME NEW b, b.commits = n, b.dirs = st.dirs, b.churn = st.churn,
               b.conv = st.conv + 1, b.fix \in st.fix..(st.fix + 1)
        PROVE  Quality(b) >= Quality(st)
    <2>1. Focus(b) \in Nat /\ Focus(st) - 12500 <= Focus(b)
      BY <1>1, <1>5, FocusOf
    <2>2. Size(b) = Size(st)
      BY <1>1, <1>5, SizeOf
    <2>3. QED
      BY <1>1, <1>2, <1>3, <1>5, <2>1, <2>2 DEF Quality
  <1>6. ASSUME NEW b, b.commits = n, b.dirs = st.dirs, b.churn = st.churn - 1,
               b.conv = st.conv, b.fix = st.fix, st.churn > 3 * n
        PROVE  Quality(b) >= Quality(st)
    <2>1. Focus(b) = Focus(st)
      BY <1>6 DEF Focus
    <2>2. Size(b) \in Nat /\ Size(st) <= Size(b)
      <3>1. b.churn \in Nat
        BY <1>1, <1>6
      <3>2. QED
        BY <1>1, <1>6, <3>1, SizeOf
    <2>3. QED
      BY <1>1, <1>2, <1>3, <1>6, <2>1, <2>2 DEF Quality
  <1>7. DOMAIN st = {"commits", "conv", "fix", "dirs", "churn"}
    BY DEF WeekStats
  <1>8. Quality([st EXCEPT !.conv = st.conv + 1]) >= Quality(st)
    <2> DEFINE b == [st EXCEPT !.conv = st.conv + 1]
    <2>1. /\ b.commits = n /\ b.dirs = st.dirs /\ b.churn = st.churn
          /\ b.conv = st.conv + 1 /\ b.fix = st.fix
      BY <1>7
    <2> HIDE DEF b
    <2>2. Quality(b) >= Quality(st)
      BY <1>1, <1>5, <2>1
    <2>3. QED
      BY <2>2 DEF b
  <1>9. Quality([st EXCEPT !.conv = st.conv + 1, !.fix = st.fix + 1]) >= Quality(st)
    <2> DEFINE c == [st EXCEPT !.conv = st.conv + 1]
               b == [c EXCEPT !.fix = st.fix + 1]
    <2>1. /\ c.commits = n /\ c.dirs = st.dirs /\ c.churn = st.churn
          /\ c.conv = st.conv + 1 /\ DOMAIN c = DOMAIN st
      BY <1>7
    <2>2. b = [st EXCEPT !.conv = st.conv + 1, !.fix = st.fix + 1]
      OBVIOUS
    <2> HIDE DEF c
    <2>3. /\ b.commits = n /\ b.dirs = st.dirs /\ b.churn = st.churn
          /\ b.conv = st.conv + 1 /\ b.fix = st.fix + 1
      BY <1>7, <2>1
    <2> HIDE DEF b
    <2>4. Quality(b) >= Quality(st)
      BY <1>1, <1>5, <2>3
    <2>5. QED
      BY <2>2, <2>4
  <1>10. ASSUME st.churn > 3 * n
         PROVE  Quality([st EXCEPT !.churn = st.churn - 1]) >= Quality(st)
    <2> DEFINE b == [st EXCEPT !.churn = st.churn - 1]
    <2>1. /\ b.commits = n /\ b.dirs = st.dirs /\ b.churn = st.churn - 1
          /\ b.conv = st.conv /\ b.fix = st.fix
      BY <1>7
    <2> HIDE DEF b
    <2>2. Quality(b) >= Quality(st)
      BY <1>6, <1>10, <2>1
    <2>3. QED
      BY <2>2 DEF b
  <1>11. QED
    BY <1>4, <1>8, <1>9, <1>10 DEF Fair

-----------------------------------------------------------------------------
(***************************************************************************)
(* How a file is cut: Chunker.  The lines of a buffer follow each other,   *)
(* so that a chunk is what is left of some lines from one to another, and  *)
(* what was cut before the buffer began is all that went before.           *)
(***************************************************************************)
FileLines == {"def", "code", "blank"}

Buffer(a, b) == [j \in 1..(b + 1 - a) |-> a + j - 1]

\* Lines a to b without the blank ones at both ends.
Body(lines, a, b) ==
    {p \in a..b : \E m, n \in a..b :
        lines[m] # "blank" /\ lines[n] # "blank" /\ m <= p /\ p <= n}

Chunk == [start : Nat, content : SUBSET Nat]
Cutting == [chunks : Seq(Chunk), buf : Seq(Nat), start : Nat]

\* A definition is at most the third of the lines a to b.
DefsEarly(lines, a, b) == \A i \in a..b : lines[i] = "def" => i < a + 3

Piece(lines, c, b) ==
    /\ c.start \in 1..b /\ b < c.start + MaxLines
    /\ c.content = Body(lines, c.start, b) /\ c.content # {}
    /\ DefsEarly(lines, c.start, b)

\* The chunks are what there is to cut of lines 1 to k.
Covered(lines, chunks, k) ==
    /\ chunks \in Seq(Chunk)
    /\ \A c \in DOMAIN chunks : \E b \in 1..k : Piece(lines, chunks[c], b)
    /\ \A i \in 1..k : lines[i] # "blank" => \E c \in DOMAIN chunks : i \in chunks[c].content
    /\ \A c \in DOMAIN chunks, d \in DOMAIN chunks :
          c < d => \A i \in chunks[c].content, j \in chunks[d].content : i < j

LEMMA BufferIs ==
    ASSUME NEW a \in Nat \ {0}, NEW b \in Nat, a <= b + 1
    PROVE  /\ Buffer(a, b) \in Seq(Nat) /\ Len(Buffer(a, b)) = b + 1 - a
           /\ DOMAIN Buffer(a, b) = 1..(b + 1 - a)
           /\ \A j \in 1..(b + 1 - a) : Buffer(a, b)[j] = a + j - 1
           /\ Append(Buffer(a, b), b + 1) = Buffer(a, b + 1)
  <1> DEFINE n == b + 1 - a
  <1>1. n \in Nat /\ n + 1 = (b + 1) + 1 - a
    OBVIOUS
  <1>2. Buffer(a, b) = [j \in 1..n |-> a + j - 1]
    BY DEF Buffer
  <1>3. \A j \in 1..n : a + j - 1 \in Nat
    OBVIOUS
  <1>4. Buffer(a, b) \in Seq(Nat) /\ Len(Buffer(a, b)) = n /\ DOMAIN Buffer(a, b) = 1..n
    BY <1>1, <1>2, <1>3
  <1>5. Append(Buffer(a, b), b + 1) = [j \in 1..(n + 1) |-> a + j - 1]
    <2>1. /\ Append(Buffer(a, b), b + 1) \in Seq(Nat)
          /\ Len(Append(Buffer(a, b), b + 1)) = n + 1
          /\ \A j \in 1..n : Append(Buffer(a, b), b + 1)[j] = a + j - 1
          /\ Append(Buffer(a, b), b + 1)[n + 1] = b + 1
      BY <1>2, <1>4
    <2>2. \A j \in 1..(n + 1) : Append(Buffer(a, b), b + 1)[j] = a + j - 1
      BY <1>1, <2>1
    <2>3. DOMAIN Append(Buffer(a, b), b + 1) = 1..(n + 1)
      BY <2>1
    <2> DEFINE s == Append(Buffer(a, b), b + 1)
    <2>4. s = [j \in DOMAIN s |-> s[j]]
      BY <2>1
    <2> HIDE DEF s
    <2>5. QED
      BY <2>2, <2>3, <2>4 DEF s
  <1>6. Buffer(a, b + 1) = [j \in 1..(n + 1) |-> a + j - 1]
    BY <1>1 DEF Buffer
  <1>7. QED
    BY <1>2, <1>4, <1>5, <1>6

LEMMA StripIs ==
    ASSUME NEW lines, NEW a \in Nat \ {0}, NEW b \in Nat, a <= b + 1
    PROVE  Strip(lines, Buffer(a, b)) = Body(lines, a, b)
  <1> DEFINE buf == Buffer(a, b)
             text == {i \in DOMAIN buf : lines[buf[i]] # "blank"}
             kept == {j \in DOMAIN buf : \E m, n \in text : m <= j /\ j <= n}
  <1>1. DOMAIN buf = 1..(b + 1 - a) /\ \A j \in 1..(b + 1 - a) : buf[j] = a + j - 1
    BY BufferIs
  <1>2. Strip(lines, buf) = {buf[i] : i \in kept}
    BY DEF Strip
  <1> HIDE DEF buf
  <1>3. ASSUME NEW i \in kept
        PROVE  buf[i] \in Body(lines, a, b)
    <2>1. PICK m \in text, n \in text : m <= i /\ i <= n
      OBVIOUS
    <2>2. /\ buf[i] = a + i - 1 /\ buf[m] = a + m - 1 /\ buf[n] = a + n - 1
          /\ i \in 1..(b + 1 - a) /\ m \in 1..(b + 1 - a) /\ n \in 1..(b + 1 - a)
          /\ lines[buf[m]] # "blank" /\ lines[buf[n]] # "blank"
      BY <1>1
    <2>3. /\ buf[i] \in a..b /\ buf[m] \in a..b /\ buf[n] \in a..b
          /\ buf[m] <= buf[i] /\ buf[i] <= buf[n]
      BY <2>1, <2>2
    <2>4. QED
      BY <2>2, <2>3 DEF Body
  <1>4. ASSUME NEW p \in Body(lines, a, b)
        PROVE  \E i \in kept : buf[i] = p
    <2>1. PICK m \in a..b, n \in a..b :
            lines[m] # "blank" /\ lines[n] # "blank" /\ m <= p /\ p <= n
      BY DEF Body
    <2>2. p \in a..b
      BY DEF Body
    <2> DEFINE at(q) == q + 1 - a
    <2>3. \A q \in a..b : at(q) \in 1..(b + 1 - a) /\ a + at(q) - 1 = q
      OBVIOUS
    <2>4. \A q \in a..b : at(q) \in DOMAIN buf /\ buf[at(q)] = q
      BY <1>1, <2>3
    <2>5. at(m) \in text /\ at(n) \in text
      BY <2>1, <2>4
    <2>6. at(m) <= at(p) /\ at(p) <= at(n)
      BY <2>1, <2>2
    <2> HIDE DEF at
    <2>7. at(p) \in kept
      BY <2>2, <2>4, <2>5, <2>6
    <2>8. QED
      BY <2>2, <2>4, <2>7
  <1>5. {buf[i] : i \in kept} = Body(lines, a, b)
    <2> HIDE DEF kept
    <2>1. QED
      BY <1>3, <1>4
  <1>6. QED
    BY <1>2, <1>5 DEF buf

\* Flushing a buffer of lines a to b covers the file up to b.
LEMMA FlushCovers ==
    ASSUME NEW lines, NEW chunks, NEW a \in Nat \ {0}, NEW b \in Nat, a <= b + 1,
           b < a + MaxLines, Covered(lines, chunks, a - 1), DefsEarly(lines, a, b)
    PROVE  Covered(lines, Flush(chunks, lines, Buffer(a, b), a), b)
  <1> DEFINE body == Body(lines, a, b)
             new == [start |-> a, content |-> body]
             done == Flush(chunks, lines, Buffer(a, b), a)
  <1>1. done = IF body = {} THEN chunks ELSE Append(chunks, new)
    BY StripIs DEF Flush
  <1>2. body \subseteq a..b /\ \A i \in a..b : lines[i] # "blank" => i \in body
    BY DEF Body
  <1>3. 1..(a - 1) \subseteq 1..b /\ \A i \in 1..b : i \in 1..(a - 1) \/ i \in a..b
    OBVIOUS
  <1>4. ASSUME NEW c \in DOMAIN chunks, NEW i \in chunks[c].content
        PROVE  i \in Nat /\ i < a
    <2>1. PICK e \in 1..(a - 1) : Piece(lines, chunks[c], e)
      BY DEF Covered
    <2>2. i \in chunks[c].start..e /\ chunks[c].start \in Nat
      BY <2>1 DEF Piece, Body
    <2>3. QED
      BY <2>1, <2>2
  <1> HIDE DEF body, done
  <1>5. CASE body = {}
    <2>1. done = chunks
      BY <1>1, <1>5
    <2>2. \A i \in 1..b : lines[i] # "blank" => i \in 1..(a - 1)
      BY <1>2, <1>3, <1>5
    <2>3. QED
      BY <1>3, <2>1, <2>2 DEF Covered, done
  <1>6. CASE body # {}
    <2>1. done = Append(chunks, new) /\ chunks \in Seq(Chunk)
      BY <1>1, <1>6 DEF Covered
    <2>2. new \in Chunk /\ new.start = a /\ new.content = body
      <3>1. body \in SUBSET Nat
        BY <1>2
      <3>2. QED
        BY <3>1 DEF Chunk
    <2> DEFINE N == Len(chunks)
    <2>3. N \in Nat /\ DOMAIN chunks = 1..N
      BY <2>1
    <2> HIDE DEF new, N
    <2>4. /\ done \in Seq(Chunk) /\ DOMAIN done = 1..(N + 1) /\ done[N + 1] = new
          /\ \A c \in 1..N : done[c] = chunks[c]
      BY <2>1, <2>2 DEF N
    <2>5. a <= b /\ b \in 1..b /\ Piece(lines, new, b)
      <3>1. PICK i \in body : i \in a..b
        BY <1>2, <1>6
      <3>2. a \in 1..b /\ a <= b /\ b \in 1..b
        BY <3>1
      <3>3. QED
        BY <1>6, <2>2, <3>2 DEF Piece, body
    <2>6. ASSUME NEW c \in DOMAIN done
          PROVE  \E e \in 1..b : Piece(lines, done[c], e)
      <3>1. CASE c = N + 1
        BY <2>4, <2>5, <3>1
      <3>2. CASE c \in 1..N
        BY <1>3, <2>3, <2>4, <3>2 DEF Covered
      <3>3. QED
        BY <2>3, <2>4, <3>1, <3>2
    <2>7. ASSUME NEW i \in 1..b, lines[i] # "blank"
          PROVE  \E c \in DOMAIN done : i \in done[c].content
      <3>1. CASE i \in 1..(a - 1)
        <4>1. PICK c \in DOMAIN chunks : i \in chunks[c].content
          BY <2>7, <3>1 DEF Covered
        <4>2. QED
          BY <2>3, <2>4, <4>1
      <3>2. CASE i \in a..b
        BY <1>2, <2>2, <2>3, <2>4, <2>7, <3>2
      <3>3. QED
        BY <1>3, <3>1, <3>2
    <2>8. ASSUME NEW c \in DOMAIN done, NEW d \in DOMAIN done, c < d,
                 NEW i \in done[c].content, NEW j \in done[d].content
          PROVE  i < j
      <3>1. c \in 1..N /\ done[c] = chunks[c]
        BY <2>3, <2>4, <2>8
      <3>2. CASE d = N + 1
        <4>1. j \in a..b
          BY <1>2, <2>2, <2>4, <3>2
        <4>2. i \in Nat /\ i < a
          BY <1>4, <2>3, <3>1
        <4>3. QED
          BY <4>1, <4>2
      <3>3. CASE d \in 1..N
        BY <2>3, <2>4, <2>8, <3>1, <3>3 DEF Covered
      <3>4. QED
        BY <2>3, <2>4, <3>2, <3>3
    <2>9. QED
      BY <2>4, <2>6, <2>7, <2>8 DEF Covered, done
  <1>7. QED
    BY <1>5, <1>6

\* Where the cutting is after k lines.
CutAt(lines, s, a, k) ==
    /\ a \in 1..(k + 1) /\ k < a + MaxLines
    /\ s = [chunks |-> s.chunks, buf |-> Buffer(a, k), start |-> a]
    /\ Covered(lines, s.chunks, a - 1)
    /\ DefsEarly(lines, a, k)

Cut(lines, s, k) == \E a \in 1..(k + 1) : k + 1 < a + MaxLines /\ CutAt(lines, s, a, k)

LEMMA CutOneLine ==
    ASSUME NEW lines, NEW s, NEW k \in Nat, Cut(lines, s, k)
    PROVE  Cut(lines, ChunkLine(s, lines, k + 1), k + 1)
  <1> DEFINE i == k + 1
             cut == lines[i] = "def" /\ Len(s.buf) >= 3
             open == IF cut
                     THEN [chunks |-> Flush(s.chunks, lines, s.buf, s.start),
                           buf |-> <<i>>, start |-> i]
                     ELSE [s EXCEPT !.buf = Append(@, i)]
             next == ChunkLine(s, lines, i)
  <1>1. next = IF Len(open.buf) >= MaxLines
               THEN [chunks |-> Flush(open.chunks, lines, open.buf, open.start),
                     buf |-> <<>>, start |-> i + 1]
               ELSE open
    BY DEF ChunkLine
  <1>2. MaxLines \in Nat \ {0} /\ i \in Nat \ {0}
    BY ChunkerAssumption
  <1>3. PICK a \in 1..i : i < a + MaxLines /\ CutAt(lines, s, a, k)
    BY DEF Cut
  <1>4. /\ s = [chunks |-> s.chunks, buf |-> Buffer(a, k), start |-> a]
        /\ a \in Nat \ {0} /\ a <= k + 1
        /\ Covered(lines, s.chunks, a - 1) /\ DefsEarly(lines, a, k) /\ k < a + MaxLines
    BY <1>2, <1>3 DEF CutAt
  <1>5. /\ s.buf = Buffer(a, k) /\ s.start = a
        /\ Len(s.buf) = i - a /\ Append(s.buf, i) = Buffer(a, i)
    <2>1. s.buf = Buffer(a, k) /\ s.start = a
      BY <1>4
    <2>2. QED
      BY <1>4, <2>1, BufferIs
  <1>6. \E d \in 1..i : CutAt(lines, open, d, i)
    <2>1. CASE cut
      <3>1. open = [chunks |-> Flush(s.chunks, lines, s.buf, s.start),
                    buf |-> <<i>>, start |-> i]
        BY <2>1
      <3>2. Covered(lines, open.chunks, k)
        BY <1>4, <1>5, <3>1, FlushCovers
      <3>3. Buffer(i, i) = <<i>>
        <4>1. i + 1 - i = 1 /\ i + 1 - 1 = i
          BY <1>2
        <4>2. Buffer(i, i) = [j \in 1..1 |-> i + j - 1]
          BY <4>1 DEF Buffer
        <4>3. \A j \in 1..1 : i + j - 1 = i
          BY <1>2
        <4>4. <<i>> = [j \in 1..1 |-> i]
          OBVIOUS
        <4> HIDE DEF i
        <4>5. QED
          BY <4>2, <4>3, <4>4
      <3>4. DefsEarly(lines, i, i)
        BY <1>2 DEF DefsEarly
      <3>5. i \in 1..i /\ i \in 1..(i + 1) /\ i < i + MaxLines /\ i - 1 = k
        BY <1>2
      <3>6. open = [chunks |-> open.chunks, buf |-> Buffer(i, i), start |-> i]
        BY <3>1, <3>3
      <3> HIDE DEF open, i
      <3>7. CutAt(lines, open, i, i)
        BY <3>2, <3>4, <3>5, <3>6 DEF CutAt
      <3>8. QED
        BY <3>5, <3>7
    <2>2. CASE ~cut
      <3>1. open = [s EXCEPT !.buf = Buffer(a, i)]
        BY <1>5, <2>2
      <3>2. open = [chunks |-> s.chunks, buf |-> Buffer(a, i), start |-> a]
        BY <1>4, <3>1
      <3>3. DefsEarly(lines, a, i)
        <4>1. SUFFICES ASSUME NEW j \in a..i, lines[j] = "def" PROVE j < a + 3
          BY DEF DefsEarly
        <4>2. CASE j = i
          BY <1>2, <1>4, <1>5, <2>2, <4>1, <4>2
        <4>3. CASE j \in a..k
          BY <1>4, <4>1, <4>3 DEF DefsEarly
        <4>4. QED
          BY <1>4, <4>2, <4>3
      <3>4. a \in 1..(i + 1)
        BY <1>2
      <3>5. open.chunks = s.chunks
        BY <3>2
      <3> HIDE DEF open, i
      <3>6. CutAt(lines, open, a, i)
        BY <1>3, <1>4, <3>2, <3>3, <3>4, <3>5 DEF CutAt
      <3>7. QED
        BY <3>6
    <2>3. QED
      BY <2>1, <2>2
  <1>7. PICK d \in 1..i : CutAt(lines, open, d, i)
    BY <1>6
  <1> HIDE DEF open, next
  <1>8. /\ d \in Nat \ {0} /\ d <= i + 1 /\ i < d + MaxLines
        /\ open.buf = Buffer(d, i) /\ open.start = d
        /\ Covered(lines, open.chunks, d - 1) /\ DefsEarly(lines, d, i)
        /\ Len(open.buf) = i + 1 - d
    <2>1. d \in Nat \ {0} /\ d <= i + 1 /\ i < d + MaxLines
      BY <1>2, <1>7 DEF CutAt
    <2>2. open.buf = Buffer(d, i) /\ open.start = d
      BY <1>7 DEF CutAt
    <2>3. Len(Buffer(d, i)) = i + 1 - d
      <3> HIDE DEF i
      <3>1. QED
        BY <1>2, <2>1, BufferIs
    <2>4. QED
      BY <1>7, <2>1, <2>2, <2>3 DEF CutAt
  <1> HIDE DEF i
  <1>9. CASE Len(open.buf) >= MaxLines
    <2> DEFINE all == Flush(open.chunks, lines, open.buf, open.start)
    <2>1. next = [chunks |-> all, buf |-> <<>>, start |-> i + 1]
      BY <1>1, <1>9
    <2>2. Covered(lines, all, i)
      BY <1>2, <1>8, FlushCovers
    <2>3. Buffer(i + 1, i) = <<>>
      <3>1. 1..(i + 1 - (i + 1)) = {}
        BY <1>2
      <3>2. QED
        BY <3>1 DEF Buffer
    <2>4. DefsEarly(lines, i + 1, i)
      BY <1>2 DEF DefsEarly
    <2> HIDE DEF all
    <2>5. next.chunks = all /\ next = [chunks |-> all, buf |-> Buffer(i + 1, i), start |-> i + 1]
      BY <2>1, <2>3
    <2>6. i + 1 \in 1..(i + 1) /\ i < (i + 1) + MaxLines /\ (i + 1) - 1 = i
          /\ i + 1 < (i + 1) + MaxLines
      BY <1>2
    <2>7. CutAt(lines, next, i + 1, i)
      BY <2>2, <2>4, <2>5, <2>6 DEF CutAt
    <2>8. QED
      BY <2>6, <2>7 DEF Cut, next, i
  <1>10. CASE ~(Len(open.buf) >= MaxLines)
    <2>1. next = open /\ i + 1 < d + MaxLines /\ d \in 1..(i + 1)
      BY <1>1, <1>2, <1>8, <1>10
    <2>2. QED
      BY <1>7, <2>1 DEF Cut, next, i
  <1>11. QED
    BY <1>9, <1>10

\* The fold over the lines: what there is of the file is cut after each of them.
LEMMA CutTypes ==
    ASSUME NEW lines, NEW s \in Cutting, NEW i \in Nat
    PROVE  ChunkLine(s, lines, i) \in Cutting
  <1>1. ASSUME NEW chunks \in Seq(Chunk), NEW buf \in Seq(Nat), NEW start \in Nat
        PROVE  Flush(chunks, lines, buf, start) \in Seq(Chunk)
    <2>1. Strip(lines, buf) \in SUBSET Nat
      <3>1. \A j \in DOMAIN buf : buf[j] \in Nat
        BY <1>1
      <3>2. QED
        BY <3>1 DEF Strip
    <2>2. [start |-> start, content |-> Strip(lines, buf)] \in Chunk
      BY <2>1 DEF Chunk
    <2>3. QED
      BY <1>1, <2>2 DEF Flush
  <1>2. /\ s = [chunks |-> s.chunks, buf |-> s.buf, start |-> s.start]
        /\ s.chunks \in Seq(Chunk) /\ s.buf \in Seq(Nat) /\ s.start \in Nat
    BY DEF Cutting
  <1> DEFINE open == IF lines[i] = "def" /\ Len(s.buf) >= 3
                     THEN [chunks |-> Flush(s.chunks, lines, s.buf, s.start),
                           buf |-> <<i>>, start |-> i]
                     ELSE [s EXCEPT !.buf = Append(@, i)]
  <1>3. open.chunks \in Seq(Chunk) /\ open.buf \in Seq(Nat) /\ open.start \in Nat
    <2>1. Flush(s.chunks, lines, s.buf, s.start) \in Seq(Chunk)
      BY <1>1, <1>2
    <2>2. <<i>> \in Seq(Nat) /\ Append(s.buf, i) \in Seq(Nat)
      BY <1>2
    <2> HIDE DEF open
    <2>3. ASSUME NEW b
          PROVE  [s EXCEPT !.buf = b] = [chunks |-> s.chunks, buf |-> b, start |-> s.start]
      BY <1>2
    <2> USE DEF open
    <2>4. QED
      BY <1>2, <2>1, <2>2, <2>3
  <1>4. open \in Cutting
    <2>1. CASE lines[i] = "def" /\ Len(s.buf) >= 3
      BY <1>3, <2>1 DEF Cutting
    <2>2. CASE ~(lines[i] = "def" /\ Len(s.buf) >= 3)
      <3>1. Append(s.buf, i) \in Seq(Nat)
        BY <1>2
      <3>2. QED
        BY <1>2, <2>2, <3>1 DEF Cutting
    <2>3. QED
      BY <2>1, <2>2
  <1>5. ChunkLine(s, lines, i) = IF Len(open.buf) >= MaxLines
          THEN [chunks |-> Flush(open.chunks, lines, open.buf, open.start),
                buf |-> <<>>, start |-> i + 1]
          ELSE open
    BY DEF ChunkLine
  <1> HIDE DEF open
  <1>6. Flush(open.chunks, lines, open.buf, open.start) \in Seq(Chunk)
    BY <1>1, <1>3
  <1>7. <<>> \in Seq(Nat) /\ i + 1 \in Nat
    OBVIOUS
  <1>8. [chunks |-> Flush(open.chunks, lines, open.buf, open.start),
         buf |-> <<>>, start |-> i + 1] \in Cutting
    BY <1>6, <1>7 DEF Cutting
  <1>9. QED
    BY <1>4, <1>5, <1>8

LEMMA CutAll ==
    ASSUME NEW Line, NEW lines \in Seq(Line)
    PROVE  \E end : Cut(lines, end, Len(lines))
                      /\ ChunkFile(lines) = Flush(end.chunks, lines, end.buf, end.start)
  <1> DEFINE N == Len(lines)
             base == [chunks |-> <<>>, buf |-> <<>>, start |-> 1]
             Step == [p \in Cutting \X Nat |-> ChunkLine(p[1], lines, p[2])]
             numbers == [i \in DOMAIN lines |-> i]
             Eq(f) == f = [T \in SUBSET DOMAIN numbers |->
                             IF T = {} THEN base
                             ELSE ChunkLine(f[T \ {Max(T)}], lines, numbers[Max(T)])]
             iter == CHOOSE f : Eq(f)
  <1>1. N \in Nat /\ DOMAIN numbers = 1..N /\ \A k \in 1..N : numbers[k] = k
    OBVIOUS
  <1>2. base \in Cutting
    <2>1. <<>> \in Seq(Chunk) /\ <<>> \in Seq(Nat)
      OBVIOUS
    <2>2. QED
      BY <2>1 DEF Cutting
  <1>3. Step \in [Cutting \X Nat -> Cutting]
    <2>1. \A p \in Cutting \X Nat : ChunkLine(p[1], lines, p[2]) \in Cutting
      BY CutTypes
    <2>2. QED
      BY <2>1
  <1>4. PICK g \in [SUBSET (1..N) -> Cutting] : Folds1(g, N, base, Step)
    <2> HIDE DEF N, base, Step
    <2>1. \E g \in [SUBSET (1..N) -> Cutting] : Folds1(g, N, base, Step)
      BY <1>1, <1>2, <1>3, FoldExists
    <2>2. QED
      BY <2>1
  <1> HIDE DEF base
  <1>5. Eq(g)
    <2>1. ASSUME NEW T \in SUBSET (1..N), T # {}
          PROVE  Step[<<g[T \ {Max(T)}], Max(T)>>]
                   = ChunkLine(g[T \ {Max(T)}], lines, numbers[Max(T)])
      <3> HIDE DEF N
      <3>1. Max(T) \in T
        BY <1>1, <2>1, MaxIs, T \subseteq 0..N
      <3> DEFINE m == Max(T)
      <3> HIDE DEF m, Step, numbers
      <3>2. m \in 1..N /\ m \in Nat /\ T \ {m} \in SUBSET (1..N)
        <4>1. m \in T
          BY <3>1 DEF m
        <4>2. QED
          BY <4>1
      <3> USE DEF m, Step, numbers
      <3>3. numbers[Max(T)] = Max(T)
        BY <1>1, <3>2
      <3> HIDE DEF Step
      <3>4. g[T \ {Max(T)}] \in Cutting
        BY <1>4, <3>2
      <3> USE DEF Step
      <3> HIDE DEF numbers
      <3>5. QED
        BY <3>2, <3>3, <3>4
    <2>2. \A T \in SUBSET (1..N) :
            g[T] = IF T = {} THEN base ELSE Step[<<g[T \ {Max(T)}], Max(T)>>]
      BY <1>4 DEF Folds1
    <2>3. \A T \in SUBSET (1..N) :
            g[T] = IF T = {} THEN base
                   ELSE ChunkLine(g[T \ {Max(T)}], lines, numbers[Max(T)])
      BY <2>1, <2>2
    <2>4. g = [T \in SUBSET (1..N) |-> g[T]]
      BY <1>4
    <2>5. QED
      BY <1>1, <2>3, <2>4
  <1>6. Eq(iter)
    BY <1>5
  <1>7. ChunkFile(lines)
          = LET end == iter[DOMAIN numbers] IN Flush(end.chunks, lines, end.buf, end.start)
    BY DEF ChunkFile, FoldLeft, MapThenFoldSet, base
  <1> HIDE DEF iter
  <1>8. iter[{}] = base
    BY <1>6
  <1>9. ASSUME NEW k \in Nat, k < N
        PROVE  iter[1..(k + 1)] = ChunkLine(iter[1..k], lines, k + 1)
    <2>1. 1..(k + 1) \in SUBSET DOMAIN numbers /\ k + 1 \in 1..N
      BY <1>1, <1>9
    <2>2. iter[1..(k + 1)] = ChunkLine(iter[(1..(k + 1)) \ {Max(1..(k + 1))}], lines,
                                       numbers[Max(1..(k + 1))])
      BY <1>6, <2>1, UpTo
    <2>3. numbers[k + 1] = k + 1
      BY <1>1, <2>1
    <2> HIDE DEF numbers
    <2>4. QED
      BY <2>2, <2>3, UpTo
  <1> DEFINE S == {k \in Nat : Cut(lines, iter[1..k], k)}
  <1>10. 0 \in S
    <2>1. Buffer(1, 0) = <<>>
      BY 1..(0 + 1 - 1) = {} DEF Buffer
    <2>2. Covered(lines, <<>>, 0)
      <3>1. <<>> \in Seq(Chunk) /\ 1..0 = {} /\ DOMAIN <<>> = {}
        OBVIOUS
      <3>2. QED
        BY <3>1 DEF Covered
    <2>3. DefsEarly(lines, 1, 0)
      BY DEF DefsEarly
    <2>4. MaxLines \in Nat \ {0}
      BY ChunkerAssumption
    <2>5. 1 \in 1..(0 + 1) /\ 0 < 1 + MaxLines /\ 0 + 1 < 1 + MaxLines /\ 1 - 1 = 0
      BY <2>4
    <2>6. base.chunks = <<>> /\ base = [chunks |-> <<>>, buf |-> Buffer(1, 0), start |-> 1]
      BY <2>1 DEF base
    <2>7. CutAt(lines, base, 1, 0)
      BY <2>2, <2>3, <2>5, <2>6 DEF CutAt
    <2>8. Cut(lines, base, 0)
      BY <2>5, <2>7 DEF Cut
    <2>9. 1..0 = {}
      OBVIOUS
    <2>10. QED
      BY <1>8, <2>8, <2>9
  <1>11. \A k \in Nat : k < N /\ k \in S => k + 1 \in S
    BY <1>9, CutOneLine
  <1>12. N \in S
    <2> HIDE DEF N, S
    <2>1. \A k \in 0..N : k \in S
      BY <1>1, <1>10, <1>11, CountingUp
    <2>2. QED
      BY <1>1, <2>1
  <1>13. Cut(lines, iter[1..N], N)
    BY <1>12
  <1>14. QED
    BY <1>1, <1>7, <1>13

\* For a file of any length and any MaxLines: chunk_file loses and repeats no line with
\* text, cuts no chunk longer than MaxLines, keeps definitions near the beginning of a chunk
\* and tells where a chunk begins.
THEOREM FilesCovered ==
    ASSUME NEW Line, NEW lines \in Seq(Line)
    PROVE  ChunksOf(lines, ChunkFile(lines))
  <1> DEFINE N == Len(lines)
             chunks == ChunkFile(lines)
  <1>1. N \in Nat /\ DOMAIN lines = 1..N
    OBVIOUS
  <1>2. Covered(lines, chunks, N)
    <2>1. PICK end : Cut(lines, end, N) /\ chunks = Flush(end.chunks, lines, end.buf, end.start)
      BY CutAll
    <2>2. PICK a \in 1..(N + 1) : CutAt(lines, end, a, N)
      BY <2>1 DEF Cut
    <2>3. /\ a \in Nat \ {0} /\ a <= N + 1 /\ N < a + MaxLines
          /\ end.buf = Buffer(a, N) /\ end.start = a
          /\ Covered(lines, end.chunks, a - 1) /\ DefsEarly(lines, a, N)
      BY <1>1, <2>2 DEF CutAt
    <2> HIDE DEF chunks, N
    <2>4. Covered(lines, Flush(end.chunks, lines, Buffer(a, N), a), N)
      BY <1>1, <2>3, FlushCovers
    <2>5. QED
      BY <2>1, <2>3, <2>4
  <1> HIDE DEF chunks, N
  <1>3. ASSUME NEW c \in DOMAIN chunks
        PROVE  LET first == CHOOSE i \in chunks[c].content : \A j \in chunks[c].content : i <= j
               IN  /\ \A i \in chunks[c].content : i < chunks[c].start + MaxLines
                   /\ chunks[c].start <= first
                   /\ \A i \in chunks[c].start..(first - 1) : lines[i] = "blank"
                   /\ \A i \in chunks[c].content : lines[i] = "def" => i < chunks[c].start + 3
    <2> DEFINE content == chunks[c].content
               start == chunks[c].start
               first == CHOOSE i \in content : \A j \in content : i <= j
    <2>1. PICK b \in 1..N : Piece(lines, chunks[c], b)
      BY <1>2 DEF Covered
    <2>2. /\ start \in 1..b /\ b < start + MaxLines /\ content = Body(lines, start, b)
          /\ content # {} /\ DefsEarly(lines, start, b) /\ MaxLines \in Nat
      BY <2>1, ChunkerAssumption DEF Piece
    <2>3. content \subseteq start..b
      BY <2>2 DEF Body
    <2>4. first \in content /\ \A j \in content : first <= j
      <3>1. content \subseteq Nat
        BY <2>2, <2>3
      <3> HIDE DEF content
      <3>2. \E i \in content : \A j \in content : i <= j
        BY <2>2, <3>1, LeastNumber
      <3>3. QED
        BY <3>2
    <2> HIDE DEF content, start, first
    <2>5. \A i \in content : i < start + MaxLines
      BY <2>2, <2>3
    <2>6. start <= first
      BY <2>2, <2>3, <2>4
    <2>7. ASSUME NEW i \in start..(first - 1), lines[i] # "blank"
          PROVE  FALSE
      <3>1. i \in start..b /\ ~(first <= i)
        BY <2>2, <2>3, <2>4
      <3>2. i \in content
        BY <2>2, <2>7, <3>1 DEF Body
      <3>3. QED
        BY <2>4, <3>1, <3>2
    <2>8. \A i \in content : lines[i] = "def" => i < start + 3
      BY <2>2, <2>3 DEF DefsEarly
    <2>9. QED
      BY <2>5, <2>6, <2>7, <2>8 DEF content, start, first
  <1>4. ASSUME NEW i \in DOMAIN lines, lines[i] # "blank"
        PROVE  \E c \in DOMAIN chunks : i \in chunks[c].content
    BY <1>1, <1>2, <1>4 DEF Covered, N
  <1>5. ASSUME NEW c \in DOMAIN chunks, NEW d \in DOMAIN chunks, c < d,
               NEW i \in chunks[c].content, NEW j \in chunks[d].content
        PROVE  i < j
    BY <1>2, <1>5 DEF Covered
  <1>6. QED
    BY <1>3, <1>4, <1>5 DEF ChunksOf, chunks

(***************************************************************************)
(* What the reports read of a git log: WeeklyReport.  The lines of a log   *)
(* are of any authors, categories and directories.                         *)
(***************************************************************************)
LogLine(Authors, Categories, Dirs) ==
    [kind : {"commit"}, author : Authors, category : Categories]
      \cup [kind : {"numstat"}, dir : Dirs, churn : Nat]
      \cup [kind : {"rest"}]

CommitRead(Authors, Categories, Dirs) ==
    [author : Authors, category : Categories, files : Nat, churn : Nat, dirs : SUBSET Dirs]

Ones(lines) == [i \in DOMAIN lines |-> 1]

Churns(lines) == [i \in DOMAIN lines |-> IF lines[i].kind = "numstat" THEN lines[i].churn ELSE 0]

CommitsTo(lines, k) == {j \in 1..k : lines[j].kind = "commit"}

\* The files that the commit of line j has up to line k.
Under(lines, excluded, j, k) ==
    {i \in j..k : /\ lines[i].kind = "numstat" /\ lines[i].dir \notin excluded
                  /\ \A m \in (j + 1)..i : lines[m].kind # "commit"}

\* After k lines there is a commit for each commit line, in their order, with its files.
AsRead(lines, excluded, commits, at, k) ==
    /\ at \in [1..Len(commits) -> CommitsTo(lines, k)]
    /\ \A p, q \in 1..Len(commits) : p < q => at[p] < at[q]
    /\ \A j \in CommitsTo(lines, k) : \E p \in 1..Len(commits) : at[p] = j
    /\ \A p \in 1..Len(commits) :
          LET own == Under(lines, excluded, at[p], k)
          IN  /\ commits[p].author = lines[at[p]].author
              /\ commits[p].files = SumFunctionOnSet(Ones(lines), own)
              /\ commits[p].churn = SumFunctionOnSet(Churns(lines), own)

\* One line read: a commit more, a file more for the last commit, or nothing.
ReadsOne(commits, line, excluded, next) ==
    /\ line.kind = "commit" =>
          /\ Len(next) = Len(commits) + 1
          /\ \A p \in 1..Len(commits) : next[p] = commits[p]
          /\ LET new == next[Len(next)]
             IN  new.author = line.author /\ new.files = 0 /\ new.churn = 0
    /\ line.kind = "numstat" /\ line.dir \notin excluded /\ commits # <<>> =>
          /\ Len(next) = Len(commits)
          /\ \A p \in 1..Len(commits) : p # Len(commits) => next[p] = commits[p]
          /\ LET last == next[Len(commits)]
                 was == commits[Len(commits)]
             IN  /\ last.author = was.author
                 /\ last.files = was.files + 1
                 /\ last.churn = was.churn + line.churn
    /\ line.kind # "commit" /\ ~(line.kind = "numstat" /\ line.dir \notin excluded /\ commits # <<>>) =>
          next = commits

\* Reading a line makes commits of commits, and does one of those.
LEMMA ReadTypes ==
    ASSUME NEW Authors, NEW Categories, NEW Dirs, NEW line \in LogLine(Authors, Categories, Dirs),
           NEW commits \in Seq(CommitRead(Authors, Categories, Dirs)), NEW excluded
    PROVE  /\ ReadIncluded(commits, line, excluded) \in Seq(CommitRead(Authors, Categories, Dirs))
           /\ ReadsOne(commits, line, excluded, ReadIncluded(commits, line, excluded))
  <1> DEFINE Rec == CommitRead(Authors, Categories, Dirs)
             next == ReadIncluded(commits, line, excluded)
             n == Len(commits)
  <1>1. CASE line.kind = "commit"
    <2> DEFINE new == [author |-> line.author, category |-> line.category,
                       files |-> 0, churn |-> 0, dirs |-> {}]
    <2>1. next = Append(commits, new)
      BY <1>1 DEF ReadIncluded, ReadLine
    <2>2. new \in Rec
      BY <1>1 DEF LogLine, CommitRead
    <2> HIDE DEF new
    <2>3. next \in Seq(Rec) /\ Len(next) = n + 1 /\ next[n + 1] = new
          /\ \A p \in 1..n : next[p] = commits[p]
      <3> HIDE DEF Rec
      <3>1. commits \in Seq(Rec)
        BY DEF Rec
      <3>2. QED
        BY <2>1, <2>2, <3>1
    <2>4. new.author = line.author /\ new.files = 0 /\ new.churn = 0
      BY DEF new
    <2> HIDE DEF next
    <2>5. QED
      BY <1>1, <2>3, <2>4 DEF next, ReadsOne
  <1>2. CASE line.kind = "numstat" /\ line.dir \notin excluded /\ commits # <<>>
    <2> DEFINE last == [commits[n] EXCEPT !.files = @ + 1, !.churn = @ + line.churn,
                                          !.dirs = @ \cup ({line.dir} \ {""})]
    <2>1. n \in 1..n /\ n \in Nat /\ DOMAIN commits = 1..n /\ commits[n] \in Rec
      BY <1>2
    <2>2. next = [commits EXCEPT ![n] = last]
      BY <1>2 DEF ReadIncluded, ReadLine
    <2>3. line.dir \in Dirs /\ line.churn \in Nat
      BY <1>2 DEF LogLine
    <2>4. last \in Rec
      <3>1. ASSUME NEW c \in Rec
            PROVE  [c EXCEPT !.files = @ + 1, !.churn = @ + line.churn,
                             !.dirs = @ \cup ({line.dir} \ {""})] \in Rec
        <4>1. c.files + 1 \in Nat /\ c.churn + line.churn \in Nat
          BY <2>3 DEF CommitRead
        <4>2. c.dirs \cup ({line.dir} \ {""}) \in SUBSET Dirs
          BY <2>3 DEF CommitRead
        <4>3. QED
          BY <4>1, <4>2 DEF CommitRead
      <3>2. QED
        BY <2>1, <3>1
    <2>5. /\ last.author = commits[n].author
          /\ last.files = commits[n].files + 1
          /\ last.churn = commits[n].churn + line.churn
      BY <2>1 DEF CommitRead
    <2> HIDE DEF last, Rec
    <2>6. next \in Seq(Rec) /\ Len(next) = n /\ next[n] = last
          /\ \A p \in 1..n : p # n => next[p] = commits[p]
      <3>1. commits \in Seq(Rec)
        BY DEF Rec
      <3>2. QED
        BY <2>1, <2>2, <2>4, <3>1
    <2> HIDE DEF next
    <2>7. QED
      BY <1>2, <2>5, <2>6 DEF next, Rec, ReadsOne
  <1>3. CASE line.kind # "commit"
             /\ ~(line.kind = "numstat" /\ line.dir \notin excluded /\ commits # <<>>)
    <2>1. next = commits
      BY <1>3 DEF ReadIncluded, ReadLine
    <2> HIDE DEF next
    <2>2. QED
      BY <1>3, <2>1 DEF next, ReadsOne
  <1>4. QED
    BY <1>1, <1>2, <1>3

\* A line more adds itself to the files of the last commit, if it is one.
LEMMA UnderOne ==
    ASSUME NEW lines, NEW excluded, NEW k \in Nat, NEW j \in 1..k
    PROVE  Under(lines, excluded, j, k + 1)
             = IF /\ lines[k + 1].kind = "numstat" /\ lines[k + 1].dir \notin excluded
                  /\ \A m \in (j + 1)..(k + 1) : lines[m].kind # "commit"
               THEN Under(lines, excluded, j, k) \cup {k + 1}
               ELSE Under(lines, excluded, j, k)
  <1>1. j..(k + 1) = (j..k) \cup {k + 1}
    OBVIOUS
  <1>2. QED
    BY <1>1 DEF Under

\* One element more adds its number.
LEMMA TotalAdded ==
    ASSUME NEW D, IsFiniteSet(D), NEW f \in [D -> Nat], NEW T \in SUBSET D, NEW x \in D, x \notin T
    PROVE  SumFunctionOnSet(f, T \cup {x}) = SumFunctionOnSet(f, T) + f[x]
  <1> DEFINE U == T \cup {x}
  <1>1. Totals(f, D)
    BY Total
  <1>2. U \in SUBSET D /\ x \in U /\ U \ {x} = T
    OBVIOUS
  <1> HIDE DEF U
  <1>3. /\ SumFunctionOnSet(f, U) = f[x] + SumFunctionOnSet(f, T)
        /\ SumFunctionOnSet(f, T) \in Nat /\ f[x] \in Nat
    BY <1>1, <1>2 DEF Totals
  <1>4. QED
    BY <1>3 DEF U

\* A log has finitely many lines, each with the numbers that the sums are of.
LEMMA LogSums ==
    ASSUME NEW Authors, NEW Categories, NEW Dirs,
           NEW lines \in Seq(LogLine(Authors, Categories, Dirs))
    PROVE  /\ DOMAIN lines = 1..Len(lines) /\ Len(lines) \in Nat /\ IsFiniteSet(DOMAIN lines)
           /\ Ones(lines) \in [DOMAIN lines -> Nat]
           /\ Churns(lines) \in [DOMAIN lines -> Nat]
           /\ \A i \in DOMAIN lines : lines[i] \in LogLine(Authors, Categories, Dirs)
  <1>1. /\ DOMAIN lines = 1..Len(lines) /\ Len(lines) \in Nat
        /\ \A i \in DOMAIN lines : lines[i] \in LogLine(Authors, Categories, Dirs)
    OBVIOUS
  <1>2. IsFiniteSet(DOMAIN lines)
    BY <1>1, FS_Interval
  <1>3. \A line \in LogLine(Authors, Categories, Dirs) : line.kind = "numstat" => line.churn \in Nat
    BY DEF LogLine
  <1>4. QED
    BY <1>1, <1>2, <1>3 DEF Ones, Churns

\* One line more is read as all lines before it were.
LEMMA ReadOneLine ==
    ASSUME NEW Authors, NEW Categories, NEW Dirs,
           NEW lines \in Seq(LogLine(Authors, Categories, Dirs)), NEW excluded,
           NEW k \in Nat, k < Len(lines),
           NEW commits \in Seq(CommitRead(Authors, Categories, Dirs)),
           NEW next \in Seq(CommitRead(Authors, Categories, Dirs)),
           ReadsOne(commits, lines[k + 1], excluded, next),
           NEW at, AsRead(lines, excluded, commits, at, k)
    PROVE  \E to : AsRead(lines, excluded, next, to, k + 1)
  <1> DEFINE n == Len(commits)
             line == lines[k + 1]
             U(j) == Under(lines, excluded, j, k)
             V(j) == Under(lines, excluded, j, k + 1)
             O == Ones(lines)
             W == Churns(lines)
  <1>1. /\ n \in Nat /\ DOMAIN commits = 1..n
        /\ k + 1 \in DOMAIN lines /\ 1..k \subseteq DOMAIN lines
        /\ k + 1 \in 1..(k + 1) /\ 1..(k + 1) = (1..k) \cup {k + 1}
    OBVIOUS
  <1>2. /\ at \in [1..n -> CommitsTo(lines, k)]
        /\ \A p, q \in 1..n : p < q => at[p] < at[q]
        /\ \A j \in CommitsTo(lines, k) : \E p \in 1..n : at[p] = j
        /\ \A p \in 1..n :
              /\ commits[p].author = lines[at[p]].author
              /\ commits[p].files = SumFunctionOnSet(O, U(at[p]))
              /\ commits[p].churn = SumFunctionOnSet(W, U(at[p]))
    BY DEF AsRead
  <1>3. \A p \in 1..n : at[p] \in 1..k /\ at[p] \in Nat /\ lines[at[p]].kind = "commit"
    BY <1>2 DEF CommitsTo
  <1>4. IsFiniteSet(DOMAIN lines) /\ O \in [DOMAIN lines -> Nat] /\ W \in [DOMAIN lines -> Nat]
    BY LogSums
  <1>5. CASE line.kind = "commit"
    <2> DEFINE to == [p \in 1..(n + 1) |-> IF p = n + 1 THEN k + 1 ELSE at[p]]
    <2>1. /\ Len(next) = n + 1 /\ \A p \in 1..n : next[p] = commits[p]
          /\ next[n + 1].author = line.author
          /\ next[n + 1].files = 0 /\ next[n + 1].churn = 0
      BY <1>5 DEF ReadsOne
    <2>2. CommitsTo(lines, k + 1) = CommitsTo(lines, k) \cup {k + 1}
      BY <1>1, <1>5 DEF CommitsTo
    <2>3. \A p \in 1..n : V(at[p]) = U(at[p])
      BY <1>3, <1>5, UnderOne
    <2>4. V(k + 1) = {}
      BY <1>5 DEF Under
    <2>5. SumFunctionOnSet(O, {}) = 0 /\ SumFunctionOnSet(W, {}) = 0
      BY <1>4, Total DEF Totals
    <2>6. 1..(n + 1) = (1..n) \cup {n + 1} /\ n + 1 \notin 1..n
      BY <1>1
    <2>7. to \in [1..Len(next) -> CommitsTo(lines, k + 1)]
      BY <1>2, <2>1, <2>2, <2>6
    <2>8. \A p, q \in 1..Len(next) : p < q => to[p] < to[q]
      <3>1. ASSUME NEW p \in 1..(n + 1), NEW q \in 1..(n + 1), p < q
            PROVE  to[p] < to[q]
        <4>1. p \in 1..n
          BY <1>1, <3>1
        <4>2. CASE q = n + 1
          BY <1>3, <4>1, <4>2
        <4>3. CASE q \in 1..n
          BY <1>1, <1>2, <3>1, <4>1, <4>3
        <4>4. QED
          BY <2>6, <4>2, <4>3
      <3>2. QED
        BY <2>1, <3>1
    <2>9. \A j \in CommitsTo(lines, k + 1) : \E p \in 1..Len(next) : to[p] = j
      <3>1. ASSUME NEW j \in CommitsTo(lines, k)
            PROVE  \E p \in 1..(n + 1) : to[p] = j
        <4>1. PICK p \in 1..n : at[p] = j
          BY <1>2
        <4>2. p \in 1..(n + 1) /\ to[p] = j
          BY <2>6, <4>1
        <4>3. QED
          BY <4>2
      <3>2. n + 1 \in 1..(n + 1) /\ to[n + 1] = k + 1
        BY <2>6
      <3>3. QED
        BY <2>1, <2>2, <3>1, <3>2
    <2>10. ASSUME NEW p \in 1..Len(next)
           PROVE  /\ next[p].author = lines[to[p]].author
                  /\ next[p].files = SumFunctionOnSet(O, V(to[p]))
                  /\ next[p].churn = SumFunctionOnSet(W, V(to[p]))
      <3>1. CASE p \in 1..n
        <4>1. to[p] = at[p] /\ next[p] = commits[p] /\ V(to[p]) = U(at[p])
          BY <2>1, <2>3, <2>6, <3>1
        <4> HIDE DEF U, V, O, W, to
        <4>2. QED
          BY <1>2, <3>1, <4>1
      <3>2. CASE p = n + 1
        <4>1. to[p] = k + 1
          BY <2>6, <3>2
        <4> HIDE DEF V, O, W, to
        <4>2. QED
          BY <2>1, <2>4, <2>5, <3>2, <4>1
      <3>3. QED
        BY <2>1, <2>6, <3>1, <3>2
    <2> HIDE DEF to
    <2>11. AsRead(lines, excluded, next, to, k + 1)
      BY <2>7, <2>8, <2>9, <2>10 DEF AsRead
    <2>12. QED
      BY <2>11
  <1>6. CASE line.kind = "numstat" /\ line.dir \notin excluded /\ commits # <<>>
    <2>1. /\ Len(next) = n /\ \A p \in 1..n : p # n => next[p] = commits[p]
          /\ next[n].author = commits[n].author
          /\ next[n].files = commits[n].files + 1
          /\ next[n].churn = commits[n].churn + line.churn
      BY <1>6 DEF ReadsOne
    <2>2. CommitsTo(lines, k + 1) = CommitsTo(lines, k)
      BY <1>1, <1>6 DEF CommitsTo
    <2>3. n \in 1..n
      BY <1>1, <1>6
    <2>4. ASSUME NEW p \in 1..n, p # n
          PROVE  V(at[p]) = U(at[p])
      <3>1. at[n] \in (at[p] + 1)..(k + 1) /\ lines[at[n]].kind = "commit"
        <4>1. p < n
          BY <2>4
        <4>2. at[p] < at[n] /\ at[n] \in 1..k /\ at[p] \in 1..k /\ lines[at[n]].kind = "commit"
          BY <1>2, <1>3, <2>3, <4>1
        <4>3. QED
          BY <4>2
      <3>2. at[p] \in 1..k
        BY <1>3
      <3>3. QED
        BY <3>1, <3>2, UnderOne
    <2>5. V(at[n]) = U(at[n]) \cup {k + 1}
      <3>1. ASSUME NEW m \in (at[n] + 1)..(k + 1), lines[m].kind = "commit"
            PROVE  FALSE
        <4>1. at[n] \in 1..k
          BY <1>3, <2>3
        <4>2. m \in 1..k /\ at[n] < m
          BY <1>6, <3>1, <4>1
        <4>3. m \in CommitsTo(lines, k)
          BY <3>1, <4>2 DEF CommitsTo
        <4>4. PICK q \in 1..n : at[q] = m
          BY <1>2, <4>3
        <4>5. q = n \/ at[q] < at[n]
          BY <1>2, <2>3
        <4>6. QED
          BY <4>1, <4>2, <4>4, <4>5
      <3>2. at[n] \in 1..k
        BY <1>3, <2>3
      <3>3. \A m \in (at[n] + 1)..(k + 1) : lines[m].kind # "commit"
        BY <3>1
      <3> DEFINE j == at[n]
      <3> HIDE DEF j
      <3>4. j \in 1..k /\ \A m \in (j + 1)..(k + 1) : lines[m].kind # "commit"
        BY <3>2, <3>3 DEF j
      <3>5. Under(lines, excluded, j, k + 1) = Under(lines, excluded, j, k) \cup {k + 1}
        <4>1. Under(lines, excluded, j, k + 1)
                = IF /\ lines[k + 1].kind = "numstat" /\ lines[k + 1].dir \notin excluded
                     /\ \A m \in (j + 1)..(k + 1) : lines[m].kind # "commit"
                  THEN Under(lines, excluded, j, k) \cup {k + 1}
                  ELSE Under(lines, excluded, j, k)
          BY <3>4, UnderOne
        <4>2. QED
          BY <1>6, <3>4, <4>1
      <3>6. QED
        BY <3>5 DEF j
    <2>6. U(at[n]) \subseteq 1..k
      <3>1. at[n] \in 1..k
        BY <1>3, <2>3
      <3>2. QED
        BY <3>1 DEF Under
    <2>7. O[k + 1] = 1 /\ W[k + 1] = line.churn
      BY <1>1, <1>6 DEF Ones, Churns
    <2>8. /\ SumFunctionOnSet(O, V(at[n])) = SumFunctionOnSet(O, U(at[n])) + 1
          /\ SumFunctionOnSet(W, V(at[n])) = SumFunctionOnSet(W, U(at[n])) + line.churn
      <3>1. U(at[n]) \in SUBSET DOMAIN lines /\ k + 1 \notin U(at[n]) /\ k + 1 \in DOMAIN lines
        BY <1>1, <2>6
      <3> DEFINE S == U(at[n])
                 x == k + 1
      <3>2. S \in SUBSET DOMAIN lines /\ x \notin S /\ x \in DOMAIN lines /\ V(at[n]) = S \cup {x}
        BY <2>5, <3>1
      <3> HIDE DEF S, x, O, W
      <3>3. /\ SumFunctionOnSet(O, S \cup {x}) = SumFunctionOnSet(O, S) + O[x]
            /\ SumFunctionOnSet(W, S \cup {x}) = SumFunctionOnSet(W, S) + W[x]
        <4> DEFINE D == DOMAIN lines
        <4>1. /\ S \in SUBSET D /\ x \notin S /\ x \in D
              /\ IsFiniteSet(D) /\ O \in [D -> Nat] /\ W \in [D -> Nat]
          BY <1>4, <3>2
        <4> HIDE DEF D
        <4>2. SumFunctionOnSet(O, S \cup {x}) = SumFunctionOnSet(O, S) + O[x]
          BY <4>1, TotalAdded
        <4>3. SumFunctionOnSet(W, S \cup {x}) = SumFunctionOnSet(W, S) + W[x]
          BY <4>1, TotalAdded
        <4>4. QED
          BY <4>2, <4>3
      <3>4. O[x] = 1 /\ W[x] = line.churn
        BY <2>7 DEF x
      <3>5. V(at[n]) = S \cup {x} /\ U(at[n]) = S
        BY <3>2 DEF S
      <3> HIDE DEF U, V, line
      <3>6. QED
        BY <3>3, <3>4, <3>5
    <2>9. ASSUME NEW p \in 1..n
          PROVE  /\ next[p].author = lines[at[p]].author
                 /\ next[p].files = SumFunctionOnSet(O, V(at[p]))
                 /\ next[p].churn = SumFunctionOnSet(W, V(at[p]))
      <3> HIDE DEF O, W, U, V, line
      <3>1. CASE p = n
        BY <1>2, <2>1, <2>3, <2>8, <3>1
      <3>2. CASE p # n
        BY <1>2, <2>1, <2>4, <3>2
      <3>3. QED
        BY <3>1, <3>2
    <2>10. AsRead(lines, excluded, next, at, k + 1)
      BY <1>2, <2>1, <2>2, <2>9 DEF AsRead
    <2>11. QED
      BY <2>10
  <1>7. CASE line.kind # "commit"
             /\ ~(line.kind = "numstat" /\ line.dir \notin excluded /\ commits # <<>>)
    <2>1. next = commits
      BY <1>7 DEF ReadsOne
    <2>2. CommitsTo(lines, k + 1) = CommitsTo(lines, k)
      BY <1>1, <1>7 DEF CommitsTo
    <2>3. ASSUME NEW p \in 1..n
          PROVE  V(at[p]) = U(at[p])
      <3>1. commits # <<>> /\ at[p] \in 1..k
        BY <1>3
      <3>2. QED
        BY <1>7, <3>1, UnderOne
    <2> HIDE DEF V, U, O, W, line
    <2>4. \A p \in 1..n :
              /\ commits[p].author = lines[at[p]].author
              /\ commits[p].files = SumFunctionOnSet(O, V(at[p]))
              /\ commits[p].churn = SumFunctionOnSet(W, V(at[p]))
      BY <1>2, <2>3
    <2>5. AsRead(lines, excluded, next, at, k + 1)
      BY <1>2, <2>1, <2>2, <2>4 DEF AsRead, V, O, W
    <2>6. QED
      BY <2>5
  <1>8. QED
    BY <1>5, <1>6, <1>7


\* The commits read from the lines up to any.
ReadsAll(g, lines, excluded) ==
    g = [T \in SUBSET DOMAIN lines |->
            IF T = {} THEN <<>>
            ELSE ReadIncluded(g[T \ {Max(T)}], lines[Max(T)], excluded)]

\* Reading the lines one after the other gives some commits, whatever the lines are.
LEMMA LogReads ==
    ASSUME NEW Authors, NEW Categories, NEW Dirs,
           NEW lines \in Seq(LogLine(Authors, Categories, Dirs)), NEW excluded
    PROVE  \E g : ReadsAll(g, lines, excluded)
  <1> DEFINE N == Len(lines)
             Read == Seq(CommitRead(Authors, Categories, Dirs))
             Step == [p \in Read \X Nat |->
                         IF p[2] \in 1..N THEN ReadIncluded(p[1], lines[p[2]], excluded) ELSE p[1]]
  <1>1. DOMAIN lines = 1..N /\ N \in Nat
        /\ \A i \in 1..N : lines[i] \in LogLine(Authors, Categories, Dirs)
    BY LogSums
  <1>2. Step \in [Read \X Nat -> Read]
    <2>1. ASSUME NEW p \in Read \X Nat, p[2] \in 1..N
          PROVE  ReadIncluded(p[1], lines[p[2]], excluded) \in Read
      <3>1. p[1] \in Read /\ lines[p[2]] \in LogLine(Authors, Categories, Dirs)
        BY <1>1, <2>1
      <3>2. QED
        BY <3>1, ReadTypes
    <2> HIDE DEF Read, N
    <2>2. QED
      BY <2>1
  <1>3. <<>> \in Read
    OBVIOUS
  <1>4. PICK g \in [SUBSET (1..N) -> Read] : Folds1(g, N, <<>>, Step)
    <2> HIDE DEF N, Read, Step
    <2>1. \E g \in [SUBSET (1..N) -> Read] : Folds1(g, N, <<>>, Step)
      BY <1>1, <1>2, <1>3, FoldExists
    <2>2. QED
      BY <2>1
  <1>5. ASSUME NEW T \in SUBSET (1..N), T # {}
        PROVE  g[T] = ReadIncluded(g[T \ {Max(T)}], lines[Max(T)], excluded)
    <2>1. g[T] = Step[<<g[T \ {Max(T)}], Max(T)>>]
      BY <1>4, <1>5 DEF Folds1
    <2>2. Max(T) \in T
      <3> HIDE DEF N
      <3>1. T \subseteq 0..N
        BY <1>1
      <3>2. QED
        BY <1>1, <1>5, <3>1, MaxIs
    <2> DEFINE m == Max(T)
    <2>3. m \in T /\ g[T] = Step[<<g[T \ {m}], m>>]
      BY <2>1, <2>2
    <2> HIDE DEF m, N, Read
    <2>4. m \in 1..N /\ m \in Nat /\ g[T \ {m}] \in Read
      BY <1>1, <1>4, <2>3
    <2>5. QED
      BY <2>3, <2>4 DEF m
  <1>6. g = [T \in SUBSET (1..N) |-> g[T]] /\ g[{}] = <<>>
    BY <1>4 DEF Folds1
  <1> HIDE DEF N, Step, Read
  <1>7. \A T \in SUBSET (1..N) :
            g[T] = IF T = {} THEN <<>>
                   ELSE ReadIncluded(g[T \ {Max(T)}], lines[Max(T)], excluded)
    BY <1>5, <1>6
  <1>8. ReadsAll(g, lines, excluded)
    BY <1>1, <1>6, <1>7 DEF ReadsAll
  <1>9. QED
    BY <1>8

\* After the last line there is a commit for each commit line, with its files.
LEMMA AllRead ==
    ASSUME NEW Authors, NEW Categories, NEW Dirs,
           NEW lines \in Seq(LogLine(Authors, Categories, Dirs)), NEW excluded,
           NEW g, ReadsAll(g, lines, excluded)
    PROVE  /\ g[DOMAIN lines] \in Seq(CommitRead(Authors, Categories, Dirs))
           /\ \E at : AsRead(lines, excluded, g[DOMAIN lines], at, Len(lines))
  <1> DEFINE N == Len(lines)
             Read == Seq(CommitRead(Authors, Categories, Dirs))
             S == {k \in Nat : /\ g[1..k] \in Read
                               /\ \E at : AsRead(lines, excluded, g[1..k], at, k)}
  <1>1. DOMAIN lines = 1..N /\ N \in Nat
        /\ \A i \in 1..N : lines[i] \in LogLine(Authors, Categories, Dirs)
    BY LogSums
  <1>2. 0 \in S
    <2>1. 1..0 = {} /\ g[{}] = <<>> /\ <<>> \in Read
      BY DEF ReadsAll
    <2> DEFINE at == [p \in 1..0 |-> 0]
    <2>2. at \in [1..Len(<<>>) -> CommitsTo(lines, 0)] /\ Len(<<>>) = 0 /\ CommitsTo(lines, 0) = {}
      BY <2>1 DEF CommitsTo
    <2> HIDE DEF at
    <2>3. AsRead(lines, excluded, <<>>, at, 0)
      BY <2>1, <2>2 DEF AsRead
    <2>4. QED
      BY <2>1, <2>3
  <1>3. ASSUME NEW k \in Nat, k < N, k \in S
        PROVE  k + 1 \in S
    <2>1. 1..(k + 1) \in SUBSET DOMAIN lines /\ k + 1 \in 1..N
      BY <1>1, <1>3
    <2>2. g[1..(k + 1)] = ReadIncluded(g[(1..(k + 1)) \ {Max(1..(k + 1))}],
                                       lines[Max(1..(k + 1))], excluded)
      BY <2>1, UpTo DEF ReadsAll
    <2>3. g[1..(k + 1)] = ReadIncluded(g[1..k], lines[k + 1], excluded)
      BY <2>2, UpTo
    <2> DEFINE commits == g[1..k]
               next == g[1..(k + 1)]
    <2>4. PICK at : AsRead(lines, excluded, commits, at, k)
      BY <1>3
    <2>5. commits \in Read
      BY <1>3
    <2> HIDE DEF commits
    <2>6. next = ReadIncluded(commits, lines[k + 1], excluded)
      BY <2>3 DEF commits
    <2> HIDE DEF next
    <2>7. next \in Read /\ ReadsOne(commits, lines[k + 1], excluded, next)
      <3>1. lines[k + 1] \in LogLine(Authors, Categories, Dirs)
        BY <1>1, <2>1
      <3>2. QED
        BY <2>5, <2>6, <3>1, ReadTypes
    <2>8. \E to : AsRead(lines, excluded, next, to, k + 1)
      BY <1>3, <2>4, <2>5, <2>7, ReadOneLine
    <2>9. QED
      BY <2>7, <2>8 DEF next
  <1> HIDE DEF S
  <1>4. \A k \in 0..N : k \in S
    <2> HIDE DEF N
    <2>1. QED
      BY <1>1, <1>2, <1>3, CountingUp
  <1>5. N \in S
    BY <1>1, <1>4
  <1>6. QED
    BY <1>1, <1>5 DEF S

\* What the reports read of a log.
LEMMA Parsed ==
    ASSUME NEW Authors, NEW Categories, NEW Dirs,
           NEW lines \in Seq(LogLine(Authors, Categories, Dirs)), NEW excluded
    PROVE  /\ \E g : ReadsAll(g, lines, excluded) /\ ParseNumstat(lines, excluded) = g[DOMAIN lines]
           /\ \E g : ReadsAll(g, lines, {}) /\ ParseGitLog(lines) = g[DOMAIN lines]
  <1>1. \E g : ReadsAll(g, lines, excluded) /\ ParseNumstat(lines, excluded) = g[DOMAIN lines]
    <2> DEFINE iter == CHOOSE g : ReadsAll(g, lines, excluded)
    <2>1. ReadsAll(iter, lines, excluded)
      BY LogReads
    <2>2. ParseNumstat(lines, excluded) = iter[DOMAIN lines]
      BY DEF ParseNumstat, FoldLeft, MapThenFoldSet, ReadsAll
    <2> HIDE DEF iter
    <2>3. QED
      BY <2>1, <2>2
  <1>2. \E g : ReadsAll(g, lines, {}) /\ ParseGitLog(lines) = g[DOMAIN lines]
    <2> DEFINE Eq(g) == g = [T \in SUBSET DOMAIN lines |->
                               IF T = {} THEN <<>> ELSE ReadLine(g[T \ {Max(T)}], lines[Max(T)])]
               iter == CHOOSE g : Eq(g)
    <2>1. \A commits, line : ReadIncluded(commits, line, {}) = ReadLine(commits, line)
      BY DEF ReadIncluded
    <2>2. \A g : Eq(g) <=> ReadsAll(g, lines, {})
      BY <2>1 DEF ReadsAll
    <2>3. \E g : ReadsAll(g, lines, {})
      BY LogReads
    <2>4. \E g : Eq(g)
      BY <2>2, <2>3
    <2>5. Eq(iter)
      BY <2>4
    <2>6. ParseGitLog(lines) = iter[DOMAIN lines]
      BY DEF ParseGitLog, FoldLeft, MapThenFoldSet
    <2> HIDE DEF iter
    <2>7. ReadsAll(iter, lines, {})
      BY <2>2, <2>5
    <2>8. QED
      BY <2>6, <2>7
  <1>3. QED
    BY <1>1, <1>2

\* A set has as many elements as those that a function gives them, each to one.
LEMMA OneToOne ==
    ASSUME NEW S, IsFiniteSet(S), NEW T, NEW f \in [S -> T],
           \A p, q \in S : f[p] = f[q] => p = q,
           \A t \in T : \E p \in S : f[p] = t
    PROVE  Cardinality(T) = Cardinality(S)
  <1>1. f \in Bijection(S, T)
    BY DEF Bijection, Injection, Surjection, IsInjective
  <1>2. ExistsBijection(S, T)
    BY <1>1 DEF ExistsBijection
  <1>3. QED
    BY <1>2, FS_Bijection

\* What the statistics of an author are.
StatsOf(st, commits, own) ==
    /\ st.commits = Cardinality(own)
    /\ st.files = SumFunctionOnSet([i \in DOMAIN commits |-> commits[i].files], own)
    /\ st.churn = SumFunctionOnSet([i \in DOMAIN commits |-> commits[i].churn], own)

LEMMA StatsAre ==
    ASSUME NEW commits, NEW c \in DOMAIN AggregateByAuthor(commits)
    PROVE  StatsOf(AggregateByAuthor(commits)[c], commits,
                   {i \in DOMAIN commits : commits[i].author = c})
  <1> DEFINE own == {i \in DOMAIN commits : commits[i].author = c}
  <1>1. AggregateByAuthor(commits)[c] = AuthorStats(commits, own)
    BY DEF AggregateByAuthor
  <1> HIDE DEF own
  <1>2. StatsOf(AuthorStats(commits, own), commits, own)
    BY DEF AuthorStats, StatsOf
  <1>3. QED
    BY <1>1, <1>2 DEF own

\* The statistics of the commits as read, labelled with their contributors.
LEMMA Aggregated ==
    ASSUME NEW Authors, NEW Categories, NEW Dirs,
           NEW lines \in Seq(LogLine(Authors, Categories, Dirs)), NEW excluded,
           NEW commits \in Seq(CommitRead(Authors, Categories, Dirs)),
           NEW at, AsRead(lines, excluded, commits, at, Len(lines)),
           NEW Account, DOMAIN Account = Authors,
           NEW labelled, DOMAIN labelled = DOMAIN commits,
           \A p \in DOMAIN commits : /\ labelled[p].author = Account[commits[p].author]
                                     /\ labelled[p].files = commits[p].files
                                     /\ labelled[p].churn = commits[p].churn
    PROVE  Attributed(AggregateByAuthor(labelled), lines, excluded, Account)
  <1> DEFINE N == Len(lines)
             n == Len(commits)
             heads == {j \in DOMAIN lines : lines[j].kind = "commit"}
             O == Ones(lines)
             W == Churns(lines)
             U(p) == Under(lines, excluded, at[p], N)
             stats == AggregateByAuthor(labelled)
  <1>1. /\ DOMAIN lines = 1..N /\ N \in Nat /\ IsFiniteSet(DOMAIN lines)
        /\ O \in [DOMAIN lines -> Nat] /\ W \in [DOMAIN lines -> Nat]
        /\ \A i \in DOMAIN lines : lines[i] \in LogLine(Authors, Categories, Dirs)
    BY LogSums
  <1>2. DOMAIN commits = 1..n /\ n \in Nat /\ IsFiniteSet(1..n)
    <2>1. DOMAIN commits = 1..n /\ n \in Nat
      OBVIOUS
    <2> HIDE DEF n
    <2>2. QED
      BY <2>1, FS_Interval
  <1>3. /\ at \in [1..n -> heads]
        /\ \A p, q \in 1..n : p < q => at[p] < at[q]
        /\ \A j \in heads : \E p \in 1..n : at[p] = j
        /\ \A p \in 1..n : /\ commits[p].author = lines[at[p]].author
                           /\ commits[p].files = SumFunctionOnSet(O, U(p))
                           /\ commits[p].churn = SumFunctionOnSet(W, U(p))
    BY <1>1 DEF AsRead, CommitsTo
  <1>4. \A p \in 1..n : /\ labelled[p].author = Account[lines[at[p]].author]
                        /\ labelled[p].files = SumFunctionOnSet(O, U(p))
                        /\ labelled[p].churn = SumFunctionOnSet(W, U(p))
    <2> HIDE DEF O, W, U
    <2>1. QED
      BY <1>2, <1>3
  <1>5. \A j \in heads : lines[j].author \in Authors
    <2>1. \A line \in LogLine(Authors, Categories, Dirs) : line.kind = "commit" => line.author \in Authors
      BY DEF LogLine
    <2>2. QED
      BY <1>1, <2>1
  <1>6. \A p, q \in 1..n : p # q => at[p] # at[q]
    <2>1. \A p \in 1..n : at[p] \in Nat
      <3>1. \A j \in heads : j \in 1..N
        BY <1>1
      <3>2. \A p \in 1..n : at[p] \in heads
        BY <1>3
      <3> HIDE DEF heads, N
      <3>3. QED
        BY <1>1, <3>1, <3>2
    <2>2. \A p, q \in 1..n : p # q => p < q \/ q < p
      BY <1>2
    <2>3. \A p, q \in 1..n : at[p] < at[q] => at[p] # at[q]
      BY <2>1
    <2>4. QED
      BY <1>3, <2>2, <2>3
  <1>7. DOMAIN stats = {Account[lines[j].author] : j \in heads}
    <2>1. DOMAIN stats = {labelled[p].author : p \in 1..n}
      BY <1>2 DEF AggregateByAuthor
    <2> HIDE DEF heads, stats
    <2>2. ASSUME NEW p \in 1..n
          PROVE  labelled[p].author \in {Account[lines[j].author] : j \in heads}
      BY <1>3, <1>4
    <2>3. ASSUME NEW j \in heads
          PROVE  Account[lines[j].author] \in DOMAIN stats
      <3>1. PICK p \in 1..n : at[p] = j
        BY <1>3
      <3>2. labelled[p].author = Account[lines[j].author]
        BY <1>4, <3>1
      <3>3. QED
        BY <2>1, <3>2
    <2>4. QED
      BY <2>1, <2>2, <2>3
  <1>8. ASSUME NEW c \in DOMAIN stats
        PROVE  LET authors == {a \in Authors : Account[a] = c}
                   files == {i \in FilesOf(lines, authors) : lines[i].dir \notin excluded}
               IN  /\ stats[c].commits = Cardinality({j \in heads : lines[j].author \in authors})
                   /\ stats[c].files = Cardinality(files)
                   /\ stats[c].churn = SumFunctionOnSet(W, files)
    <2> DEFINE authors == {a \in Authors : Account[a] = c}
               files == {i \in FilesOf(lines, authors) : lines[i].dir \notin excluded}
               own == {p \in 1..n : labelled[p].author = c}
               F == [p \in 1..n |-> U(p)]
               hf == [p \in 1..n |-> labelled[p].files]
               hw == [p \in 1..n |-> labelled[p].churn]
    <2>1. /\ stats[c].commits = Cardinality(own)
          /\ stats[c].files = SumFunctionOnSet(hf, own)
          /\ stats[c].churn = SumFunctionOnSet(hw, own)
      <3>2. DOMAIN labelled = 1..n
        BY <1>2
      <3> HIDE DEF n
      <3>3. StatsOf(stats[c], labelled, {p \in DOMAIN labelled : labelled[p].author = c})
        BY <1>8, StatsAre
      <3> HIDE DEF stats
      <3>4. QED
        BY <3>2, <3>3 DEF StatsOf
    <2>2. own \in SUBSET (1..n) /\ IsFiniteSet(own)
      BY <1>2, FS_Subset
    <2>3. \A p \in 1..n : p \in own <=> lines[at[p]].author \in authors
      BY <1>3, <1>4, <1>5
    <2>4. Cardinality({j \in heads : lines[j].author \in authors}) = Cardinality(own)
      <3> DEFINE T == {j \in heads : lines[j].author \in authors}
                 f == [p \in own |-> at[p]]
      <3> HIDE DEF heads, authors, own
      <3>1. f \in [own -> T]
        BY <1>3, <2>2, <2>3
      <3>2. \A p, q \in own : f[p] = f[q] => p = q
        BY <1>6, <2>2
      <3>3. \A j \in T : \E p \in own : f[p] = j
        BY <1>3, <2>2, <2>3
      <3> HIDE DEF T, f
      <3>4. Cardinality(T) = Cardinality(own)
        BY <2>2, <3>1, <3>2, <3>3, OneToOne
      <3>5. QED
        BY <3>4 DEF T
    <2>5. F \in [1..n -> SUBSET DOMAIN lines]
      <3>1. \A p \in 1..n : U(p) \subseteq 1..N
        <4>1. ASSUME NEW p \in 1..n PROVE U(p) \subseteq 1..N
          <5>1. at[p] \in 1..N
            BY <1>1, <1>3
          <5>2. QED
            BY <1>1, <5>1 DEF Under
        <4>2. QED
          BY <4>1
      <3>2. QED
        BY <1>1, <3>1
    <2>6. \A p, q \in 1..n : p # q => F[p] \cap F[q] = {}
      <3>1. ASSUME NEW p \in 1..n, NEW q \in 1..n, p < q, NEW i \in U(p) \cap U(q)
            PROVE  FALSE
        <4>1. at[p] < at[q] /\ at[p] \in 1..N /\ at[q] \in 1..N /\ lines[at[q]].kind = "commit"
          BY <1>1, <1>3, <3>1
        <4>2. i \in at[q]..N /\ \A m \in (at[p] + 1)..i : lines[m].kind # "commit"
          BY <3>1 DEF Under
        <4>3. at[q] \in (at[p] + 1)..i
          BY <1>1, <4>1, <4>2
        <4>4. QED
          BY <4>1, <4>2, <4>3
      <3> HIDE DEF U
      <3>2. \A p, q \in 1..n : p < q => F[p] \cap F[q] = {}
        BY <3>1
      <3>3. \A p, q \in 1..n : p # q => p < q \/ q < p
        BY <1>2
      <3>4. \A p, q \in 1..n : F[p] \cap F[q] = F[q] \cap F[p]
        OBVIOUS
      <3>5. QED
        BY <3>2, <3>3, <3>4
    <2>7. Gathered(F, own) = files
      <3>1. ASSUME NEW p \in own, NEW i \in U(p)
            PROVE  i \in files
        <4>1. at[p] \in 1..N /\ lines[at[p]].kind = "commit" /\ lines[at[p]].author \in authors
          BY <1>1, <1>3, <2>3
        <4>2. /\ i \in at[p]..N /\ lines[i].kind = "numstat" /\ lines[i].dir \notin excluded
              /\ \A m \in (at[p] + 1)..i : lines[m].kind # "commit"
          BY DEF Under
        <4>3. i \in 1..N /\ at[p] \in 1..i
          BY <1>1, <4>1, <4>2
        <4> HIDE DEF authors
        <4>4. QED
          BY <1>1, <4>1, <4>2, <4>3 DEF FilesOf
      <3>2. ASSUME NEW i \in files
            PROVE  \E p \in own : i \in U(p)
        <4>1. PICK j \in 1..i : /\ lines[j].kind = "commit" /\ lines[j].author \in authors
                                /\ \A m \in (j + 1)..i : lines[m].kind # "commit"
          BY <3>2 DEF FilesOf
        <4>2. i \in 1..N /\ lines[i].kind = "numstat" /\ lines[i].dir \notin excluded
          BY <1>1, <3>2 DEF FilesOf
        <4>3. j \in heads
          BY <1>1, <4>1, <4>2
        <4>4. PICK p \in 1..n : at[p] = j
          BY <1>3, <4>3
        <4>5. p \in own
          BY <2>3, <4>1, <4>4
        <4>6. i \in j..N
          BY <1>1, <4>1, <4>2
        <4>7. i \in U(p)
          BY <4>1, <4>2, <4>4, <4>6 DEF Under
        <4>8. QED
          BY <4>5, <4>7
      <3> HIDE DEF U, files
      <3>3. \A p \in own : F[p] = U(p)
        BY <2>2
      <3> HIDE DEF F, own
      <3>4. QED
        BY <3>1, <3>2, <3>3 DEF Gathered
    <2>8. /\ hf \in [1..n -> Nat] /\ \A p \in 1..n : hf[p] = SumFunctionOnSet(O, F[p])
          /\ hw \in [1..n -> Nat] /\ \A p \in 1..n : hw[p] = SumFunctionOnSet(W, F[p])
      <3>1. \A p \in 1..n : F[p] = U(p) /\ F[p] \in SUBSET DOMAIN lines
        BY <2>5
      <3> HIDE DEF U, F, O, W
      <3>2. \A p \in 1..n : SumFunctionOnSet(O, F[p]) \in Nat /\ SumFunctionOnSet(W, F[p]) \in Nat
        BY <1>1, <3>1, Total DEF Totals
      <3>3. \A p \in 1..n : /\ labelled[p].files = SumFunctionOnSet(O, F[p])
                            /\ labelled[p].churn = SumFunctionOnSet(W, F[p])
        BY <1>4, <3>1
      <3>4. QED
        BY <3>2, <3>3
    <2> HIDE DEF hf, hw, F, O, W, own, files
    <2>9. /\ SumFunctionOnSet(hf, own) = SumFunctionOnSet(O, files)
          /\ SumFunctionOnSet(hw, own) = SumFunctionOnSet(W, files)
      <3> DEFINE D == DOMAIN lines
                 P == 1..n
      <3>1. own \in SUBSET P /\ Groups(D, O, P, F, hf) /\ Groups(D, W, P, F, hw)
        BY <1>1, <1>2, <2>2, <2>5, <2>6, <2>8 DEF Groups
      <3> HIDE DEF D, P
      <3>2. SumFunctionOnSet(hf, own) = SumFunctionOnSet(O, Gathered(F, own))
        BY <3>1, TotalOfTotals
      <3>3. SumFunctionOnSet(hw, own) = SumFunctionOnSet(W, Gathered(F, own))
        BY <3>1, TotalOfTotals
      <3>4. QED
        BY <2>7, <3>2, <3>3
    <2>10. SumFunctionOnSet(O, files) = Cardinality(files)
      <3> DEFINE D == DOMAIN lines
      <3>1. files \in SUBSET D /\ \A i \in D : O[i] = 1
        BY DEF files, FilesOf, O, Ones
      <3>2. \A i \in files : O[i] = 1
        BY <3>1
      <3>3. IsFiniteSet(D) /\ O \in [D -> Nat]
        BY <1>1
      <3> HIDE DEF D
      <3>4. QED
        BY <3>1, <3>2, <3>3, TotalOnes
    <2>11. /\ stats[c].commits = Cardinality({j \in heads : lines[j].author \in authors})
           /\ stats[c].files = Cardinality(files)
           /\ stats[c].churn = SumFunctionOnSet(W, files)
      <3> HIDE DEF stats, heads, authors
      <3>1. QED
        BY <2>1, <2>4, <2>9, <2>10
    <2>12. QED
      BY <2>11 DEF files
  <1>9. W = [i \in DOMAIN lines |-> IF lines[i].kind = "numstat" THEN lines[i].churn ELSE 0]
    BY DEF Churns
  <1> HIDE DEF stats
  <1>10. Attributed(stats, lines, excluded, Account)
    BY <1>7, <1>8, <1>9 DEF Attributed
  <1>11. QED
    BY <1>10 DEF stats

\* For a log of any lines and any assignment of authors to contributors: the contributor
\* report has each commit once, and each file that is not excluded once, for the contributor
\* of the commit above it, and the weekly report has them for the authors, files of all
\* directories.
THEOREM LogsAttributed ==
    ASSUME NEW Authors, NEW Categories, NEW Dirs,
           NEW lines \in Seq(LogLine(Authors, Categories, Dirs)), NEW excluded,
           NEW Account, DOMAIN Account = Authors
    PROVE  /\ Attributed(AggregateByAuthor(ParseGitLog(lines)), lines, {}, [a \in Authors |-> a])
           /\ Attributed(ByLog(ParseNumstat(lines, excluded), Account), lines, excluded, Account)
  <1>1. Attributed(AggregateByAuthor(ParseGitLog(lines)), lines, {}, [a \in Authors |-> a])
    <2> DEFINE commits == ParseGitLog(lines)
               Self == [a \in Authors |-> a]
    <2>1. PICK g : ReadsAll(g, lines, {}) /\ commits = g[DOMAIN lines]
      BY Parsed
    <2> HIDE DEF commits
    <2>2. PICK at : AsRead(lines, {}, commits, at, Len(lines))
      BY <2>1, AllRead
    <2>3. commits \in Seq(CommitRead(Authors, Categories, Dirs))
      BY <2>1, AllRead
    <2>4. \A p \in DOMAIN commits : Self[commits[p].author] = commits[p].author
      <3>1. \A p \in DOMAIN commits : commits[p] \in CommitRead(Authors, Categories, Dirs)
        BY <2>3
      <3>2. \A c \in CommitRead(Authors, Categories, Dirs) : c.author \in Authors
        BY DEF CommitRead
      <3>3. QED
        BY <3>1, <3>2
    <2>5. DOMAIN Self = Authors
      OBVIOUS
    <2> HIDE DEF Self
    <2>6. Attributed(AggregateByAuthor(commits), lines, {}, Self)
      BY <2>2, <2>3, <2>4, <2>5, Aggregated
    <2>7. QED
      BY <2>6 DEF commits, Self
  <1>2. Attributed(ByLog(ParseNumstat(lines, excluded), Account), lines, excluded, Account)
    <2> DEFINE commits == ParseNumstat(lines, excluded)
               labelled == [i \in DOMAIN commits |->
                               [commits[i] EXCEPT !.author = Account[commits[i].author]]]
    <2>1. PICK g : ReadsAll(g, lines, excluded) /\ commits = g[DOMAIN lines]
      BY Parsed
    <2> HIDE DEF commits
    <2>2. PICK at : AsRead(lines, excluded, commits, at, Len(lines))
      BY <2>1, AllRead
    <2>3. commits \in Seq(CommitRead(Authors, Categories, Dirs))
      BY <2>1, AllRead
    <2>4. \A p \in DOMAIN commits : /\ labelled[p].author = Account[commits[p].author]
                                    /\ labelled[p].files = commits[p].files
                                    /\ labelled[p].churn = commits[p].churn
      <3>1. \A p \in DOMAIN commits : commits[p] \in CommitRead(Authors, Categories, Dirs)
        BY <2>3
      <3>2. ASSUME NEW c \in CommitRead(Authors, Categories, Dirs), NEW a
            PROVE  /\ [c EXCEPT !.author = a].author = a
                   /\ [c EXCEPT !.author = a].files = c.files
                   /\ [c EXCEPT !.author = a].churn = c.churn
        BY DEF CommitRead
      <3>3. QED
        BY <3>1, <3>2
    <2>5. DOMAIN labelled = DOMAIN commits
      OBVIOUS
    <2>6. ByLog(commits, Account) = AggregateByAuthor(labelled)
      BY DEF ByLog
    <2> HIDE DEF labelled
    <2>7. Attributed(AggregateByAuthor(labelled), lines, excluded, Account)
      BY <2>2, <2>3, <2>4, <2>5, Aggregated
    <2>8. QED
      BY <2>6, <2>7 DEF commits
  <1>3. QED
    BY <1>1, <1>2

-----------------------------------------------------------------------------
(***************************************************************************)
(* The parts side by side: MCResults.  They share no variable, so that     *)
(* each behaviour is one of every part, and what is proved of the parts    *)
(* holds of all of them together.                                          *)
(***************************************************************************)
THEOREM SideBySide ==
    Spec => /\ FindingsSpec /\ CodeIndexSpec /\ GraphSpec /\ SuggestSpec
            /\ AccountsSpec /\ IdentitiesSpec
  <1> DEFINE vars == <<part, kind, input, others>>
  <1>1. Init => /\ FindingsInit /\ CodeIndexInit /\ GraphInit /\ SuggestInit
                /\ AccountsInit /\ IdentitiesInit
    BY DEF Init
  <1>2. ASSUME [Next]_vars
        PROVE  /\ [FindingsNext]_findingsVars /\ [CodeIndexNext]_codeIndexVars
               /\ [GraphNext]_graphVars /\ [SuggestNext]_suggestVars
               /\ [AccountsNext]_accountVars /\ [IdentitiesNext]_identityVars
    <2>1. CASE UNCHANGED vars
      BY <2>1 DEF others
    <2>2. CASE FindingsStep
      BY <2>2 DEF FindingsStep
    <2>3. CASE IndexStep
      BY <2>3 DEF IndexStep
    <2>4. CASE GraphStep
      BY <2>4 DEF GraphStep
    <2>5. CASE SuggestionsStep
      BY <2>5 DEF SuggestionsStep
    <2>6. CASE AccountsStep
      BY <2>6 DEF AccountsStep
    <2>7. CASE IdentitiesStep
      BY <2>7 DEF IdentitiesStep
    <2>8. CASE InputStep
      BY <2>8 DEF InputStep, others
    <2>9. QED
      BY <1>2, <2>1, <2>2, <2>3, <2>4, <2>5, <2>6, <2>7, <2>8 DEF Next
  <1>3. QED
    BY <1>1, <1>2, PTL DEF Spec, FindingsSpec, CodeIndexSpec, GraphSpec, SuggestSpec,
                           AccountsSpec, IdentitiesSpec

\* Of every behaviour in which the parts take turns, what the theorems say of each holds.
THEOREM ResultsSafe ==
    Spec => /\ [](BaselineCompared /\ Searchable /\ KnnSound /\ OneGraph)
            /\ [](SuggestionsFresh /\ AccessWhole /\ Represented)
            /\ OnlyTheGone
  BY SideBySide, Compared, OnlyTheGoneChanges, NothingUnsearchable, AlwaysSound,
     AlwaysOneGraph, AlwaysFresh, WholeLists, AlwaysRepresented, PTL

\* What the pure functions are given: a file, a log, a day or a week.
InputOK ==
    /\ kind = "file" => input \in Seq(FileLines)
    /\ kind = "log" => input \in Seq(LogLines)
    /\ kind = "day" => input \in Nat
    /\ kind = "week" => input = <<>> \/ input \in Weeks

LEMMA InputsStay == Spec => []InputOK
  <1> DEFINE vars == <<part, kind, input, others>>
  <1>1. Init => InputOK
    <2>1. SUFFICES ASSUME Init PROVE InputOK
      OBVIOUS
    <2>2. <<>> \in Seq(FileLines) /\ <<>> \in Seq(LogLines)
      OBVIOUS
    <2>3. input = IF kind = "day" THEN 0 ELSE <<>>
      BY <2>1 DEF Init
    <2>4. QED
      BY <2>2, <2>3 DEF InputOK
  <1>2. ASSUME InputOK, [Next]_vars
        PROVE  InputOK'
    <2>1. CASE input' = input /\ kind' = kind
      BY <1>2, <2>1 DEF InputOK
    <2>2. ASSUME kind' = kind, kind = "file", NEW line \in FileLines, input' = Append(input, line)
          PROVE  InputOK'
      BY <1>2, <2>2 DEF InputOK
    <2>3. ASSUME kind' = kind, kind = "log", NEW line \in LogLines, input' = Append(input, line)
          PROVE  InputOK'
      BY <1>2, <2>3 DEF InputOK
    <2>4. CASE kind' = kind /\ kind = "day" /\ input' = input + 1
      BY <1>2, <2>4 DEF InputOK
    <2>5. CASE kind' = kind /\ kind = "week" /\ \E st \in Weeks : input' = st
      BY <1>2, <2>5 DEF InputOK
    <2>6. QED
      BY <1>2, <2>1, <2>2, <2>3, <2>4, <2>5
      DEF Next, FindingsStep, IndexStep, GraphStep, SuggestionsStep, AccountsStep,
          IdentitiesStep, InputStep, FileLines
  <1>3. QED
    BY <1>1, <1>2, PTL DEF Spec

\* The weeks of the reports tile the time up to any day.
THEOREM AlwaysTiled == Spec => []WeeksTile
  <1>1. InputOK => WeeksTile
    <2>1. ASSUME input \in Nat, NEW now \in {0, 9, 15, 23}, NEW hour \in 0..(24 * MaxDay)
          PROVE  Tiles(input, hour, now)
      <3>1. input \in Int /\ hour \in Int /\ now \in 0..23
        BY <2>1
      <3>2. QED
        BY <3>1, WeeksMeet
    <2>2. QED
      BY <2>1 DEF InputOK, WeeksTile
  <1>2. QED
    BY <1>1, InputsStay, PTL

\* The weeks that the run compares are among those the points are fair of.
THEOREM AlwaysFair == Spec => []QualityFair
  <1>1. Weeks \subseteq WeekStats(Nat)
    <2>1. ASSUME NEW st \in Weeks
          PROVE  st \in WeekStats(Nat)
      <3>1. /\ st \in [commits : 1..4, conv : 0..4, fix : 0..4,
                       dirs : {1..d : d \in {0, 1, 4, 5, 8, 9}},
                       churn : 0..12 \cup 1598..1606 \cup 5998..6006]
            /\ st.fix <= st.conv /\ st.conv <= st.commits
        BY DEF Weeks
      <3>2. /\ st.commits \in Nat \ {0} /\ st.conv \in Nat /\ st.fix \in Nat
            /\ st.dirs \in SUBSET Nat /\ st.churn \in Nat
        BY <3>1
      <3>3. st = [commits |-> st.commits, conv |-> st.conv, fix |-> st.fix,
                  dirs |-> st.dirs, churn |-> st.churn]
        BY <3>1
      <3>4. st \in [commits : Nat \ {0}, conv : Nat, fix : Nat, dirs : SUBSET Nat, churn : Nat]
        BY <3>2, <3>3
      <3>5. QED
        BY <3>1, <3>4 DEF WeekStats
    <2>2. QED
      BY <2>1
  <1>2. InputOK => QualityFair
    BY <1>1, WeeksFair DEF InputOK, QualityFair
  <1>3. QED
    BY <1>2, InputsStay, PTL

\* Whatever file there is to cut, its chunks cover it.
THEOREM AlwaysCovered == Spec => []ChunksCover
  <1>1. InputOK => ChunksCover
    BY FilesCovered DEF InputOK, ChunksCover
  <1>2. QED
    BY <1>1, InputsStay, PTL

\* The logs that the run grows are among those whose reports have every commit and file.
THEOREM AlwaysConserved == Spec => []LogConserved
  <1> DEFINE authors == {"ann", "bob"}
             Lines == LogLine(authors, {"fix", "other"}, {"src", ""})
  <1>0. 1 \in Nat /\ 3 \in Nat
    OBVIOUS
  <1>1. LogLines \subseteq Lines
    <2>1. [kind : {"numstat"}, dir : {"src", ""}, churn : {1, 3}]
            \subseteq [kind : {"numstat"}, dir : {"src", ""}, churn : Nat]
      <3>1. ASSUME NEW r \in [kind : {"numstat"}, dir : {"src", ""}, churn : {1, 3}]
            PROVE  r \in [kind : {"numstat"}, dir : {"src", ""}, churn : Nat]
        <4>1. r.kind \in {"numstat"} /\ r.dir \in {"src", ""} /\ r.churn \in {1, 3}
          OBVIOUS
        <4>2. r = [kind |-> r.kind, dir |-> r.dir, churn |-> r.churn]
          OBVIOUS
        <4>3. r.churn \in Nat
          <5>1. r.churn = 1 \/ r.churn = 3
            BY <4>1
          <5>2. QED
            BY <1>0, <5>1
        <4>4. QED
          BY <4>1, <4>2, <4>3
      <3>2. QED
        BY <3>1
    <2>2. {[kind |-> "rest"]} \subseteq [kind : {"rest"}]
      OBVIOUS
    <2>3. QED
      BY <2>1, <2>2 DEF LogLines, LogLine
  <1>2. \A lines \in Seq(LogLines) : lines \in Seq(Lines)
    <2> HIDE DEF Lines
    <2>1. QED
      BY <1>1
  <1>3. InputOK => LogConserved
    <2>1. SUFFICES ASSUME input \in Seq(LogLines)
                   PROVE  LET Account == [a \in authors |-> "ann"]
                          IN  /\ Attributed(AggregateByAuthor(ParseGitLog(input)), input, {},
                                            [a \in authors |-> a])
                              /\ Attributed(ByLog(ParseNumstat(input, {""}), Account), input,
                                            {""}, Account)
      BY DEF InputOK, LogConserved
    <2> DEFINE Account == [a \in authors |-> "ann"]
    <2>2. DOMAIN Account = authors /\ input \in Seq(Lines)
      BY <1>2, <2>1
    <2> HIDE DEF Account
    <2>3. /\ Attributed(AggregateByAuthor(ParseGitLog(input)), input, {}, [a \in authors |-> a])
          /\ Attributed(ByLog(ParseNumstat(input, {""}), Account), input, {""}, Account)
      BY <2>2, LogsAttributed
    <2>4. QED
      BY <2>3 DEF Account
  <1>4. QED
    BY <1>3, InputsStay, PTL
=============================================================================
