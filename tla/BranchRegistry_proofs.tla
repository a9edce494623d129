----------------------- MODULE BranchRegistry_proofs -----------------------
(* Theorems about BranchRegistry, for every value of its constants. *)
EXTENDS BranchRegistry, TLAPS

(***************************************************************************)
(* The inductive invariant.  A row is updated only while it is there, so   *)
(* what builds and callers still have to do are rows (TodoKnown); the      *)
(* default branch is never another than HEAD, so no sync moves the mark to *)
(* a branch that users may have excluded (DefaultIsHead); and a caller has *)
(* nothing to enqueue before it begins (NothingOwed).                      *)
(***************************************************************************)
TodoKnown ==
    /\ wanted \subseteq Known
    /\ \A t \in Threads : todo[t] \subseteq Known

HasReadDefault(t) == at[t] \in {"build: list", "build: upsert", "sync: list", "sync: upsert"}

DefaultIsHead ==
    /\ default \in {None, Head}
    /\ \A t \in Threads : HasReadDefault(t) => seen[t].default = Head
    /\ \A b \in Known : rows[b].isDefault = (b = Head)

NothingOwed == \A c \in Callers : at[c] # "enqueue" => todo[c] = {}

IInv ==
    /\ RegistryTypeOK
    /\ TodoKnown
    /\ DefaultIsHead
    /\ DefaultIncluded
    /\ NothingOwed
    /\ WhitelistAccounted

LEMMA InitIInv == Init => IInv
  <1> SUFFICES ASSUME Init PROVE IInv
    OBVIOUS
  <1>1. RegistryTypeOK
    BY RegistryAssumption DEF Init, RegistryTypeOK, Refs, Places, Nothing
  <1>2. Known = {}
    BY DEF Init, Known
  <1>3. QED
    BY <1>1, <1>2 DEF Init, IInv, TodoKnown, DefaultIsHead, HasReadDefault, DefaultIncluded,
                      NothingOwed, WhitelistAccounted, Whitelisted, Threads

(***************************************************************************)
(* The three statements that write rows.                                   *)
(***************************************************************************)
\* The rows after an upsert of what thread t has read.
LEMMA UpsertRow ==
    ASSUME IInv, NEW t \in Threads, HasReadDefault(t), NEW b \in Branches
    PROVE  /\ Upsert(b, seen[t]) \in Row \cup {None}
           /\ b \in Known =>
                /\ Upsert(b, seen[t]) \in Row
                /\ Upsert(b, seen[t]).whitelisted = rows[b].whitelisted
                /\ Upsert(b, seen[t]).indexed = rows[b].indexed
                /\ Upsert(b, seen[t]).isDefault = (b = Head)
           /\ Upsert(b, seen[t]) # None =>
                /\ Upsert(b, seen[t]).isDefault = (b = Head)
                /\ b = Head => Upsert(b, seen[t]).whitelisted
                /\ b \notin Known => Upsert(b, seen[t]).whitelisted = (b = Head)
  <1> DEFINE u == Upsert(b, seen[t])
  <1>1. seen[t].default = Head /\ seen[t].refs[b] \in Nat
    BY DEF IInv, DefaultIsHead, RegistryTypeOK, Refs
  <1>2. None \notin Row
    BY RegistryAssumption
  <1>3. NewRow(b, seen[t]) =
          [whitelisted |-> b = Head, isDefault |-> b = Head,
           commit |-> seen[t].refs[b], indexed |-> FALSE]
    BY <1>1 DEF NewRow
  <1>4. NewRow(b, seen[t]) \in Row
    BY <1>1, <1>3 DEF Row
  <1>5. CASE b \notin Known
    <2>1. rows[b] = None
      BY <1>5 DEF Known
    <2>2. u = IF seen[t].refs[b] = 0 THEN None ELSE NewRow(b, seen[t])
      BY <2>1 DEF Upsert
    <2> HIDE DEF u
    <2>3. CASE seen[t].refs[b] = 0
      BY <1>5, <2>2, <2>3 DEF u
    <2>4. CASE seen[t].refs[b] # 0
      <3>1. u = NewRow(b, seen[t])
        BY <2>2, <2>4
      <3>2. u \in Row /\ u.isDefault = (b = Head) /\ u.whitelisted = (b = Head)
        BY <1>3, <1>4, <3>1
      <3>3. QED
        BY <1>5, <3>2 DEF u
    <2>5. QED
      BY <2>3, <2>4
  <1>6. CASE b \in Known
    <2>1. /\ rows[b] \in Row /\ rows[b] # None
          /\ rows[b].isDefault = (b = Head)
          /\ b = Head => rows[b].whitelisted
      BY <1>6 DEF IInv, RegistryTypeOK, Known, DefaultIsHead, DefaultIncluded
    <2>2. rows[b].whitelisted \in BOOLEAN
      BY <2>1 DEF Row
    <2>3. (rows[b].whitelisted \/ b = Head) = rows[b].whitelisted
      BY <2>1, <2>2
    <2> DEFINE v == [rows[b] EXCEPT !.commit = seen[t].refs[b],
                                    !.isDefault = (b = Head),
                                    !.whitelisted = @ \/ b = Head]
    <2>4. u = IF seen[t].refs[b] = 0 THEN rows[b] ELSE v
      BY <1>1, <2>1 DEF Upsert
    <2>5. /\ v \in Row
          /\ v.whitelisted = (rows[b].whitelisted \/ b = Head)
          /\ v.indexed = rows[b].indexed
          /\ v.isDefault = (b = Head)
      BY <1>1, <2>1 DEF Row
    <2> HIDE DEF v, u
    <2>6. QED
      BY <1>2, <1>6, <2>1, <2>3, <2>4, <2>5 DEF u
  <1>7. QED
    BY <1>5, <1>6

\* What any step does to the rows.
RowsStep ==
    /\ rows' \in [Branches -> Row \cup {None}]
    /\ Known \subseteq Known'
    /\ \A b \in Known' : rows'[b].isDefault = (b = Head)
    /\ \A b \in Known' : b = Head => rows'[b].whitelisted
    /\ \A b \in Known : rows[b].indexed => rows'[b].indexed
    /\ \A b \in Known : rows'[b].whitelisted # rows[b].whitelisted =>
                            \E c \in Callers : SetWhitelist(c, b, ~rows[b].whitelisted)
    /\ \A b \in Known' : /\ rows'[b].whitelisted
                         /\ b # Head
                         /\ ~\E c \in Callers : SetWhitelist(c, b, TRUE)
                         => b \in Known /\ rows[b].whitelisted

LEMMA UnchangedRows ==
    ASSUME IInv, UNCHANGED rows
    PROVE  RowsStep
  BY DEF RowsStep, IInv, RegistryTypeOK, DefaultIsHead, DefaultIncluded, Known

LEMMA WriteRowsStep ==
    ASSUME IInv, NEW t \in Threads, WriteRows(t)
    PROVE  RowsStep
  <1>1. HasReadDefault(t)
    BY DEF WriteRows, Goto, HasReadDefault
  <1>2. rows' = [b \in Branches |-> Upsert(b, seen[t])]
    BY DEF WriteRows
  <1>3. \A b \in Branches :
           /\ rows'[b] \in Row \cup {None}
           /\ b \in Known =>
                /\ rows'[b] \in Row
                /\ rows'[b].whitelisted = rows[b].whitelisted
                /\ rows'[b].indexed = rows[b].indexed
                /\ rows'[b].isDefault = (b = Head)
           /\ rows'[b] # None =>
                /\ rows'[b].isDefault = (b = Head)
                /\ b = Head => rows'[b].whitelisted
                /\ b \notin Known => rows'[b].whitelisted = (b = Head)
    <2> SUFFICES ASSUME NEW b \in Branches
                 PROVE  LET r == Upsert(b, seen[t]) IN
                        /\ r \in Row \cup {None}
                        /\ b \in Known => /\ r \in Row
                                          /\ r.whitelisted = rows[b].whitelisted
                                          /\ r.indexed = rows[b].indexed
                                          /\ r.isDefault = (b = Head)
                        /\ r # None => /\ r.isDefault = (b = Head)
                                       /\ b = Head => r.whitelisted
                                       /\ b \notin Known => r.whitelisted = (b = Head)
      BY <1>2
    <2>1. QED
      BY <1>1, UpsertRow
  <1>4. Known \subseteq Known'
    BY <1>3, RegistryAssumption DEF Known
  <1>5. Known' = {b \in Branches : rows'[b] # None}
    BY DEF Known
  <1>6. rows' \in [Branches -> Row \cup {None}]
    BY <1>2, <1>3
  <1>7. Known \subseteq Branches
    BY DEF Known
  <1>8. QED
    BY <1>3, <1>4, <1>5, <1>6, <1>7 DEF RowsStep

LEMMA IndexBranchStep ==
    ASSUME IInv, NEW w \in Workers, NEW b \in Branches, IndexBranch(w, b)
    PROVE  RowsStep
  <1>1. b \in Known
    BY DEF IndexBranch, IInv, TodoKnown, Threads
  <1>2. rows[b] \in Row /\ rows[b] # None
    BY <1>1 DEF IInv, RegistryTypeOK, Known
  <1> DEFINE r == [rows[b] EXCEPT !.indexed = TRUE]
  <1>3. /\ r \in Row /\ r.indexed
        /\ r.whitelisted = rows[b].whitelisted
        /\ r.isDefault = rows[b].isDefault
    BY <1>2 DEF Row
  <1> HIDE DEF r
  <1>4. rows' = [rows EXCEPT ![b] = r]
    BY DEF IndexBranch, r
  <1>5. rows \in [Branches -> Row \cup {None}]
    BY DEF IInv, RegistryTypeOK
  <1>6. r # None
    BY <1>3, RegistryAssumption
  <1>7. Known' = Known
    BY <1>2, <1>4, <1>5, <1>6 DEF Known
  <1>8. \A a \in Known : a # b => rows'[a] = rows[a]
    BY <1>4, <1>5 DEF Known
  <1>9. rows'[b] = r
    BY <1>4, <1>5
  <1>10. \A a \in Known : rows'[a].whitelisted = rows[a].whitelisted
                          /\ rows'[a].isDefault = rows[a].isDefault
    BY <1>3, <1>8, <1>9
  <1>11. \A a \in Known : rows[a].isDefault = (a = Head) /\ (a = Head => rows[a].whitelisted)
    BY DEF IInv, DefaultIsHead, DefaultIncluded
  <1>12. rows' \in [Branches -> Row \cup {None}]
    BY <1>3, <1>4, <1>5
  <1>13. \A a \in Known : rows[a].indexed => rows'[a].indexed
    BY <1>3, <1>8, <1>9
  <1>14. QED
    BY <1>7, <1>10, <1>11, <1>12, <1>13 DEF RowsStep

LEMMA SetWhitelistStep ==
    ASSUME IInv, NEW c \in Callers, NEW b \in Branches, NEW on \in BOOLEAN, SetWhitelist(c, b, on)
    PROVE  RowsStep
  <1>1. b \in Known /\ (rows[b].isDefault => on)
    BY DEF SetWhitelist
  <1>2. rows[b] \in Row /\ rows[b] # None
    BY <1>1 DEF IInv, RegistryTypeOK, Known
  <1> DEFINE r == [rows[b] EXCEPT !.whitelisted = on]
  <1>3. /\ r \in Row /\ r.whitelisted = on
        /\ r.indexed = rows[b].indexed
        /\ r.isDefault = rows[b].isDefault
    BY <1>2 DEF Row
  <1> HIDE DEF r
  <1>4. rows' = [rows EXCEPT ![b] = r]
    BY DEF SetWhitelist, r
  <1>5. rows \in [Branches -> Row \cup {None}]
    BY DEF IInv, RegistryTypeOK
  <1>6. r # None
    BY <1>3, RegistryAssumption
  <1>7. Known' = Known
    BY <1>2, <1>4, <1>5, <1>6 DEF Known
  <1>8. \A a \in Known : a # b => rows'[a] = rows[a]
    BY <1>4, <1>5 DEF Known
  <1>9. rows'[b] = r
    BY <1>4, <1>5
  <1>10. \A a \in Known : rows[a].isDefault = (a = Head) /\ (a = Head => rows[a].whitelisted)
    BY DEF IInv, DefaultIsHead, DefaultIncluded
  <1>11. \A a \in Known : /\ rows'[a].isDefault = (a = Head)
                          /\ a = Head => rows'[a].whitelisted
                          /\ rows[a].indexed => rows'[a].indexed
    BY <1>1, <1>3, <1>8, <1>9, <1>10
  <1>12. rows' \in [Branches -> Row \cup {None}]
    BY <1>3, <1>4, <1>5
  <1>13. \A a \in Known : rows'[a].whitelisted /\ ~SetWhitelist(c, a, TRUE) => rows[a].whitelisted
    <2>1. CASE on
      <3>1. SetWhitelist(c, b, TRUE)
        BY <2>1
      <3>2. QED
        BY <3>1, <1>8
    <2>2. CASE ~on
      BY <1>3, <1>8, <1>9, <2>2
    <2>3. QED
      BY <2>1, <2>2
  <1>14. \A a \in Known : rows'[a].whitelisted # rows[a].whitelisted =>
                             SetWhitelist(c, a, ~rows[a].whitelisted)
    <2> SUFFICES ASSUME on # rows[b].whitelisted
                 PROVE  SetWhitelist(c, b, ~rows[b].whitelisted)
      BY <1>3, <1>8, <1>9
    <2>1. on = ~rows[b].whitelisted
      BY <1>2 DEF Row
    <2>2. QED
      BY <2>1
  <1>15. QED
    BY <1>7, <1>11, <1>12, <1>13, <1>14 DEF RowsStep

\* Every step of Next writes rows by one of the three statements or not at all.
LEMMA AnyRowsStep ==
    ASSUME IInv, [Next]_vars
    PROVE  RowsStep
  <1>1. CASE \E t \in Threads : WriteRows(t)
    BY <1>1, WriteRowsStep
  <1>2. CASE \E w \in Workers, b \in Branches : IndexBranch(w, b)
    BY <1>2, IndexBranchStep
  <1>3. CASE \E c \in Callers, b \in Branches, on \in BOOLEAN : SetWhitelist(c, b, on)
    BY <1>3, SetWhitelistStep
  <1>4. CASE UNCHANGED rows
    BY <1>4, UnchangedRows
  <1>5. QED
    BY <1>1, <1>2, <1>3, <1>4
       DEF Next, vars, Push, Vanish, Reindex, BeginSync, Fetch, ReadDefault, ListRemote,
           BeginBuild, ReadWhitelist, EmptyBuild, JobEnds, HandlerRaises, BeginIncremental,
           AddWorktree, NoSuchBranch, EnqueueIndex, ApiStops

LEMMA TypeStep ==
    ASSUME IInv, [Next]_vars
    PROVE  RegistryTypeOK'
  <1> USE DEF RegistryTypeOK, Refs
  <1>1. RegistryTypeOK
    BY DEF IInv
  <1>2. rows' \in [Branches -> Row \cup {None}]
    BY AnyRowsStep DEF RowsStep
  <1>3. Workers \subseteq Threads /\ Callers \subseteq Threads /\ Known \subseteq Branches
    BY DEF Threads, Known
  <1>4. Head \in Branches /\ Nothing \in [refs : Refs, default : Branches \cup {None}]
    BY RegistryAssumption DEF Nothing
  <1>5. CASE UNCHANGED vars
    BY <1>1, <1>5 DEF vars, gitVars, jobVars, threadVars
  <1>6. ASSUME NEW b \in Branches, Push(b) \/ Vanish(b)
        PROVE  RegistryTypeOK'
    BY <1>1, <1>2, <1>6 DEF Push, Vanish, jobVars, threadVars
  <1>7. CASE Reindex
    BY <1>1, <1>2, <1>7 DEF Reindex, gitVars, threadVars
  <1>8. ASSUME NEW t \in Threads, BeginSync(t) \/ Fetch(t)
        PROVE  RegistryTypeOK'
    BY <1>1, <1>2, <1>8 DEF BeginSync, Fetch, Goto, Places, gitVars, jobVars
  <1>9. ASSUME NEW t \in Threads, ReadDefault(t)
        PROVE  RegistryTypeOK'
    BY <1>1, <1>2, <1>4, <1>9 DEF ReadDefault, Goto, Places, gitVars, jobVars
  <1>10. ASSUME NEW t \in Threads, ListRemote(t)
         PROVE  RegistryTypeOK'
    BY <1>1, <1>2, <1>10 DEF ListRemote, Goto, Places, gitVars, jobVars
  <1>11. ASSUME NEW t \in Threads, WriteRows(t)
         PROVE  RegistryTypeOK'
    BY <1>1, <1>2, <1>4, <1>11 DEF WriteRows, Goto, Places, gitVars, jobVars
  <1>12. ASSUME NEW w \in Workers, BeginBuild(w) \/ ReadWhitelist(w) \/ EmptyBuild(w) \/ JobEnds(w)
         PROVE  RegistryTypeOK'
    BY <1>1, <1>2, <1>3, <1>12
       DEF BeginBuild, ReadWhitelist, EmptyBuild, JobEnds, Goto, Places, gitVars, jobVars, Whitelisted
  <1>13. ASSUME NEW w \in Workers, HandlerRaises(w)
         PROVE  RegistryTypeOK'
    BY <1>1, <1>2, <1>3, <1>4, <1>13 DEF HandlerRaises, Stop, Places, gitVars
  <1>14. ASSUME NEW w \in Workers, NEW b \in Branches, BeginIncremental(w, b)
         PROVE  RegistryTypeOK'
    BY <1>1, <1>2, <1>3, <1>14 DEF BeginIncremental, Goto, Places, gitVars
  <1>15. ASSUME NEW w \in Workers, NEW b \in Branches, AddWorktree(w, b) \/ IndexBranch(w, b)
         PROVE  RegistryTypeOK'
    BY <1>1, <1>2, <1>3, <1>15 DEF AddWorktree, IndexBranch, gitVars, jobVars, threadVars
  <1>16. ASSUME NEW c \in Callers, NEW b \in Branches, NEW on \in BOOLEAN, SetWhitelist(c, b, on)
         PROVE  RegistryTypeOK'
    BY <1>1, <1>2, <1>3, <1>16 DEF SetWhitelist, Goto, Places, gitVars
  <1>17. ASSUME NEW c \in Callers, EnqueueIndex(c)
         PROVE  RegistryTypeOK'
    BY <1>1, <1>2, <1>3, <1>17 DEF EnqueueIndex, Goto, Places, gitVars
  <1>18. ASSUME NEW c \in Callers, ApiStops(c)
         PROVE  RegistryTypeOK'
    BY <1>1, <1>2, <1>3, <1>4, <1>18 DEF ApiStops, Stop, Places, gitVars
  <1>19. QED
    BY <1>5, <1>6, <1>7, <1>8, <1>9, <1>10, <1>11, <1>12, <1>13, <1>14, <1>15, <1>16, <1>17, <1>18
       DEF Next, NoSuchBranch

\* A branch a build or a caller has to do something for has a row.
LEMMA TodoStep ==
    ASSUME IInv, [Next]_vars
    PROVE  TodoKnown'
  <1>1. /\ wanted \subseteq Known
        /\ \A t \in Threads : todo[t] \subseteq Known
        /\ todo \in [Threads -> SUBSET Branches]
    BY DEF IInv, TodoKnown, RegistryTypeOK
  <1>2. Known \subseteq Known'
    BY AnyRowsStep DEF RowsStep
  <1>3. SUFFICES wanted' \subseteq Known /\ \A t \in Threads : todo'[t] \subseteq Known
    BY <1>2 DEF TodoKnown
  <1>4. Workers \subseteq Threads /\ Callers \subseteq Threads
    BY DEF Threads
  <1>5. CASE UNCHANGED <<todo, wanted>>
    BY <1>1, <1>5
  <1>6. ASSUME NEW w \in Workers, ReadWhitelist(w)
        PROVE  wanted' \subseteq Known /\ \A t \in Threads : todo'[t] \subseteq Known
    BY <1>1, <1>4, <1>6 DEF ReadWhitelist, jobVars, Whitelisted
  <1>7. ASSUME NEW w \in Workers, HandlerRaises(w)
        PROVE  wanted' \subseteq Known /\ \A t \in Threads : todo'[t] \subseteq Known
    BY <1>1, <1>4, <1>7 DEF HandlerRaises, Stop
  <1>8. ASSUME NEW w \in Workers, NEW b \in Branches, BeginIncremental(w, b) \/ IndexBranch(w, b)
        PROVE  wanted' \subseteq Known /\ \A t \in Threads : todo'[t] \subseteq Known
    BY <1>1, <1>4, <1>8 DEF BeginIncremental, IndexBranch, jobVars
  <1>9. ASSUME NEW c \in Callers, NEW b \in Branches, NEW on \in BOOLEAN, SetWhitelist(c, b, on)
        PROVE  wanted' \subseteq Known /\ \A t \in Threads : todo'[t] \subseteq Known
    BY <1>1, <1>4, <1>9 DEF SetWhitelist
  <1>10. ASSUME NEW c \in Callers, EnqueueIndex(c) \/ ApiStops(c)
         PROVE  wanted' \subseteq Known /\ \A t \in Threads : todo'[t] \subseteq Known
    BY <1>1, <1>4, <1>10 DEF EnqueueIndex, ApiStops, Stop
  <1>11. QED
    BY <1>5, <1>6, <1>7, <1>8, <1>9, <1>10
       DEF Next, vars, gitVars, jobVars, threadVars, Push, Vanish, Reindex, BeginSync, Fetch,
           ReadDefault, ListRemote, WriteRows, BeginBuild, EmptyBuild, JobEnds, AddWorktree,
           NoSuchBranch

\* No sync reads, and so none writes, a default branch other than HEAD.
LEMMA DefaultStep ==
    ASSUME IInv, [Next]_vars
    PROVE  DefaultIsHead'
  <1>1. /\ default \in {None, Head}
        /\ \A t \in Threads : HasReadDefault(t) => seen[t].default = Head
        /\ at \in [Threads -> Places]
        /\ seen \in [Threads -> [refs : Refs, default : Branches \cup {None}]]
    BY DEF IInv, DefaultIsHead, RegistryTypeOK
  <1>2. \A b \in Known' : rows'[b].isDefault = (b = Head)
    BY AnyRowsStep DEF RowsStep
  <1>3. SUFFICES /\ default' \in {None, Head}
                 /\ \A t \in Threads : HasReadDefault(t)' => seen'[t].default = Head
    BY <1>2 DEF DefaultIsHead
  <1>4. Workers \subseteq Threads /\ Callers \subseteq Threads
    BY DEF Threads
  <1> DEFINE Goal == /\ default' \in {None, Head}
                     /\ \A t \in Threads : HasReadDefault(t)' => seen'[t].default = Head
  <1>5. CASE UNCHANGED <<default, at, seen>>
    BY <1>1, <1>5 DEF HasReadDefault
  <1>6. ASSUME NEW t \in Threads, BeginSync(t) \/ Fetch(t)
        PROVE  Goal
    BY <1>1, <1>6 DEF BeginSync, Fetch, Goto, HasReadDefault
  <1>7. ASSUME NEW t \in Threads, ReadDefault(t)
        PROVE  Goal
    BY <1>1, <1>7 DEF ReadDefault, Goto, HasReadDefault
  <1>8. ASSUME NEW t \in Threads, ListRemote(t)
        PROVE  Goal
    BY <1>1, <1>8 DEF ListRemote, Goto, HasReadDefault
  <1>9. ASSUME NEW t \in Threads, WriteRows(t)
        PROVE  Goal
    BY <1>1, <1>9 DEF WriteRows, Goto, HasReadDefault
  <1>10. ASSUME NEW w \in Workers, \/ BeginBuild(w) \/ ReadWhitelist(w) \/ EmptyBuild(w)
                                   \/ JobEnds(w) \/ \E b \in Branches : BeginIncremental(w, b)
         PROVE  Goal
    BY <1>1, <1>4, <1>10
       DEF BeginBuild, ReadWhitelist, EmptyBuild, JobEnds, BeginIncremental, Goto, HasReadDefault
  <1>11. ASSUME NEW t \in Threads, Stop(t), UNCHANGED default
         PROVE  Goal
    BY <1>1, <1>11 DEF Stop, HasReadDefault
  <1>12. ASSUME NEW c \in Callers, \/ EnqueueIndex(c)
                                   \/ \E b \in Branches, on \in BOOLEAN : SetWhitelist(c, b, on)
         PROVE  Goal
    BY <1>1, <1>4, <1>12 DEF EnqueueIndex, SetWhitelist, Goto, HasReadDefault
  <1>13. QED
    BY <1>4, <1>5, <1>6, <1>7, <1>8, <1>9, <1>10, <1>11, <1>12
       DEF Next, vars, threadVars, Push, Vanish, Reindex, AddWorktree, IndexBranch, NoSuchBranch,
           HandlerRaises, ApiStops

LEMMA OwedStep ==
    ASSUME IInv, [Next]_vars
    PROVE  NothingOwed'
  <1>1. /\ \A c \in Callers : at[c] # "enqueue" => todo[c] = {}
        /\ at \in [Threads -> Places]
        /\ todo \in [Threads -> SUBSET Branches]
    BY DEF IInv, NothingOwed, RegistryTypeOK
  <1>2. Callers \subseteq Threads /\ Workers \subseteq Threads /\ Workers \cap Callers = {}
    BY RegistryAssumption DEF Threads
  <1>3. SUFFICES ASSUME NEW c \in Callers, at'[c] # "enqueue" PROVE todo'[c] = {}
    BY DEF NothingOwed
  <1>4. CASE at'[c] = at[c] /\ todo'[c] = todo[c]
    BY <1>1, <1>3, <1>4
  <1>5. ASSUME NEW t \in Threads, BeginSync(t) \/ Fetch(t) \/ ReadDefault(t) \/ ListRemote(t) \/ WriteRows(t)
        PROVE  todo'[c] = {}
    BY <1>1, <1>2, <1>3, <1>5 DEF BeginSync, Fetch, ReadDefault, ListRemote, WriteRows, Goto
  <1>6. ASSUME NEW d \in Callers, \/ EnqueueIndex(d) \/ ApiStops(d)
                                  \/ \E b \in Branches, on \in BOOLEAN : SetWhitelist(d, b, on)
        PROVE  todo'[c] = {}
    BY <1>1, <1>2, <1>3, <1>6 DEF EnqueueIndex, ApiStops, SetWhitelist, Stop, Goto
  <1>7. ASSUME NEW w \in Workers, \/ BeginBuild(w) \/ ReadWhitelist(w) \/ EmptyBuild(w)
                                  \/ JobEnds(w) \/ HandlerRaises(w)
                                  \/ \E b \in Branches : BeginIncremental(w, b) \/ IndexBranch(w, b)
        PROVE  at'[c] = at[c] /\ todo'[c] = todo[c]
    BY <1>1, <1>2, <1>7
       DEF BeginBuild, ReadWhitelist, EmptyBuild, JobEnds, HandlerRaises, BeginIncremental,
           IndexBranch, Stop, Goto
  <1>8. QED
    BY <1>4, <1>5, <1>6, <1>7
       DEF Next, vars, threadVars, Push, Vanish, Reindex, AddWorktree, NoSuchBranch

(***************************************************************************)
(* WhitelistAccounted: where a branch that is owed an index is after a     *)
(* step depends on where it was before it.                                 *)
(***************************************************************************)
Owed(b) ==
    \/ b \in wanted \cup refused
    \/ \E c \in Callers : b \in todo[c]
    \/ \E w \in Workers : InIncremental(w) /\ b \in todo[w]

\* A whitelist call that asks for the branch: its thread owes the enqueue.
LEMMA AskedFor ==
    ASSUME IInv, NEW c \in Callers, NEW b \in Branches, SetWhitelist(c, b, TRUE)
    PROVE  Owed(b)'
  <1>1. todo \in [Threads -> SUBSET Branches] /\ c \in Threads
    BY DEF IInv, RegistryTypeOK, Threads
  <1>2. todo'[c] = {b}
    BY <1>1 DEF SetWhitelist
  <1>3. QED
    BY <1>2 DEF Owed

\* A branch that is queued, or whose call was refused, stays so or is taken up.
LEMMA QueuedStays ==
    ASSUME IInv, [Next]_vars, NEW b \in wanted \cup refused,
           ~\E c \in Callers, on \in BOOLEAN : SetWhitelist(c, b, on)
    PROVE  Owed(b)'
  <1>1. /\ at \in [Threads -> Places]
        /\ todo \in [Threads -> SUBSET Branches]
        /\ Workers \subseteq Threads
    BY DEF IInv, RegistryTypeOK, Threads
  <1>2. CASE b \in wanted' \cup refused'
    BY <1>2 DEF Owed
  <1>3. CASE \E w \in Workers : BeginIncremental(w, b)
    <2>1. PICK w \in Workers : BeginIncremental(w, b)
      BY <1>3
    <2>2. at'[w] = "incremental: fetch" /\ todo'[w] = {b}
      BY <1>1, <2>1 DEF BeginIncremental, Goto
    <2>3. QED
      BY <2>2 DEF Owed, InIncremental
  <1>4. ASSUME NEW w \in Workers, NEW a \in Branches, BeginIncremental(w, a), a # b
        PROVE  b \in wanted' \cup refused'
    BY <1>4 DEF BeginIncremental
  <1>5. ASSUME NEW c \in Callers, NEW a \in Branches, NEW on \in BOOLEAN, SetWhitelist(c, a, on)
        PROVE  b \in wanted' \cup refused'
    BY <1>5 DEF SetWhitelist
  <1>6. CASE wanted \subseteq wanted' /\ refused \subseteq refused'
    BY <1>2, <1>6
  <1>7. ASSUME NEW w \in Workers, HandlerRaises(w)
        PROVE  wanted \subseteq wanted' /\ refused \subseteq refused'
    BY <1>7 DEF HandlerRaises
  <1>8. QED
    BY <1>2, <1>3, <1>4, <1>5, <1>6, <1>7
       DEF Next, vars, jobVars, Push, Vanish, Reindex, BeginSync, Fetch, ReadDefault, ListRemote,
           WriteRows, BeginBuild, ReadWhitelist, EmptyBuild, JobEnds, AddWorktree, IndexBranch,
           NoSuchBranch, EnqueueIndex, ApiStops

\* A branch a caller is about to enqueue is enqueued or answered with an error.
LEMMA CallerAccounts ==
    ASSUME IInv, [Next]_vars, NEW c \in Callers, NEW b \in todo[c]
    PROVE  Owed(b)'
  <1>1. /\ at \in [Threads -> Places]
        /\ todo \in [Threads -> SUBSET Branches]
        /\ c \in Threads /\ c \notin Workers /\ Workers \subseteq Threads /\ Callers \subseteq Threads
        /\ at[c] = "enqueue"
    BY RegistryAssumption DEF IInv, RegistryTypeOK, Threads, NothingOwed
  <1>2. CASE todo'[c] = todo[c]
    BY <1>2 DEF Owed
  <1>3. CASE EnqueueIndex(c) \/ ApiStops(c)
    BY <1>3 DEF EnqueueIndex, ApiStops, Owed
  <1>4. ASSUME NEW d \in Callers, d # c, \/ EnqueueIndex(d) \/ ApiStops(d)
                                         \/ \E a \in Branches, on \in BOOLEAN : SetWhitelist(d, a, on)
        PROVE  todo'[c] = todo[c]
    BY <1>1, <1>4 DEF EnqueueIndex, ApiStops, SetWhitelist, Stop
  <1>5. ~\E a \in Branches, on \in BOOLEAN : SetWhitelist(c, a, on)
    BY <1>1 DEF SetWhitelist, Goto
  <1>6. ASSUME NEW w \in Workers, \/ ReadWhitelist(w) \/ HandlerRaises(w)
                                  \/ \E a \in Branches : BeginIncremental(w, a) \/ IndexBranch(w, a)
        PROVE  todo'[c] = todo[c]
    BY <1>1, <1>6 DEF ReadWhitelist, HandlerRaises, BeginIncremental, IndexBranch, Stop
  <1>7. QED
    BY <1>2, <1>3, <1>4, <1>5, <1>6
       DEF Next, vars, threadVars, Push, Vanish, Reindex, BeginSync, Fetch, ReadDefault, ListRemote,
           WriteRows, BeginBuild, EmptyBuild, JobEnds, AddWorktree, NoSuchBranch

\* A branch an index_incremental is working on is indexed, or the job is on record.
LEMMA WorkerAccounts ==
    ASSUME IInv, [Next]_vars, NEW w \in Workers, InIncremental(w), NEW b \in todo[w]
    PROVE  Owed(b)' \/ rows'[b].indexed
  <1>1. /\ at \in [Threads -> Places]
        /\ todo \in [Threads -> SUBSET Branches]
        /\ w \in Threads /\ w \notin Callers /\ Workers \subseteq Threads /\ Callers \subseteq Threads
        /\ at[w] \in {"incremental: fetch", "incremental: index"}
    BY RegistryAssumption DEF IInv, RegistryTypeOK, Threads, InIncremental
  <1>2. CASE UNCHANGED <<at, todo>>
    BY <1>2 DEF Owed, InIncremental
  <1>3. CASE at'[w] \in {"incremental: fetch", "incremental: index"} /\ todo'[w] = todo[w]
    BY <1>3 DEF Owed, InIncremental
  <1>4. ASSUME NEW t \in Threads,
               BeginSync(t) \/ Fetch(t) \/ ReadDefault(t) \/ ListRemote(t) \/ WriteRows(t)
        PROVE  at'[w] \in {"incremental: fetch", "incremental: index"} /\ todo'[w] = todo[w]
    BY <1>1, <1>4 DEF BeginSync, Fetch, ReadDefault, ListRemote, WriteRows, Goto
  <1>5. ASSUME NEW c \in Callers, \/ EnqueueIndex(c) \/ ApiStops(c)
                                  \/ \E a \in Branches, on \in BOOLEAN : SetWhitelist(c, a, on)
        PROVE  at'[w] \in {"incremental: fetch", "incremental: index"} /\ todo'[w] = todo[w]
    BY <1>1, <1>5 DEF EnqueueIndex, ApiStops, SetWhitelist, Stop, Goto
  <1>6. ASSUME NEW v \in Workers, BeginBuild(v) \/ ReadWhitelist(v) \/ EmptyBuild(v) \/ JobEnds(v)
        PROVE  at'[w] \in {"incremental: fetch", "incremental: index"} /\ todo'[w] = todo[w]
    BY <1>1, <1>6 DEF BeginBuild, ReadWhitelist, EmptyBuild, JobEnds, Goto
  <1>7. ASSUME NEW v \in Workers, NEW a \in Branches, BeginIncremental(v, a)
        PROVE  FALSE
    BY <1>1, <1>7 DEF BeginIncremental, NoWriteJob
  <1>8. ASSUME NEW v \in Workers, HandlerRaises(v)
        PROVE  Owed(b)'
    <2>1. CASE v = w
      BY <1>8, <2>1 DEF HandlerRaises, Owed
    <2>2. CASE v # w
      <3>1. at'[w] = at[w] /\ todo'[w] = todo[w]
        BY <1>1, <1>8, <2>2 DEF HandlerRaises, Stop
      <3>2. QED
        BY <1>1, <3>1 DEF Owed, InIncremental
    <2>3. QED
      BY <2>1, <2>2
  <1>9. ASSUME NEW v \in Workers, NEW a \in Branches, IndexBranch(v, a)
        PROVE  Owed(b)' \/ rows'[b].indexed
    <2>1. CASE v = w /\ a = b
      <3>1. b \in Known /\ rows \in [Branches -> Row \cup {None}]
        BY <1>1 DEF IInv, TodoKnown, RegistryTypeOK
      <3>2. rows[b] \in Row /\ b \in Branches
        BY <3>1 DEF Known
      <3>3. rows' = [rows EXCEPT ![b].indexed = TRUE]
        BY <1>9, <2>1 DEF IndexBranch
      <3>4. rows'[b] = [rows[b] EXCEPT !.indexed = TRUE]
        BY <3>1, <3>2, <3>3
      <3>5. rows'[b].indexed
        BY <3>2, <3>4 DEF Row
      <3>6. QED
        BY <3>5
    <2>2. CASE ~(v = w /\ a = b)
      <3>1. at'[w] = at[w] /\ b \in todo'[w]
        BY <1>1, <1>9, <2>2 DEF IndexBranch
      <3>2. QED
        BY <1>1, <3>1 DEF Owed, InIncremental
    <2>3. QED
      BY <2>1, <2>2
  <1>10. QED
    BY <1>2, <1>3, <1>4, <1>5, <1>6, <1>7, <1>8, <1>9
       DEF Next, vars, threadVars, Push, Vanish, Reindex, AddWorktree, NoSuchBranch

LEMMA AccountedStep ==
    ASSUME IInv, [Next]_vars
    PROVE  WhitelistAccounted'
  <1>1. RowsStep
    BY AnyRowsStep
  <1>2. SUFFICES ASSUME NEW b \in Known', rows'[b].whitelisted, b # Head, ~rows'[b].indexed
                 PROVE  Owed(b)'
    BY <1>1 DEF RowsStep, WhitelistAccounted, Whitelisted, Owed
  <1>3. b \in Branches
    BY DEF Known
  <1>4. CASE \E c \in Callers : SetWhitelist(c, b, TRUE)
    BY <1>3, <1>4, AskedFor
  <1>5. CASE ~\E c \in Callers : SetWhitelist(c, b, TRUE)
    <2>1. /\ b \in Known /\ rows[b].whitelisted
          /\ rows[b].indexed => rows'[b].indexed
      BY <1>1, <1>2, <1>5 DEF RowsStep
    <2>2. ~rows[b].isDefault
      BY <1>2, <2>1 DEF IInv, DefaultIsHead
    <2>3. Owed(b)
      BY <1>2, <2>1, <2>2 DEF IInv, WhitelistAccounted, Whitelisted, Owed
    <2>4. ~\E c \in Callers, on \in BOOLEAN : SetWhitelist(c, b, on)
      <3> SUFFICES ASSUME NEW c \in Callers, SetWhitelist(c, b, FALSE) PROVE FALSE
        BY <1>5
      <3>1. rows' = [rows EXCEPT ![b].whitelisted = FALSE]
        BY DEF SetWhitelist
      <3>2. rows \in [Branches -> Row \cup {None}] /\ rows[b] \in Row
        BY <2>1 DEF IInv, RegistryTypeOK, Known
      <3>3. rows'[b] = [rows[b] EXCEPT !.whitelisted = FALSE]
        BY <1>3, <3>1, <3>2
      <3>4. ~rows'[b].whitelisted
        BY <3>2, <3>3 DEF Row
      <3>5. QED
        BY <1>2, <3>4
    <2>5. CASE b \in wanted \cup refused
      BY <2>4, <2>5, QueuedStays
    <2>6. CASE \E c \in Callers : b \in todo[c]
      BY <2>6, CallerAccounts
    <2>7. CASE \E w \in Workers : InIncremental(w) /\ b \in todo[w]
      BY <1>2, <2>7, WorkerAccounts
    <2>8. QED
      BY <2>3, <2>5, <2>6, <2>7 DEF Owed
  <1>6. QED
    BY <1>4, <1>5

LEMMA InductiveStep == IInv /\ [Next]_vars => IInv'
  <1> SUFFICES ASSUME IInv, [Next]_vars PROVE IInv'
    OBVIOUS
  <1>1. DefaultIncluded'
    BY AnyRowsStep DEF RowsStep, DefaultIncluded
  <1>2. QED
    BY <1>1, TypeStep, TodoStep, DefaultStep, OwedStep, AccountedStep DEF IInv

\* The invariant and its strengthening hold in every reachable state.
THEOREM RegistryInvariance == Spec => []IInv
  BY InitIInv, InductiveStep, PTL DEF Spec

\* Every variable always holds a value of its type: in particular no build, sync or
\* whitelist call updates a row that is not there (handlers.py:249, projects.py:119).
THEOREM RegistryTypeCorrect == Spec => []RegistryTypeOK
  <1>1. IInv => RegistryTypeOK
    BY DEF IInv
  <1>2. QED
    BY <1>1, RegistryInvariance, PTL

\* The default branch stays whitelisted (projects.py:118), for any number of
\* workers, API threads, branches and pushes.
THEOREM DefaultStaysIncluded == Spec => []DefaultIncluded
  <1>1. IInv => DefaultIncluded
    BY DEF IInv
  <1>2. QED
    BY <1>1, RegistryInvariance, PTL

\* A branch a user whitelisted (projects.py:121) is indexed, or a job, a call or an
\* error on record accounts for it.
THEOREM WhitelistIsAccounted == Spec => []WhitelistAccounted
  <1>1. IInv => WhitelistAccounted
    BY DEF IInv
  <1>2. QED
    BY <1>1, RegistryInvariance, PTL

\* No sync, however old its data, undoes the choices of users or the work of builds
\* (the ON CONFLICT clause, handlers.py:221).
THEOREM SyncsKeepOthers == Spec => SyncKeepsOthers
  <1> DEFINE A == \A b \in Known :
                    /\ rows'[b] # None
                    /\ rows'[b].whitelisted # rows[b].whitelisted =>
                           \E c \in Callers : SetWhitelist(c, b, ~rows[b].whitelisted)
                    /\ rows[b].indexed => rows'[b].indexed
  <1>1. IInv /\ [Next]_vars => [A]_vars
    <2>1. ASSUME IInv, [Next]_vars PROVE A
      BY <2>1, AnyRowsStep DEF RowsStep, Known
    <2>2. QED
      BY <2>1
  <1>2. QED
    BY <1>1, RegistryInvariance, PTL DEF Spec, SyncKeepsOthers
=============================================================================
