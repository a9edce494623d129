-------------------------- MODULE Retrieval_proofs --------------------------
(* Theorems about what questions are answered from: the vector store, the  *)
(* module graph and the suggested questions, for every value of their      *)
(* constants.                                                              *)
EXTENDS CodeIndex, ModuleGraph, Suggestions, FoldLemmas, TLAPS

(***************************************************************************)
(* The vector store: CodeIndex.                                            *)
(***************************************************************************)
Build == [place : {"idle", "chunked", "embed", "stored"}, branch : Branches \cup {NoBranch},
          chunks : ChunkLists, fresh : SUBSET Contents]

CodeIndexTypeOK ==
    /\ rows \in [Branches -> ChunkLists]
    /\ build \in [Builders -> Build]
    /\ snapshot \in [Branches -> SUBSET Contents]

\* What a builder need not add, or has added, is in the rows of its branch.
Accounted ==
    \A x \in Builders :
        LET here == build[x]
        IN  /\ here.place # "idle" => here.branch \in Branches
            /\ here.place = "embed" => In(here.chunks) \ here.fresh \subseteq In(rows[here.branch])
            /\ here.place = "stored" => In(here.chunks) \subseteq In(rows[here.branch])

\* A step of a builder, as seen by the others: no row goes, whoever was right stays right.
OnlyAdds == \A b \in Branches : In(rows[b]) \subseteq In(rows'[b])

CodeIndexInv == CodeIndexTypeOK /\ Accounted /\ Searchable

\* Changing place and fresh of a build keeps its branch and its chunks.
LEMMA TwoFields ==
    ASSUME NEW b \in Build, NEW p \in {"idle", "chunked", "embed", "stored"},
           NEW f \in SUBSET Contents
    PROVE  /\ [b EXCEPT !.place = p, !.fresh = f]
              = [place |-> p, branch |-> b.branch, chunks |-> b.chunks, fresh |-> f]
           /\ [b EXCEPT !.fresh = f, !.place = p]
              = [place |-> p, branch |-> b.branch, chunks |-> b.chunks, fresh |-> f]
  <1> DEFINE u == [b EXCEPT !.place = p]
             v == [b EXCEPT !.fresh = f]
             r == [place |-> p, branch |-> b.branch, chunks |-> b.chunks, fresh |-> f]
  <1>1. u = [place |-> p, branch |-> b.branch, chunks |-> b.chunks, fresh |-> b.fresh]
    BY DEF Build
  <1>2. v = [place |-> b.place, branch |-> b.branch, chunks |-> b.chunks, fresh |-> f]
    BY DEF Build
  <1>3. /\ [b EXCEPT !.place = p, !.fresh = f] = [u EXCEPT !.fresh = f]
        /\ [b EXCEPT !.fresh = f, !.place = p] = [v EXCEPT !.place = p]
    OBVIOUS
  <1> HIDE DEF u, v
  <1>4. [u EXCEPT !.fresh = f] = r
    BY <1>1
  <1>5. [v EXCEPT !.place = p] = r
    BY <1>2
  <1>6. QED
    BY <1>3, <1>4, <1>5

LEMMA InitCodeIndex == CodeIndexInit => CodeIndexInv
  <1> SUFFICES ASSUME CodeIndexInit
               PROVE  CodeIndexInv
    OBVIOUS
  <1>1. NoChunks \in ChunkLists
    BY DEF NoChunks, ChunkLists
  <1>2. Unbuilt \in Build
    BY <1>1 DEF Unbuilt, Build
  <1>3. CodeIndexTypeOK
    BY <1>1, <1>2 DEF CodeIndexInit, CodeIndexTypeOK
  <1>4. Accounted
    BY DEF CodeIndexInit, Accounted, Unbuilt
  <1>5. Searchable
    BY DEF CodeIndexInit, Searchable
  <1>6. QED
    BY <1>3, <1>4, <1>5 DEF CodeIndexInv

\* One builder moves on to s, and rows are at most added.
LEMMA BuilderMoves ==
    ASSUME CodeIndexInv, NEW x \in Builders, NEW s \in Build,
           build' = [build EXCEPT ![x] = s], OnlyAdds,
           rows' \in [Branches -> ChunkLists],
           s.place # "idle" => s.branch \in Branches,
           s.place = "embed" => In(s.chunks) \ s.fresh \subseteq In(rows'[s.branch]),
           s.place = "stored" => In(s.chunks) \subseteq In(rows'[s.branch])
    PROVE  /\ build' \in [Builders -> Build]
           /\ Accounted'
           /\ snapshot' = snapshot => CodeIndexInv'
  <1> USE DEF CodeIndexInv
  <1>1. build' \in [Builders -> Build]
    BY DEF CodeIndexTypeOK
  <1>2. build'[x] = s /\ \A y \in Builders \ {x} : build'[y] = build[y]
    BY DEF CodeIndexTypeOK
  <1>3. ASSUME NEW y \in Builders
        PROVE  LET here == build'[y]
               IN  /\ here.place # "idle" => here.branch \in Branches
                   /\ here.place = "embed" =>
                        In(here.chunks) \ here.fresh \subseteq In(rows'[here.branch])
                   /\ here.place = "stored" => In(here.chunks) \subseteq In(rows'[here.branch])
    <2>1. CASE y = x
      BY <1>2, <2>1
    <2>2. CASE y # x
      <3>1. build'[y] = build[y]
        BY <1>2, <2>2
      <3>2. build[y].place # "idle" =>
              build[y].branch \in Branches /\ In(rows[build[y].branch]) \subseteq In(rows'[build[y].branch])
        BY DEF Accounted, OnlyAdds
      <3>3. QED
        BY <3>1, <3>2 DEF Accounted
    <2>3. QED
      BY <2>1, <2>2
  <1>4. Accounted'
    BY <1>3 DEF Accounted, In
  <1>5. ASSUME snapshot' = snapshot
        PROVE  CodeIndexTypeOK' /\ Searchable'
    BY <1>1, <1>5 DEF CodeIndexTypeOK, Searchable, OnlyAdds, In
  <1>6. QED
    BY <1>1, <1>4, <1>5

LEMMA NextCodeIndex == CodeIndexInv /\ [CodeIndexNext]_codeIndexVars => CodeIndexInv'
  <1> SUFFICES ASSUME CodeIndexInv, [CodeIndexNext]_codeIndexVars
               PROVE  CodeIndexInv'
    OBVIOUS
  <1>1. /\ rows \in [Branches -> ChunkLists] /\ build \in [Builders -> Build]
        /\ snapshot \in [Branches -> SUBSET Contents]
        /\ \A x \in Builders : build[x] \in Build
    BY DEF CodeIndexInv, CodeIndexTypeOK
  <1>2. rows' = rows => OnlyAdds /\ rows' \in [Branches -> ChunkLists]
    BY <1>1 DEF OnlyAdds
  <1>3. ASSUME NEW x \in Builders, NEW b \in Branches, NEW chunks \in ChunkLists,
               ChunkRepo(x, b, chunks)
        PROVE  CodeIndexInv'
    <2> DEFINE s == [place |-> "chunked", branch |-> b, chunks |-> chunks, fresh |-> {}]
    <2>1. s \in Build /\ s.place = "chunked" /\ s.branch \in Branches
      BY DEF Build
    <2>2. build' = [build EXCEPT ![x] = s] /\ UNCHANGED <<rows, snapshot>>
      BY <1>3 DEF ChunkRepo
    <2> HIDE DEF s
    <2>3. QED
      BY <1>2, <2>1, <2>2, BuilderMoves
  <1>4. ASSUME NEW x \in Builders, SelectFresh(x)
        PROVE  CodeIndexInv'
    <2> DEFINE here == build[x]
               new == In(here.chunks) \ ExistingShas(here.branch)
               s == [place |-> IF new = {} THEN "stored" ELSE "embed", branch |-> here.branch,
                     chunks |-> here.chunks, fresh |-> new]
    <2>1. here.branch \in Branches
      BY <1>4 DEF CodeIndexInv, Accounted, SelectFresh
    <2>2. new \in SUBSET Contents
      BY DEF In
    <2>3. /\ s \in Build /\ s.branch = here.branch /\ s.chunks = here.chunks /\ s.fresh = new
          /\ s.place \in {"stored", "embed"} /\ s.place = "stored" => new = {}
      BY <1>1, <2>2 DEF Build
    <2>4. build' = [build EXCEPT ![x] = s] /\ UNCHANGED <<rows, snapshot>>
      <3>1. /\ build' = [build EXCEPT ![x].fresh = new,
                                     ![x].place = IF new = {} THEN "stored" ELSE "embed"]
            /\ UNCHANGED <<rows, snapshot>>
        BY <1>4 DEF SelectFresh
      <3>2. [here EXCEPT !.fresh = new, !.place = IF new = {} THEN "stored" ELSE "embed"] = s
        BY <1>1, <2>2, TwoFields
      <3>3. QED
        BY <1>1, <3>1, <3>2
    <2>5. In(here.chunks) \ new \subseteq In(rows[here.branch])
      BY DEF ExistingShas
    <2> HIDE DEF s, new, here
    <2>6. QED
      BY <1>2, <2>1, <2>3, <2>4, <2>5, BuilderMoves
  <1>5. ASSUME NEW x \in Builders, UpsertChunks(x)
        PROVE  CodeIndexInv'
    <2> DEFINE here == build[x]
               b == here.branch
               added == [c \in Contents |-> IF c \in here.fresh /\ rows[b][c] = NoModule
                                            THEN here.chunks[c] ELSE rows[b][c]]
               s == [place |-> "stored", branch |-> b, chunks |-> here.chunks, fresh |-> {}]
    <2>1. /\ b \in Branches /\ here.chunks \in ChunkLists /\ rows[b] \in ChunkLists
          /\ In(here.chunks) \ here.fresh \subseteq In(rows[b])
      BY <1>1, <1>5 DEF CodeIndexInv, Accounted, UpsertChunks, Build
    <2>2. /\ s \in Build /\ s.place = "stored" /\ s.branch = b /\ s.chunks = here.chunks
      BY <1>1 DEF Build
    <2>3. rows' = [rows EXCEPT ![b] = added] /\ build' = [build EXCEPT ![x] = s] /\ snapshot' = snapshot
      <3>1. /\ rows' = [rows EXCEPT ![b] = added] /\ snapshot' = snapshot
            /\ build' = [build EXCEPT ![x].place = "stored", ![x].fresh = {}]
        BY <1>5 DEF UpsertChunks
      <3>2. [here EXCEPT !.place = "stored", !.fresh = {}] = s
        BY <1>1, TwoFields
      <3>3. QED
        BY <1>1, <3>1, <3>2
    <2>4. added \in ChunkLists
      BY <2>1 DEF ChunkLists
    <2>5. \A c \in Contents :
            added[c] = IF c \in here.fresh /\ rows[b][c] = NoModule
                       THEN here.chunks[c] ELSE rows[b][c]
      OBVIOUS
    <2>6. In(rows[b]) \subseteq In(added) /\ In(here.chunks) \subseteq In(added)
      BY <2>1, <2>5 DEF In
    <2> HIDE DEF added, s
    <2>7. rows'[b] = added /\ \A c \in Branches \ {b} : rows'[c] = rows[c]
      BY <1>1, <2>1, <2>3
    <2>8. OnlyAdds /\ rows' \in [Branches -> ChunkLists]
      BY <1>1, <2>3, <2>4, <2>6, <2>7 DEF OnlyAdds
    <2>9. QED
      BY <2>1, <2>2, <2>3, <2>6, <2>7, <2>8, BuilderMoves
  <1>6. Unbuilt \in Build /\ Unbuilt.place = "idle"
    BY DEF Unbuilt, Build, NoChunks, ChunkLists
  <1>7. ASSUME NEW x \in Builders, IndexEnds(x)
        PROVE  CodeIndexInv'
    <2> DEFINE here == build[x]
    <2>1. /\ here.branch \in Branches /\ In(here.chunks) \subseteq In(rows[here.branch])
          /\ In(here.chunks) \in SUBSET Contents
      BY <1>7 DEF CodeIndexInv, Accounted, IndexEnds, In
    <2>2. /\ snapshot' = [snapshot EXCEPT ![here.branch] = In(here.chunks)]
          /\ build' = [build EXCEPT ![x] = Unbuilt] /\ rows' = rows
      BY <1>7 DEF IndexEnds
    <2>3. build' \in [Builders -> Build] /\ Accounted'
      BY <1>2, <1>6, <2>2, BuilderMoves
    <2> HIDE DEF here
    <2>4. CodeIndexTypeOK'
      BY <1>1, <2>1, <2>2, <2>3 DEF CodeIndexTypeOK
    <2>5. Searchable'
      BY <1>1, <2>1, <2>2 DEF CodeIndexInv, Searchable, In
    <2>6. QED
      BY <2>3, <2>4, <2>5 DEF CodeIndexInv
  <1>8. ASSUME NEW x \in Builders, IndexRaises(x)
        PROVE  CodeIndexInv'
    BY <1>2, <1>6, <1>8, BuilderMoves DEF IndexRaises
  <1>9. CASE UNCHANGED codeIndexVars
    BY <1>9 DEF codeIndexVars, CodeIndexInv, CodeIndexTypeOK, Accounted, Searchable, In
  <1>10. QED
    BY <1>3, <1>4, <1>5, <1>7, <1>8, <1>9 DEF CodeIndexNext

THEOREM CodeIndexInvariance == CodeIndexSpec => []CodeIndexInv
  BY InitCodeIndex, NextCodeIndex, PTL DEF CodeIndexSpec

\* However many builders overlap, for however many branches: the chunks of the last
\* completed index of a branch are all in its rows.
THEOREM NothingUnsearchable == CodeIndexSpec => []Searchable
  <1>1. CodeIndexInv => Searchable
    BY DEF CodeIndexInv
  <1>2. QED
    BY <1>1, CodeIndexInvariance, PTL
(***************************************************************************)
(* Recall.  From what the search with sqlite-vec shows to the nearest of   *)
(* the rows that match: the nearest of the rows it misses are added.       *)
(***************************************************************************)
\* No row that U lacks is nearer than one it has.
NearestFirst(R, U, distance) ==
    \A t \in U, r \in R \ U : distance[t[2]] <= distance[r[2]]

\* One more row can be taken.
LEMMA OneMoreRow ==
    ASSUME NEW R, R \subseteq Branches \X Contents, IsFiniteSet(R),
           NEW distance \in [Contents -> Nat],
           NEW U, U \subseteq R, NearestFirst(R, U, distance), Cardinality(U) < Cardinality(R)
    PROVE  \E V : /\ U \subseteq V /\ V \subseteq R /\ NearestFirst(R, V, distance)
                  /\ Cardinality(V) = Cardinality(U) + 1
  <1> DEFINE Far == {distance[r[2]] : r \in R \ U}
  <1>1. R \ U # {}
    <2>1. R \ U = {} => U = R
      OBVIOUS
    <2>2. Cardinality(R) \in Nat
      BY FS_CardinalityType
    <2>3. QED
      BY <2>1, <2>2
  <1>2. Far \subseteq Nat /\ Far # {}
    <2>1. \A r \in R : r[2] \in Contents
      OBVIOUS
    <2>2. QED
      BY <1>1, <2>1
  <1>3. PICK d \in Far : \A e \in Far : d <= e
    <2> HIDE DEF Far
    <2>1. QED
      BY <1>2, LeastNumber
  <1>4. PICK r \in R \ U : d = distance[r[2]]
    BY <1>3
  <1> DEFINE V == U \cup {r}
  <1>5. NearestFirst(R, V, distance)
    BY <1>3, <1>4 DEF NearestFirst
  <1>6. Cardinality(V) = Cardinality(U) + 1
    <2>1. IsFiniteSet(U)
      BY FS_Subset
    <2>2. QED
      BY <1>4, <2>1, FS_AddElement
  <1>7. QED
    BY <1>4, <1>5, <1>6

\* As many as are asked for can be taken.
LEMMA MoreRows ==
    ASSUME NEW R, R \subseteq Branches \X Contents, IsFiniteSet(R),
           NEW distance \in [Contents -> Nat], NEW k \in Nat, k <= Cardinality(R),
           NEW U, U \subseteq R, NearestFirst(R, U, distance), Cardinality(U) <= k
    PROVE  \E V : /\ U \subseteq V /\ V \subseteq R /\ NearestFirst(R, V, distance)
                  /\ Cardinality(V) = k
  <1> DEFINE c == Cardinality(U)
             N == k - c
             Reached(j) == \E V : /\ U \subseteq V /\ V \subseteq R
                                  /\ NearestFirst(R, V, distance) /\ Cardinality(V) = c + j
             S == {j \in Nat : Reached(j)}
  <1>1. c \in Nat /\ N \in Nat /\ Cardinality(R) \in Nat
    <2>1. IsFiniteSet(U)
      BY FS_Subset
    <2>2. QED
      BY <2>1, FS_CardinalityType
  <1>2. Reached(0)
    BY <1>1
  <1>3. ASSUME NEW j \in Nat, j < N, Reached(j)
        PROVE  Reached(j + 1)
    <2>1. PICK V : /\ U \subseteq V /\ V \subseteq R
                   /\ NearestFirst(R, V, distance) /\ Cardinality(V) = c + j
      BY <1>3
    <2>2. Cardinality(V) < Cardinality(R)
      BY <1>1, <1>3, <2>1
    <2>3. PICK W : /\ V \subseteq W /\ W \subseteq R /\ NearestFirst(R, W, distance)
                   /\ Cardinality(W) = Cardinality(V) + 1
      BY <2>1, <2>2, OneMoreRow
    <2>4. Cardinality(W) = c + (j + 1)
      BY <1>1, <2>1, <2>3
    <2>5. QED
      BY <2>1, <2>3, <2>4
  <1> HIDE DEF Reached
  <1>4. \A j \in 0..N : j \in S
    <2>1. 0 \in S /\ \A j \in Nat : j < N /\ j \in S => j + 1 \in S
      BY <1>2, <1>3
    <2> HIDE DEF N, S
    <2>2. QED
      BY <1>1, <2>1, CountingUp
  <1>5. Reached(N)
    BY <1>1, <1>4
  <1>6. QED
    BY <1>1, <1>5 DEF Reached

\* For any vectors, any metric and any number of chunks asked for: what the search with
\* sqlite-vec shows is part of the nearest of the rows that match.
THEOREM RecallSound ==
    ASSUME CodeIndexTypeOK, NEW b \in Branches, NEW modules \in SUBSET Modules,
           NEW distance \in [Contents -> Nat],
           NEW found \in KnnVec(b, modules, RecallK, distance)
    PROVE  \E T \in Nearest(Matching(b, modules), RecallK, distance) : found \subseteq T
  <1> DEFINE A == AllRows
             M == Matching(b, modules)
  <1>1. /\ A \subseteq Branches \X Contents /\ M \subseteq A
        /\ IsFiniteSet(A) /\ IsFiniteSet(M)
    <2>1. A \subseteq Branches \X Contents /\ M \subseteq A
      BY DEF AllRows, Matching
    <2>2. IsFiniteSet(Branches \X Contents)
      BY FS_Product, CodeIndexAssumption
    <2>3. QED
      BY <2>1, <2>2, FS_Subset
  <1>2. /\ RecallK \in Nat /\ Cardinality(A) \in Nat /\ Cardinality(M) \in Nat
        /\ Cardinality(M) <= Cardinality(A)
    BY <1>1, CodeIndexAssumption, FS_CardinalityType, FS_Subset
  <1>3. PICK T \in Nearest(A, RecallK, distance) : found = T \cap M
    BY DEF KnnVec
  <1> HIDE DEF A, M
  <1>4. CASE Cardinality(M) <= RecallK
    <2>1. M \in Nearest(M, RecallK, distance)
      BY <1>4 DEF Nearest
    <2>2. QED
      BY <1>3, <2>1 DEF M
  <1>5. CASE Cardinality(M) > RecallK
    <2>1. /\ T \subseteq A /\ Cardinality(T) = RecallK
          /\ \A t \in T, r \in A \ T : distance[t[2]] <= distance[r[2]]
      BY <1>2, <1>3, <1>5 DEF Nearest
    <2>2. found \subseteq M /\ NearestFirst(M, found, distance)
      BY <1>1, <1>3, <2>1 DEF NearestFirst
    <2>3. Cardinality(found) <= RecallK
      <3>1. IsFiniteSet(T)
        BY <1>1, <2>1, FS_Subset
      <3>2. QED
        BY <1>3, <2>1, <3>1, FS_Subset
    <2>4. PICK V : /\ found \subseteq V /\ V \subseteq M /\ NearestFirst(M, V, distance)
                   /\ Cardinality(V) = RecallK
      <3>1. M \subseteq Branches \X Contents /\ RecallK <= Cardinality(M)
        BY <1>1, <1>2, <1>5
      <3>2. QED
        BY <1>1, <1>2, <2>2, <2>3, <3>1, MoreRows
    <2>5. V \in Nearest(M, RecallK, distance)
      BY <1>2, <1>5, <2>4 DEF Nearest, NearestFirst
    <2>6. QED
      BY <2>4, <2>5 DEF M
  <1>6. QED
    BY <1>2, <1>4, <1>5

\* In every state that builds reach, of both searches, each in its own metric: the runs
\* choose distances from two, which RecallSound shows to be no restriction.
THEOREM AlwaysSound == CodeIndexSpec => []KnnSound
  <1>1. CodeIndexInv => KnnSound
    <2>1. SUFFICES ASSUME CodeIndexTypeOK, NEW b \in Branches, NEW modules \in SUBSET Modules,
                          NEW distance \in [Contents -> 1..2],
                          NEW found \in KnnVec(b, modules, RecallK, distance)
                                          \cup KnnBruteforce(b, modules, RecallK, distance)
                   PROVE  \E T \in Nearest(Matching(b, modules), RecallK, distance) :
                              found \subseteq T
      BY DEF CodeIndexInv, KnnSound
    <2>2. CASE found \in KnnVec(b, modules, RecallK, distance)
      <3>1. distance \in [Contents -> Nat]
        OBVIOUS
      <3>2. QED
        BY <2>1, <2>2, <3>1, RecallSound
    <2>3. CASE found \in KnnBruteforce(b, modules, RecallK, distance)
      BY <2>3 DEF KnnBruteforce
    <2>4. QED
      BY <2>1, <2>2, <2>3
  <1>2. QED
    BY <1>1, CodeIndexInvariance, PTL
-----------------------------------------------------------------------------
(***************************************************************************)
(* The suggested questions: Suggestions.                                   *)
(***************************************************************************)
Request == [place : {"idle", "reads", "asks"}, now : Nat, read : SUBSET Analyses]

SuggestTypeOK ==
    /\ time \in 0..MaxTime
    /\ arrived \in [Analyses -> 0..NotYet]
    /\ cache \in [made : SUBSET Analyses, ts : Nat]
    /\ request \in [Requests -> Request]

\* A prompt that was made at a time or later has the commits it should have.
Complete(prompt, at) ==
    /\ prompt # {}
    /\ \A n \in Newest(Known, PromptLimit) : arrived[n] < at => n \in prompt

SuggestInv ==
    /\ SuggestTypeOK
    /\ \A n \in Known : arrived[n] <= time
    /\ \A r \in Requests :
          /\ request[r].place # "idle" => request[r].now <= time
          /\ request[r].place = "asks" => Complete(Prompt(r), request[r].now)
    /\ Cached => cache.ts <= time /\ Complete(cache.made, cache.ts)

LEMMA TimesAreNumbers == SuggestTTL \in Nat /\ MaxTime \in Nat /\ NotYet \in Nat
  BY SuggestionsAssumption DEF NotYet

LEMMA AnalysesFinite ==
    ASSUME NEW S, S \subseteq Analyses
    PROVE  IsFiniteSet(S) /\ Cardinality(S) \in Nat
  <1>1. IsFiniteSet(Analyses)
    BY SuggestionsAssumption, FS_Interval DEF Analyses
  <1>2. QED
    BY <1>1, FS_Subset, FS_CardinalityType

\* What is among the newest of a set is so in each part of it, and of more places.
LEMMA NewestOfPart ==
    ASSUME NEW S, NEW T, S \subseteq T, T \subseteq Analyses,
           NEW k \in Nat, NEW l \in Nat, k <= l, NEW n \in S, n \in Newest(T, k)
    PROVE  n \in Newest(S, l)
  <1> DEFINE A == {m \in S : m > n}
             B == {m \in T : m > n}
  <1>1. A \subseteq B /\ A \subseteq Analyses /\ B \subseteq Analyses
    OBVIOUS
  <1>2. Cardinality(A) \in Nat /\ Cardinality(B) \in Nat /\ Cardinality(A) <= Cardinality(B)
    BY <1>1, AnalysesFinite, FS_Subset
  <1>3. Cardinality(B) < k
    BY DEF Newest
  <1>4. Cardinality(A) < l
    BY <1>2, <1>3
  <1>5. QED
    BY <1>4 DEF Newest

\* Where there is a commit, there is a last one.
LEMMA LastCommit ==
    ASSUME NEW S, S \subseteq Analyses, S # {}, NEW k \in Nat \ {0}
    PROVE  \E n \in S : n \in Newest(S, k)
  <1> DEFINE Back == {MaxAnalyses - n : n \in S}
  <1>1. S \subseteq Nat /\ MaxAnalyses \in Nat /\ \A n \in S : n <= MaxAnalyses
    BY SuggestionsAssumption DEF Analyses
  <1>2. Back \subseteq Nat /\ Back # {}
    <2>1. ASSUME NEW n \in S
          PROVE  MaxAnalyses - n \in Nat
      BY <1>1
    <2>2. Back \subseteq Nat
      BY <2>1
    <2>3. Back # {}
      BY S # {}, Zenon
    <2>4. QED
      BY <2>2, <2>3
  <1>3. PICK b \in Back : \A c \in Back : b <= c
    <2> HIDE DEF Back
    <2>1. QED
      BY <1>2, LeastNumber
  <1>4. PICK n \in S : b = MaxAnalyses - n
    BY <1>3
  <1>5. {m \in S : m > n} = {}
    <2>1. ASSUME NEW m \in S PROVE ~(m > n)
      <3>1. MaxAnalyses - n <= MaxAnalyses - m
        BY <1>3, <1>4
      <3>2. QED
        BY <1>1, <3>1
    <2>2. QED
      BY <2>1
  <1>6. Cardinality({m \in S : m > n}) < k
    BY <1>5, FS_EmptySet
  <1>7. QED
    BY <1>6 DEF Newest

LEMMA InitSuggest == SuggestInit => SuggestInv
  <1> SUFFICES ASSUME SuggestInit
               PROVE  SuggestInv
    OBVIOUS
  <1>1. SuggestTypeOK
    BY TimesAreNumbers
    DEF SuggestInit, SuggestTypeOK, NoEntry, NoRequest, Request, NotYet
  <1>2. Known = {} /\ ~Cached /\ \A r \in Requests : request[r].place = "idle"
    BY DEF SuggestInit, Known, Cached, NoRequest
  <1>3. QED
    BY <1>1, <1>2 DEF SuggestInv

\* One request moves on, and neither the time nor the analyses change.
LEMMA RequestMoves ==
    ASSUME SuggestInv, NEW r \in Requests, NEW s \in Request,
           request' = [request EXCEPT ![r] = s], UNCHANGED <<time, arrived>>,
           s.place # "idle" => s.now <= time,
           s.place = "asks" => Complete(Newest(s.read, PromptLimit), s.now),
           cache' \in [made : SUBSET Analyses, ts : Nat],
           Cached' => cache'.ts <= time /\ Complete(cache'.made, cache'.ts)
    PROVE  SuggestInv'
  <1>1. request \in [Requests -> Request]
    BY DEF SuggestInv, SuggestTypeOK
  <1>2. request'[r] = s /\ \A q \in Requests \ {r} : request'[q] = request[q]
    BY <1>1
  <1>3. SuggestTypeOK'
    BY <1>1 DEF SuggestInv, SuggestTypeOK
  <1>4. Known' = Known
    BY DEF Known
  <1>5. \A q \in Requests :
          /\ request'[q].place # "idle" => request'[q].now <= time'
          /\ request'[q].place = "asks" => Complete(Prompt(q)', request'[q].now)
    BY <1>2 DEF SuggestInv, Prompt
  <1>6. QED
    BY <1>3, <1>4, <1>5 DEF SuggestInv, Complete

LEMMA NextSuggest == SuggestInv /\ [SuggestNext]_suggestVars => SuggestInv'
  <1> SUFFICES ASSUME SuggestInv, [SuggestNext]_suggestVars
               PROVE  SuggestInv'
    OBVIOUS
  <1>1. /\ SuggestTypeOK /\ time \in 0..MaxTime /\ arrived \in [Analyses -> 0..NotYet]
        /\ request \in [Requests -> Request] /\ \A r \in Requests : request[r] \in Request
        /\ cache \in [made : SUBSET Analyses, ts : Nat]
    BY DEF SuggestInv, SuggestTypeOK
  <1>2. NoRequest \in Request /\ NoRequest.place = "idle"
    BY DEF NoRequest, Request
  <1>3. CASE Tick
    <2>1. time' \in 0..MaxTime /\ time' = time + 1 /\ UNCHANGED <<arrived, cache, request>>
      BY <1>1, <1>3, TimesAreNumbers DEF Tick
    <2>2. SuggestTypeOK'
      BY <1>1, <2>1 DEF SuggestTypeOK
    <2>3. Known' = Known /\ (Cached' <=> Cached) /\ \A r \in Requests : Prompt(r)' = Prompt(r)
      BY <2>1 DEF Known, Cached, Prompt
    <2>4. \A m \in Nat : m <= time => m <= time'
      BY <1>1, <2>1
    <2>5. /\ \A n \in Known : arrived[n] \in Nat
          /\ \A r \in Requests : request[r].now \in Nat
          /\ cache.ts \in Nat
      BY <1>1, TimesAreNumbers DEF Known, Request
    <2>6. /\ \A n \in Known' : arrived'[n] <= time'
          /\ \A r \in Requests : request'[r].place # "idle" => request'[r].now <= time'
          /\ Cached' => cache'.ts <= time'
      BY <2>1, <2>3, <2>4, <2>5 DEF SuggestInv
    <2>7. /\ \A r \in Requests :
               request'[r].place = "asks" => Complete(Prompt(r), request[r].now)
          /\ Cached' => Complete(cache.made, cache.ts)
      BY <2>1, <2>3 DEF SuggestInv
    <2>8. QED
      BY <2>1, <2>2, <2>3, <2>6, <2>7 DEF SuggestInv, Complete
  <1>4. ASSUME NEW n \in Analyses, Analysed(n)
        PROVE  SuggestInv'
    <2>1. /\ arrived' = [arrived EXCEPT ![n] = time] /\ UNCHANGED <<time, cache, request>>
          /\ n \notin Known
      BY <1>4 DEF Analysed
    <2>2. time \in 0..NotYet /\ time # NotYet
      BY <1>1, TimesAreNumbers DEF NotYet
    <2>3. /\ Known' = Known \cup {n} /\ arrived'[n] = time
          /\ \A m \in Known : arrived'[m] = arrived[m]
      BY <1>1, <2>1, <2>2 DEF Known
    <2>4. SuggestTypeOK'
      BY <1>1, <2>1, <2>2 DEF SuggestTypeOK
    <2>5. ASSUME NEW prompt, NEW at \in Nat, at <= time, Complete(prompt, at)
          PROVE  Complete(prompt, at)'
      <3>1. ~(time < at)
        BY <1>1, <2>5
      <3>2. ASSUME NEW m \in Newest(Known', PromptLimit), m \in Known
            PROVE  m \in Newest(Known, PromptLimit)
        <4>1. Known \subseteq Known' /\ Known' \subseteq Analyses
          BY <2>3 DEF Known
        <4>2. PromptLimit \in Nat /\ PromptLimit <= PromptLimit
          BY SuggestionsAssumption
        <4>3. QED
          BY <3>2, <4>1, <4>2, NewestOfPart
      <3>3. \A m \in Newest(Known', PromptLimit) : m \in Known \/ m = n
        BY <2>3 DEF Newest
      <3>4. QED
        BY <2>3, <2>5, <3>1, <3>2, <3>3 DEF Complete
    <2>6. /\ \A m \in Known' : arrived'[m] <= time'
          /\ (Cached' <=> Cached)
      BY <1>1, <2>1, <2>3 DEF SuggestInv, Cached
    <2>7. \A r \in Requests : request[r].now \in Nat
      BY <1>1 DEF Request
    <2>8. \A r \in Requests :
            request[r].place = "asks" => Complete(Prompt(r), request[r].now)'
      <3> TAKE r \in Requests
      <3> HAVE request[r].place = "asks"
      <3>1. request[r].now <= time /\ Complete(Prompt(r), request[r].now)
        BY DEF SuggestInv
      <3> PICK prompt, at : prompt = Prompt(r) /\ at = request[r].now
        OBVIOUS
      <3>2. Complete(prompt, at)'
        BY <2>5, <2>7, <3>1
      <3>3. QED
        BY <2>1, <3>2 DEF Complete, Prompt
    <2>9. Cached => Complete(cache.made, cache.ts)'
      <3> HAVE Cached
      <3> PICK prompt, at : prompt = cache.made /\ at = cache.ts
        OBVIOUS
      <3>1. Complete(prompt, at)'
        BY <1>1, <2>5 DEF SuggestInv
      <3>2. QED
        BY <2>1, <3>1 DEF Complete
    <2>10. QED
      BY <2>1, <2>4, <2>6, <2>8, <2>9 DEF SuggestInv
  <1>5. ASSUME NEW r \in Requests, Misses(r)
        PROVE  SuggestInv'
    <2> DEFINE s == [place |-> "reads", now |-> time, read |-> {}]
    <2>1. s \in Request /\ s.place = "reads" /\ s.now <= time
      BY <1>1, TimesAreNumbers DEF Request
    <2>2. request' = [request EXCEPT ![r] = s] /\ UNCHANGED <<time, arrived, cache>>
      BY <1>5 DEF Misses
    <2> HIDE DEF s
    <2>3. Cached' => cache'.ts <= time /\ Complete(cache'.made, cache'.ts)
      BY <2>2 DEF SuggestInv, Cached
    <2>4. QED
      BY <1>1, <2>1, <2>2, <2>3, RequestMoves
  <1>6. ASSUME NEW r \in Requests, ReadCommits(r)
        PROVE  SuggestInv'
    <2> DEFINE recent == Newest(Known, RecentLimit)
               s == [place |-> "asks", now |-> request[r].now, read |-> recent]
    <2>1. UNCHANGED <<time, arrived, cache>> /\ request[r].place = "reads"
      BY <1>6 DEF ReadCommits
    <2>2. Cached' => cache'.ts <= time /\ Complete(cache'.made, cache'.ts)
      BY <2>1 DEF SuggestInv, Cached
    <2>3. CASE Known = {}
      <3>1. request' = [request EXCEPT ![r] = NoRequest]
        BY <1>6, <2>3 DEF ReadCommits
      <3>2. QED
        BY <1>1, <1>2, <2>1, <2>2, <3>1, RequestMoves
    <2>4. CASE Known # {}
      <3>1. request' = [request EXCEPT ![r] = [request[r] EXCEPT !.place = "asks", !.read = recent]]
        BY <1>6, <2>4 DEF ReadCommits
      <3>2. [request[r] EXCEPT !.place = "asks", !.read = recent] = s
        <4> DEFINE u == [request[r] EXCEPT !.place = "asks"]
        <4>1. u = [place |-> "asks", now |-> request[r].now, read |-> request[r].read]
          BY <1>1 DEF Request
        <4>2. [request[r] EXCEPT !.place = "asks", !.read = recent] = [u EXCEPT !.read = recent]
          OBVIOUS
        <4> HIDE DEF u
        <4>3. [u EXCEPT !.read = recent] = s
          BY <4>1
        <4>4. QED
          BY <4>2, <4>3
      <3>3. /\ s \in Request /\ s.place = "asks" /\ s.now = request[r].now /\ s.read = recent
        BY <1>1 DEF Request, Known, Newest
      <3>4. s.now <= time
        BY <2>1, <3>3 DEF SuggestInv
      <3>5. Complete(Newest(s.read, PromptLimit), s.now)
        <4>1. ASSUME NEW n \in Newest(Known, PromptLimit)
              PROVE  n \in Newest(recent, PromptLimit)
          <5>1. Known \subseteq Analyses /\ recent \subseteq Known /\ n \in Known
            BY DEF Known, Newest
          <5>2. /\ PromptLimit \in Nat /\ RecentLimit \in Nat
                /\ PromptLimit <= RecentLimit /\ PromptLimit <= PromptLimit
            BY SuggestionsAssumption
          <5>3. n \in recent
            BY <5>1, <5>2, NewestOfPart
          <5> HIDE DEF recent
          <5>4. QED
            BY <5>1, <5>2, <5>3, NewestOfPart
        <4>2. PICK n \in Known : n \in Newest(Known, PromptLimit)
          BY <2>4, LastCommit, SuggestionsAssumption DEF Known
        <4>3. QED
          BY <3>3, <4>1, <4>2 DEF Complete
      <3> HIDE DEF s
      <3>6. QED
        BY <1>1, <2>1, <2>2, <3>1, <3>2, <3>3, <3>4, <3>5, RequestMoves
    <2>5. QED
      BY <2>3, <2>4
  <1>7. ASSUME NEW r \in Requests, Questions(r)
        PROVE  SuggestInv'
    <2>1. /\ request[r].place = "asks" /\ request' = [request EXCEPT ![r] = NoRequest]
          /\ cache' = [made |-> Prompt(r), ts |-> request[r].now]
          /\ UNCHANGED <<time, arrived>>
      BY <1>7 DEF Questions
    <2>2. request[r].now <= time /\ Complete(Prompt(r), request[r].now)
      BY <2>1 DEF SuggestInv
    <2>3. cache' \in [made : SUBSET Analyses, ts : Nat]
      BY <1>1, <2>1 DEF Request, Prompt, Newest
    <2>4. cache'.ts <= time /\ Complete(cache'.made, cache'.ts)
      BY <2>1, <2>2
    <2>5. QED
      BY <1>2, <2>1, <2>3, <2>4, RequestMoves
  <1>8. ASSUME NEW r \in Requests, NoQuestions(r)
        PROVE  SuggestInv'
    <2>1. request' = [request EXCEPT ![r] = NoRequest] /\ UNCHANGED <<time, arrived, cache>>
      BY <1>8 DEF NoQuestions
    <2>2. Cached' => cache'.ts <= time /\ Complete(cache'.made, cache'.ts)
      BY <2>1 DEF SuggestInv, Cached
    <2>3. QED
      BY <1>1, <1>2, <2>1, <2>2, RequestMoves
  <1>9. CASE ApiRestarts
    <2>1. /\ cache' = NoEntry /\ request' = [r \in Requests |-> NoRequest]
          /\ UNCHANGED <<time, arrived>>
      BY <1>9 DEF ApiRestarts
    <2>2. SuggestTypeOK'
      BY <1>1, <1>2, <2>1 DEF SuggestTypeOK, NoEntry
    <2>3. ~Cached' /\ \A r \in Requests : request'[r].place = "idle"
      BY <1>2, <2>1 DEF Cached
    <2>4. \A n \in Known' : arrived'[n] <= time'
      BY <2>1 DEF SuggestInv, Known
    <2>5. QED
      BY <2>2, <2>3, <2>4 DEF SuggestInv
  <1>10. CASE UNCHANGED suggestVars
    BY <1>10 DEF suggestVars, SuggestInv, SuggestTypeOK, Known, Cached, Complete, Prompt
  <1>11. QED
    BY <1>3, <1>4, <1>5, <1>6, <1>7, <1>8, <1>9, <1>10 DEF SuggestNext

THEOREM SuggestInvariance == SuggestSpec => []SuggestInv
  BY InitSuggest, NextSuggest, PTL DEF SuggestSpec

\* For every lifetime of the cache, any limits and any number of parallel requests: what is
\* served from the cache was made from every analysis that is at least that old, of the
\* commits that a prompt has room for.
THEOREM AlwaysFresh == SuggestSpec => []SuggestionsFresh
  <1>1. ASSUME SuggestInv, Fresh(time)
        PROVE  /\ cache.made # {}
               /\ {n \in Newest(Known, PromptLimit) : time - arrived[n] >= SuggestTTL}
                     \subseteq cache.made
    <2>1. /\ time \in Nat /\ cache.ts \in Nat /\ SuggestTTL \in Nat
          /\ \A n \in Newest(Known, PromptLimit) : arrived[n] \in Nat
      BY <1>1, TimesAreNumbers DEF SuggestInv, SuggestTypeOK, Known, Newest
    <2>2. Cached /\ time - cache.ts < SuggestTTL
      BY <1>1 DEF Fresh
    <2>3. Complete(cache.made, cache.ts)
      BY <1>1, <2>2 DEF SuggestInv
    <2>4. ASSUME NEW n \in Newest(Known, PromptLimit), time - arrived[n] >= SuggestTTL
          PROVE  arrived[n] < cache.ts
      BY <2>1, <2>2, <2>4
    <2>5. QED
      BY <2>3, <2>4 DEF Complete
  <1>2. SuggestInv => SuggestionsFresh
    BY <1>1 DEF SuggestionsFresh
  <1>3. QED
    BY <1>2, SuggestInvariance, PTL

-----------------------------------------------------------------------------
(***************************************************************************)
(* The module graph: ModuleGraph.                                          *)
(***************************************************************************)
Tables == {"modules", "files"}
Folders == {Directory[f] : f \in SourceFiles}
Counts == UNION {[D -> Nat] : D \in SUBSET Folders}
Graph == [tables : SUBSET Tables, files : SUBSET SourceFiles, modules : Counts]
Parser == [at : {"idle", "connect", "create", "fill"}, file : 0..MaxGraphs]
Session == [open : 0..MaxGraphs, files : SUBSET SourceFiles, modules : Counts]

GraphTypeOK ==
    /\ created \in 0..MaxGraphs /\ path \in 0..MaxGraphs
    /\ graphs \in [1..MaxGraphs -> Graph]
    /\ parser \in [GraphBuilders -> Parser]
    /\ session \in [GraphReaders -> Session]

HasOpen(b, n) == parser[b].at \in {"create", "fill"} /\ parser[b].file = n

\* A build connects to what was created after it began, and then has a file open.
Began ==
    /\ path <= created
    /\ \A b \in GraphBuilders :
          /\ parser[b].file <= created
          /\ parser[b].at = "connect" /\ path # 0 => parser[b].file < path
          /\ parser[b].at \in {"create", "fill"} => parser[b].file # 0

\* The rows of a file that no second build opened are of one build, which has it open for
\* itself while there are none.
OneBuild ==
    \A n \in 1..MaxGraphs : n \notin shared =>
        /\ graphs[n].modules = Counted(graphs[n].files)
        /\ n > created => graphs[n].files = {}
        /\ \A b \in GraphBuilders : HasOpen(b, n) => graphs[n].files = {}
        /\ \A b, c \in GraphBuilders : HasOpen(b, n) /\ HasOpen(c, n) => b = c

\* A reader was told nothing yet, or what is in the file that it has open.
Told(s) ==
    /\ s.open <= created
    /\ s.open \notin shared =>
          /\ s.files = {} \/ (s.open # 0 /\ s.files = graphs[s.open].files)
          /\ s.modules = Counted({}) \/ (s.open # 0 /\ s.modules = graphs[s.open].modules)

GraphInv == GraphTypeOK /\ Began /\ OneBuild /\ \A r \in GraphReaders : Told(session[r])

LEMMA CountsAreCounts == \A files \in SUBSET SourceFiles : Counted(files) \in Counts
  <1> SUFFICES ASSUME NEW files \in SUBSET SourceFiles
               PROVE  Counted(files) \in Counts
    OBVIOUS
  <1> DEFINE D == {Directory[f] : f \in files}
  <1>1. ASSUME NEW d \in D
        PROVE  Cardinality({f \in files : Directory[f] = d}) \in Nat
    <2>1. {f \in files : Directory[f] = d} \subseteq SourceFiles
      OBVIOUS
    <2>2. QED
      BY <2>1, ModuleGraphAssumption, FS_Subset, FS_CardinalityType
  <1>2. Counted(files) = [d \in D |-> Cardinality({f \in files : Directory[f] = d})]
    BY DEF Counted
  <1>3. D \in SUBSET Folders
    BY DEF Folders
  <1> HIDE DEF D
  <1>4. Counted(files) \in [D -> Nat]
    BY <1>1, <1>2
  <1>5. QED
    BY <1>3, <1>4 DEF Counts

LEMMA OverCounts ==
    ASSUME NEW old \in Counts, NEW new \in Counts
    PROVE  Over(old, new) \in Counts
  <1>1. PICK D \in SUBSET Folders : old \in [D -> Nat]
    BY DEF Counts
  <1>2. PICK E \in SUBSET Folders : new \in [E -> Nat]
    BY DEF Counts
  <1>3. Over(old, new) \in [D \cup E -> Nat]
    BY <1>1, <1>2 DEF Over
  <1>4. D \cup E \in SUBSET Folders
    OBVIOUS
  <1>5. QED
    BY <1>3, <1>4 DEF Counts

LEMMA OverNothing ==
    ASSUME NEW files \in SUBSET SourceFiles
    PROVE  Over(Counted({}), Counted(files)) = Counted(files)
  <1> DEFINE C == Counted(files)
  <1>1. PICK D \in SUBSET Folders : C \in [D -> Nat]
    BY CountsAreCounts DEF Counts
  <1>2. DOMAIN Counted({}) = {}
    BY DEF Counted
  <1> HIDE DEF C
  <1>3. Over(Counted({}), C) = [d \in DOMAIN C |-> C[d]]
    BY <1>2 DEF Over
  <1>4. Over(Counted({}), C) = C
    BY <1>1, <1>3
  <1>5. QED
    BY <1>4 DEF C

LEMMA GraphTypes ==
    ASSUME GraphTypeOK
    PROVE  /\ created \in Nat /\ path \in Nat /\ MaxGraphs \in Nat /\ created <= MaxGraphs
           /\ \A n \in 1..MaxGraphs : graphs[n] \in Graph
           /\ \A b \in GraphBuilders : parser[b] \in Parser
           /\ \A r \in GraphReaders : session[r] \in Session
           /\ Counted({}) \in Counts
           /\ Closed \in Session /\ NoRows \in Graph
  <1>1. MaxGraphs \in Nat
    BY ModuleGraphAssumption
  <1>2. Counted({}) \in Counts
    BY CountsAreCounts
  <1>3. Closed \in Session /\ NoRows \in Graph
    BY <1>1, <1>2 DEF Closed, NoRows, Session, Graph
  <1>4. QED
    BY <1>1, <1>2, <1>3 DEF GraphTypeOK

LEMMA InitGraph == GraphInit => GraphInv
  <1> SUFFICES ASSUME GraphInit
               PROVE  GraphInv
    OBVIOUS
  <1>1. MaxGraphs \in Nat /\ Counted({}) \in Counts
    BY ModuleGraphAssumption, CountsAreCounts
  <1>2. Closed \in Session /\ NoRows \in Graph /\ AtRest \in Parser
    BY <1>1 DEF Closed, NoRows, AtRest, Session, Graph, Parser
  <1>3. GraphTypeOK
    BY <1>1, <1>2 DEF GraphInit, GraphTypeOK
  <1>4. Began
    BY DEF GraphInit, Began, AtRest
  <1>5. OneBuild
    <2>1. \A n \in 1..MaxGraphs : graphs[n] = NoRows
      BY DEF GraphInit
    <2>2. NoRows.files = {} /\ NoRows.modules = Counted(NoRows.files)
      BY DEF NoRows
    <2>3. \A b \in GraphBuilders : parser[b].at = "idle"
      BY DEF GraphInit, AtRest
    <2>4. QED
      BY <2>1, <2>2, <2>3 DEF OneBuild, HasOpen
  <1>6. \A r \in GraphReaders : Told(session[r])
    BY DEF GraphInit, Told, Closed
  <1>7. QED
    BY <1>3, <1>4, <1>5, <1>6 DEF GraphInv

\* Readers keep what they were told while rows only come where there were none, or where
\* two builds write.
LEMMA ReadersKeep ==
    ASSUME GraphInv, created' \in Nat, created <= created', shared \subseteq shared',
           session' = session,
           \A n \in 1..MaxGraphs : n \notin shared' =>
               \/ graphs[n].files = {}
               \/ graphs'[n].files = graphs[n].files /\ graphs'[n].modules = graphs[n].modules
    PROVE  \A r \in GraphReaders : Told(session[r])'
  <1>1. SUFFICES ASSUME NEW r \in GraphReaders
                 PROVE  Told(session[r])'
    OBVIOUS
  <1>2. Told(session[r]) /\ session[r].open \in 0..MaxGraphs /\ created \in Nat /\ MaxGraphs \in Nat
    BY GraphTypes DEF GraphInv, Session
  <1>3. session[r].open <= created'
    BY <1>2 DEF Told
  <1>4. SUFFICES ASSUME session[r].open \notin shared'
                 PROVE  /\ \/ session[r].files = {}
                           \/ /\ session[r].open # 0
                              /\ session[r].files = graphs'[session[r].open].files
                        /\ \/ session[r].modules = Counted({})
                           \/ /\ session[r].open # 0
                              /\ session[r].modules = graphs'[session[r].open].modules
    BY <1>3 DEF Told
  <1>5. session[r].open \notin shared
    BY <1>4
  <1>6. CASE session[r].open = 0
    BY <1>2, <1>5, <1>6 DEF Told
  <1>7. CASE session[r].open # 0
    <2>1. session[r].open \in 1..MaxGraphs
      BY <1>2, <1>7
    <2>2. CASE graphs[session[r].open].files = {}
      <3>1. graphs[session[r].open].modules = Counted({})
        BY <1>5, <2>1, <2>2 DEF GraphInv, OneBuild
      <3>2. QED
        BY <1>2, <1>5, <2>2, <3>1 DEF Told
    <2>3. CASE graphs[session[r].open].files # {}
      BY <1>2, <1>4, <1>5, <2>1, <2>3 DEF Told
    <2>4. QED
      BY <2>2, <2>3
  <1>8. QED
    BY <1>6, <1>7

\* A build goes on to p, which it makes no other build share unless the file is noted so.
LEMMA ParserMoves ==
    ASSUME GraphInv, NEW b \in GraphBuilders, NEW p \in Parser,
           parser' = [parser EXCEPT ![b] = p]
    PROVE  /\ parser' \in [GraphBuilders -> Parser]
           /\ parser'[b] = p
           /\ \A c \in GraphBuilders \ {b} : parser'[c] = parser[c]
  BY DEF GraphInv, GraphTypeOK

LEMMA UnlinkStep == ASSUME GraphInv, NEW b \in GraphBuilders, Unlink(b) PROVE GraphInv'
  <1> DEFINE p == [at |-> "connect", file |-> created]
  <1>1. /\ created \in 0..MaxGraphs /\ created \in Nat /\ MaxGraphs \in Nat
        /\ \A c \in GraphBuilders : parser[c] \in Parser
    BY GraphTypes DEF GraphInv, GraphTypeOK
  <1>2. p \in Parser /\ p.at = "connect" /\ p.file = created
    BY <1>1 DEF Parser
  <1>3. /\ parser' = [parser EXCEPT ![b] = p] /\ path' = 0
        /\ UNCHANGED <<created, graphs, shared, session>>
    BY DEF Unlink, Proceeds
  <1> HIDE DEF p
  <1>4. /\ parser' \in [GraphBuilders -> Parser] /\ parser'[b] = p
        /\ \A c \in GraphBuilders \ {b} : parser'[c] = parser[c]
    BY <1>2, <1>3, ParserMoves
  <1>5. GraphTypeOK'
    BY <1>1, <1>3, <1>4 DEF GraphInv, GraphTypeOK
  <1>6. Began'
    BY <1>1, <1>2, <1>3, <1>4 DEF GraphInv, Began
  <1>7. OneBuild'
    <2>1. \A n : \A c \in GraphBuilders : HasOpen(c, n)' => HasOpen(c, n)
      BY <1>2, <1>4 DEF HasOpen
    <2>2. QED
      BY <1>3, <2>1 DEF GraphInv, OneBuild
  <1>8. \A r \in GraphReaders : Told(session[r])'
    BY <1>1, <1>3, ReadersKeep
  <1>9. QED
    BY <1>5, <1>6, <1>7, <1>8 DEF GraphInv

LEMMA ConnectStep == ASSUME GraphInv, NEW b \in GraphBuilders, Connect(b) PROVE GraphInv'
  <1>1. /\ created \in Nat /\ path \in Nat /\ MaxGraphs \in Nat /\ created <= MaxGraphs
        /\ \A c \in GraphBuilders : parser[c] \in Parser /\ parser[c].file \in Nat
        /\ path <= created
    BY GraphTypes DEF GraphInv, Began, Parser
  <1>2. parser[b].at = "connect" /\ UNCHANGED <<graphs, session>>
    BY DEF Connect
  <1>3. CASE /\ path = 0 /\ created < MaxGraphs
             /\ created' = created + 1 /\ path' = created + 1
             /\ Proceeds(b, "create", created + 1)
             /\ UNCHANGED shared
    <2> DEFINE p == [at |-> "create", file |-> created + 1]
    <2>1. p \in Parser /\ p.at = "create" /\ p.file = created + 1
      BY <1>1, <1>3 DEF Parser
    <2>2. parser' = [parser EXCEPT ![b] = p]
      BY <1>3 DEF Proceeds
    <2> HIDE DEF p
    <2>3. /\ parser' \in [GraphBuilders -> Parser] /\ parser'[b] = p
          /\ \A c \in GraphBuilders \ {b} : parser'[c] = parser[c]
      BY <2>1, <2>2, ParserMoves
    <2>4. GraphTypeOK'
      BY <1>1, <1>2, <1>3, <2>3 DEF GraphInv, GraphTypeOK
    <2>5. \A c \in GraphBuilders : parser[c].file <= created
      BY DEF GraphInv, Began
    <2>6. Began'
      BY <1>1, <1>3, <2>1, <2>3, <2>5 DEF GraphInv, Began
    <2>7. OneBuild'
      <3>1. SUFFICES ASSUME NEW n \in 1..MaxGraphs, n \notin shared
                     PROVE  /\ graphs[n].modules = Counted(graphs[n].files)
                            /\ n > created' => graphs[n].files = {}
                            /\ \A c \in GraphBuilders : HasOpen(c, n)' => graphs[n].files = {}
                            /\ \A c, d \in GraphBuilders :
                                  HasOpen(c, n)' /\ HasOpen(d, n)' => c = d
        BY <1>2, <1>3 DEF OneBuild
      <3>2. CASE n = created + 1
        <4>1. \A c \in GraphBuilders : HasOpen(c, n)' => c = b
          BY <1>1, <2>3, <2>5, <3>2 DEF HasOpen
        <4>2. n > created
          BY <1>1, <3>2
        <4>3. QED
          BY <3>1, <4>1, <4>2 DEF GraphInv, OneBuild
      <3>3. CASE n # created + 1
        <4>1. \A c \in GraphBuilders : HasOpen(c, n)' => HasOpen(c, n)
          BY <2>1, <2>3, <3>3 DEF HasOpen
        <4>2. n > created' => n > created
          BY <1>1, <1>3
        <4>3. QED
          BY <3>1, <4>1, <4>2 DEF GraphInv, OneBuild
      <3>4. QED
        BY <3>2, <3>3
    <2>8. \A r \in GraphReaders : Told(session[r])'
      BY <1>1, <1>2, <1>3, ReadersKeep
    <2>9. QED
      BY <2>4, <2>6, <2>7, <2>8 DEF GraphInv
  <1>4. CASE /\ path # 0
             /\ Proceeds(b, "create", path)
             /\ shared' = IF path > parser[b].file THEN shared \cup {path} ELSE shared
             /\ UNCHANGED <<created, path>>
    <2> DEFINE p == [at |-> "create", file |-> path]
    <2>1. p \in Parser /\ p.at = "create" /\ p.file = path
      BY <1>1 DEF Parser
    <2>2. parser' = [parser EXCEPT ![b] = p]
      BY <1>4 DEF Proceeds
    <2> HIDE DEF p
    <2>3. /\ parser' \in [GraphBuilders -> Parser] /\ parser'[b] = p
          /\ \A c \in GraphBuilders \ {b} : parser'[c] = parser[c]
      BY <2>1, <2>2, ParserMoves
    <2>4. shared' = shared \cup {path}
      <3>1. parser[b].file < path
        BY <1>2, <1>4 DEF GraphInv, Began
      <3>2. QED
        BY <1>1, <1>4, <3>1
    <2>5. GraphTypeOK'
      BY <1>2, <1>4, <2>3 DEF GraphInv, GraphTypeOK
    <2>6. Began'
      BY <1>1, <1>4, <2>1, <2>3 DEF GraphInv, Began
    <2>7. \A n : \A c \in GraphBuilders : HasOpen(c, n)' => HasOpen(c, n) \/ n = path
      BY <2>1, <2>3 DEF HasOpen
    <2>8. OneBuild'
      BY <1>2, <1>4, <2>4, <2>7 DEF GraphInv, OneBuild
    <2>9. \A r \in GraphReaders : Told(session[r])'
      BY <1>1, <1>2, <1>4, <2>4, ReadersKeep
    <2>10. QED
      BY <2>5, <2>6, <2>8, <2>9 DEF GraphInv
  <1>5. QED
    BY <1>3, <1>4 DEF Connect

\* Of a file that it has open, a build changes the record; others keep theirs.
LEMMA GraphChanges ==
    ASSUME GraphInv, NEW b \in GraphBuilders, parser[b].at \in {"create", "fill"},
           NEW g \in Graph, graphs' = [graphs EXCEPT ![parser[b].file] = g]
    PROVE  /\ parser[b].file \in 1..MaxGraphs
           /\ graphs' \in [1..MaxGraphs -> Graph] /\ graphs'[parser[b].file] = g
           /\ \A n \in 1..MaxGraphs : n # parser[b].file => graphs'[n] = graphs[n]
  <1>1. parser[b].file \in 0..MaxGraphs /\ parser[b].file # 0 /\ MaxGraphs \in Nat
    BY GraphTypes DEF GraphInv, Began, Parser
  <1>2. parser[b].file \in 1..MaxGraphs
    BY <1>1
  <1>3. QED
    BY <1>2 DEF GraphInv, GraphTypeOK

LEMMA CreateStep ==
    ASSUME GraphInv, NEW b \in GraphBuilders, NEW t \in Tables, CreateTable(b, t)
    PROVE  GraphInv'
  <1> DEFINE n == parser[b].file
             g == [graphs[n] EXCEPT !.tables = @ \cup {t}]
             p == [at |-> IF t = "files" THEN "fill" ELSE "create", file |-> n]
  <1>1. /\ created \in Nat /\ MaxGraphs \in Nat /\ parser[b] \in Parser
        /\ parser[b].at = "create" /\ n \in 1..MaxGraphs /\ graphs[n] \in Graph
    BY GraphTypes DEF GraphInv, Began, CreateTable, Parser
  <1>2. g \in Graph /\ g.files = graphs[n].files /\ g.modules = graphs[n].modules
    BY <1>1 DEF Graph
  <1>3. p \in Parser /\ p.at \in {"create", "fill"} /\ p.file = n
    BY <1>1 DEF Parser
  <1>4. /\ graphs' = [graphs EXCEPT ![n] = g] /\ parser' = [parser EXCEPT ![b] = p]
        /\ UNCHANGED <<created, path, shared, session>>
    BY DEF CreateTable, Proceeds
  <1> HIDE DEF g, p
  <1>5. /\ graphs' \in [1..MaxGraphs -> Graph] /\ graphs'[n] = g
        /\ \A m \in 1..MaxGraphs : m # n => graphs'[m] = graphs[m]
    BY <1>1, <1>2, <1>4, GraphChanges
  <1>6. /\ parser' \in [GraphBuilders -> Parser] /\ parser'[b] = p
        /\ \A c \in GraphBuilders \ {b} : parser'[c] = parser[c]
    BY <1>3, <1>4, ParserMoves
  <1>7. \A m \in 1..MaxGraphs :
          graphs'[m].files = graphs[m].files /\ graphs'[m].modules = graphs[m].modules
    BY <1>2, <1>5
  <1>8. GraphTypeOK'
    BY <1>4, <1>5, <1>6 DEF GraphInv, GraphTypeOK
  <1>9. Began'
    BY <1>1, <1>3, <1>4, <1>6 DEF GraphInv, Began
  <1>10. \A m : \A c \in GraphBuilders : HasOpen(c, m)' => HasOpen(c, m)
    BY <1>1, <1>3, <1>6 DEF HasOpen
  <1>11. OneBuild'
    BY <1>4, <1>7, <1>10 DEF GraphInv, OneBuild
  <1>12. \A r \in GraphReaders : Told(session[r])'
    BY <1>1, <1>4, <1>7, ReadersKeep
  <1>13. QED
    BY <1>8, <1>9, <1>11, <1>12 DEF GraphInv

\* Whoever ends a build has nothing open.
LEMMA RestingParser ==
    ASSUME GraphInv, NEW b \in GraphBuilders, Proceeds(b, "idle", 0), UNCHANGED <<created, path>>
    PROVE  /\ parser' \in [GraphBuilders -> Parser] /\ Began'
           /\ \A n : \A c \in GraphBuilders : HasOpen(c, n)' => HasOpen(c, n) /\ c # b
  <1> DEFINE p == [at |-> "idle", file |-> 0]
  <1>1. p \in Parser /\ p.at = "idle" /\ p.file = 0 /\ created \in Nat
    BY GraphTypes DEF GraphInv, Parser
  <1>2. parser' = [parser EXCEPT ![b] = p]
    BY DEF Proceeds
  <1> HIDE DEF p
  <1>3. /\ parser' \in [GraphBuilders -> Parser] /\ parser'[b] = p
        /\ \A c \in GraphBuilders \ {b} : parser'[c] = parser[c]
    BY <1>1, <1>2, ParserMoves
  <1>4. Began'
    BY <1>1, <1>3 DEF GraphInv, Began
  <1>5. QED
    BY <1>1, <1>3, <1>4 DEF HasOpen

LEMMA FillStep ==
    ASSUME GraphInv, NEW b \in GraphBuilders, NEW tree \in SUBSET SourceFiles, Fill(b, tree)
    PROVE  GraphInv'
  <1> DEFINE n == parser[b].file
             g == [tables |-> graphs[n].tables, files |-> graphs[n].files \cup tree,
                   modules |-> Over(graphs[n].modules, Counted(tree))]
  <1>1. /\ created \in Nat /\ MaxGraphs \in Nat /\ HasOpen(b, n)
        /\ parser[b].at = "fill" /\ n \in 1..MaxGraphs /\ graphs[n] \in Graph
        /\ graphs \in [1..MaxGraphs -> Graph]
    BY GraphTypes DEF GraphInv, GraphTypeOK, Began, Fill, Parser, HasOpen
  <1>2. g \in Graph
    <2>1. Over(graphs[n].modules, Counted(tree)) \in Counts
      BY <1>1, CountsAreCounts, OverCounts DEF Graph
    <2>2. QED
      BY <1>1, <2>1 DEF Graph
  <1>3. graphs' = [graphs EXCEPT ![n] = g] /\ UNCHANGED <<created, path, shared, session>>
    BY <1>1 DEF Fill
  <1>4. /\ g.files = graphs[n].files \cup tree
        /\ g.modules = Over(graphs[n].modules, Counted(tree))
    OBVIOUS
  <1> HIDE DEF g
  <1>5. /\ graphs' \in [1..MaxGraphs -> Graph] /\ graphs'[n] = g
        /\ \A m \in 1..MaxGraphs : m # n => graphs'[m] = graphs[m]
    BY <1>1, <1>2, <1>3, GraphChanges
  <1>6. /\ parser' \in [GraphBuilders -> Parser] /\ Began'
        /\ \A m : \A c \in GraphBuilders : HasOpen(c, m)' => HasOpen(c, m) /\ c # b
    BY <1>3, RestingParser DEF Fill
  <1>7. GraphTypeOK'
    BY <1>3, <1>5, <1>6 DEF GraphInv, GraphTypeOK
  <1>8. n \notin shared => graphs[n].files = {} /\ graphs[n].modules = Counted({})
    BY <1>1 DEF GraphInv, OneBuild
  <1>9. n \notin shared => graphs'[n].modules = Counted(graphs'[n].files)
    BY <1>4, <1>5, <1>8, OverNothing
  <1>10. OneBuild'
    <2>1. SUFFICES ASSUME NEW m \in 1..MaxGraphs, m \notin shared
                   PROVE  /\ graphs'[m].modules = Counted(graphs'[m].files)
                          /\ m > created => graphs'[m].files = {}
                          /\ \A c \in GraphBuilders : HasOpen(c, m)' => graphs'[m].files = {}
                          /\ \A c, d \in GraphBuilders :
                                HasOpen(c, m)' /\ HasOpen(d, m)' => c = d
      BY <1>3 DEF OneBuild
    <2>2. CASE m = n
      <3>1. \A c \in GraphBuilders : ~HasOpen(c, m)'
        BY <1>1, <1>6, <2>1, <2>2 DEF GraphInv, OneBuild
      <3>2. ~(m > created)
        BY <1>1, <2>2 DEF GraphInv, Began
      <3>3. QED
        BY <1>9, <2>1, <2>2, <3>1, <3>2
    <2>3. CASE m # n
      BY <1>5, <1>6, <2>1, <2>3 DEF GraphInv, OneBuild
    <2>4. QED
      BY <2>2, <2>3
  <1>11. \A r \in GraphReaders : Told(session[r])'
    <2>1. \A m \in 1..MaxGraphs : m \notin shared =>
            \/ graphs[m].files = {}
            \/ graphs'[m].files = graphs[m].files /\ graphs'[m].modules = graphs[m].modules
      BY <1>5, <1>8
    <2>2. QED
      BY <1>1, <1>3, <2>1, ReadersKeep
  <1>12. QED
    BY <1>6, <1>7, <1>10, <1>11 DEF GraphInv

LEMMA BreakStep == ASSUME GraphInv, NEW b \in GraphBuilders, BuildBreaks(b) PROVE GraphInv'
  <1>1. UNCHANGED <<created, path, graphs, shared, session>> /\ created \in Nat
    BY GraphTypes DEF BuildBreaks, GraphInv
  <1>2. /\ parser' \in [GraphBuilders -> Parser] /\ Began'
        /\ \A n : \A c \in GraphBuilders : HasOpen(c, n)' => HasOpen(c, n) /\ c # b
    BY <1>1, RestingParser DEF BuildBreaks
  <1>3. GraphTypeOK' /\ OneBuild'
    BY <1>1, <1>2 DEF GraphInv, GraphTypeOK, OneBuild
  <1>4. \A r \in GraphReaders : Told(session[r])'
    BY <1>1, ReadersKeep
  <1>5. QED
    BY <1>2, <1>3, <1>4 DEF GraphInv

\* A reader asks one more question.
LEMMA ReaderSteps ==
    ASSUME GraphInv, NEW r \in GraphReaders,
           OpenGraph(r) \/ ReadModules(r) \/ ReadFiles(r) \/ CloseGraph(r)
    PROVE  GraphInv'
  <1>1. /\ created \in Nat /\ path \in 0..MaxGraphs /\ MaxGraphs \in Nat /\ path <= created
        /\ \A n \in 1..MaxGraphs : graphs[n] \in Graph
        /\ session[r] \in Session /\ Closed \in Session /\ Told(session[r])
        /\ UNCHANGED <<created, path, graphs, parser, shared>>
    BY GraphTypes DEF GraphInv, GraphTypeOK, Began, OpenGraph, ReadModules, ReadFiles, CloseGraph
  <1>2. ASSUME NEW s \in Session, session' = [session EXCEPT ![r] = s], Told(s)
        PROVE  GraphInv'
    <2>1. GraphTypeOK' /\ Began' /\ OneBuild'
      BY <1>1, <1>2 DEF GraphInv, GraphTypeOK, Began, OneBuild, HasOpen
    <2>2. session'[r] = s /\ \A q \in GraphReaders \ {r} : session'[q] = session[q]
      BY <1>2 DEF GraphInv, GraphTypeOK
    <2>3. QED
      BY <1>1, <1>2, <2>1, <2>2 DEF GraphInv, Told
  <1>3. CASE OpenGraph(r)
    <2> DEFINE s == [open |-> path, files |-> {}, modules |-> Counted({})]
    <2>1. s \in Session /\ Told(s)
      BY <1>1 DEF Closed, Session, Told
    <2>2. session' = [session EXCEPT ![r] = s]
      <3>1. session' = [session EXCEPT ![r].open = path] /\ session[r] = Closed
        BY <1>3 DEF OpenGraph
      <3>2. [Closed EXCEPT !.open = path] = s
        BY DEF Closed
      <3>3. QED
        BY <3>1, <3>2
    <2> HIDE DEF s
    <2>3. QED
      BY <1>2, <2>1, <2>2
  <1>4. CASE ReadModules(r)
    <2> DEFINE m == graphs[session[r].open].modules
               s == [session[r] EXCEPT !.modules = m]
    <2>1. session[r].open \in 1..MaxGraphs /\ m \in Counts
      BY <1>1, <1>4 DEF ReadModules, Session, Graph
    <2>2. /\ s \in Session /\ s.open = session[r].open /\ s.files = session[r].files
          /\ s.modules = m
      BY <1>1, <2>1 DEF Session
    <2>3. session' = [session EXCEPT ![r] = s]
      BY <1>4 DEF ReadModules
    <2> HIDE DEF s
    <2>4. Told(s)
      BY <1>1, <2>1, <2>2 DEF Told
    <2>5. QED
      BY <1>2, <2>2, <2>3, <2>4
  <1>5. CASE ReadFiles(r)
    <2> DEFINE f == graphs[session[r].open].files
               s == [session[r] EXCEPT !.files = f]
    <2>1. session[r].open \in 1..MaxGraphs /\ f \in SUBSET SourceFiles
      BY <1>1, <1>5 DEF ReadFiles, Session, Graph
    <2>2. /\ s \in Session /\ s.open = session[r].open /\ s.modules = session[r].modules
          /\ s.files = f
      BY <1>1, <2>1 DEF Session
    <2>3. session' = [session EXCEPT ![r] = s]
      BY <1>5 DEF ReadFiles
    <2> HIDE DEF s
    <2>4. Told(s)
      BY <1>1, <2>1, <2>2 DEF Told
    <2>5. QED
      BY <1>2, <2>2, <2>3, <2>4
  <1>6. CASE CloseGraph(r)
    <2>1. Told(Closed)
      BY <1>1 DEF Told, Closed
    <2>2. session' = [session EXCEPT ![r] = Closed]
      BY <1>6 DEF CloseGraph
    <2>3. QED
      BY <1>1, <1>2, <2>1, <2>2
  <1>7. QED
    BY <1>3, <1>4, <1>5, <1>6

THEOREM GraphInvariance == GraphSpec => []GraphInv
  <1>1. GraphInv /\ [GraphNext]_graphVars => GraphInv'
    <2>1. CASE UNCHANGED graphVars
      BY <2>1 DEF graphVars, GraphInv, GraphTypeOK, Began, OneBuild, HasOpen, Told
    <2>2. QED
      BY <2>1, UnlinkStep, ConnectStep, CreateStep, FillStep, BreakStep, ReaderSteps
      DEF GraphNext, Tables
  <1>2. QED
    BY <1>1, InitGraph, PTL DEF GraphSpec

\* For any number of overlapping builds and of readers: what a reader is told over one
\* connection, its modules and its files, is of one build, unless a second build has
\* connected to the file that another had just created.
THEOREM AlwaysOneGraph == GraphSpec => []OneGraph
  <1>1. GraphInv => OneGraph
    <2>1. SUFFICES ASSUME GraphInv, NEW r \in GraphReaders, session[r].open \notin shared,
                          session[r].files # {}, DOMAIN session[r].modules # {}
                   PROVE  session[r].modules = Counted(session[r].files)
      BY DEF OneGraph
    <2>2. Told(session[r]) /\ session[r] \in Session
      BY <2>1 DEF GraphInv, GraphTypeOK
    <2>3. DOMAIN Counted({}) = {}
      BY DEF Counted
    <2>4. /\ session[r].open # 0 /\ session[r].files = graphs[session[r].open].files
          /\ session[r].modules = graphs[session[r].open].modules
      BY <2>1, <2>2, <2>3 DEF Told
    <2>5. session[r].open \in 1..MaxGraphs
      BY <2>2, <2>4, ModuleGraphAssumption DEF Session
    <2>6. QED
      BY <2>1, <2>4, <2>5 DEF GraphInv, OneBuild
  <1>2. QED
    BY <1>1, GraphInvariance, PTL
=============================================================================
