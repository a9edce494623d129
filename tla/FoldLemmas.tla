----------------------------- MODULE FoldLemmas -----------------------------
(***************************************************************************)
(* Lemmas that the proofs share: induction over the natural numbers, and   *)
(* that functions defined by recursion, the folds of the community modules *)
(* among them, are what their equations say.  They are about sets and      *)
(* functions, where other statements of induction are about operators.     *)
(***************************************************************************)
EXTENDS Naturals, FiniteSetsExt, WellFoundedInduction, FiniteSetTheorems, TLAPS

\* A set of natural numbers that is not empty has a least element.
LEMMA LeastNumber ==
    ASSUME NEW T, T \subseteq Nat, T # {}
    PROVE  \E x \in T : \A y \in T : x <= y
  <1>1. IsWellFoundedOn({p \in Nat \X Nat : p[1] < p[2]}, Nat)
    BY NatLessThanWellFounded DEF OpToRel
  <1>2. PICK x \in T : \A y \in T : <<y, x>> \notin {p \in Nat \X Nat : p[1] < p[2]}
    BY <1>1, WFMin
  <1>3. \A y \in T : ~(y < x)
    BY <1>2
  <1>4. QED
    BY <1>3

\* What holds of 0 and of the successor of each number below N holds up to N.
LEMMA CountingUp ==
    ASSUME NEW N \in Nat, NEW S, 0 \in S, \A n \in Nat : n < N /\ n \in S => n + 1 \in S
    PROVE  \A n \in 0..N : n \in S
  <1> DEFINE T == {n \in 0..N : n \notin S}
  <1>1. SUFFICES ASSUME T # {} PROVE FALSE
    OBVIOUS
  <1>2. PICK x \in T : \A y \in T : x <= y
    <2>1. T \subseteq Nat
      OBVIOUS
    <2> HIDE DEF T
    <2>2. QED
      BY <1>1, <2>1, LeastNumber
  <1>3. x # 0 /\ x - 1 \in 0..N /\ x - 1 \notin T
    BY <1>2
  <1>4. QED
    BY <1>2, <1>3

\* A set of numbers up to N that is not empty has a greatest element: Max.
LEMMA MaxIs ==
    ASSUME NEW N \in Nat, NEW T, T \subseteq 0..N, T # {}
    PROVE  Max(T) \in T /\ \A y \in T : y <= Max(T)
  <1> DEFINE B == {n \in Nat : \A y \in T : y <= n}
  <1>1. N \in B
    OBVIOUS
  <1>2. PICK m \in B : \A n \in B : m <= n
    BY <1>1, LeastNumber
  <1>3. m \in T
    <2>1. SUFFICES ASSUME m \notin T PROVE FALSE
      OBVIOUS
    <2>2. m > 0 /\ \A y \in T : y <= m - 1
      <3>1. \A y \in T : y \in Nat /\ y <= m /\ y # m
        BY <1>2, <2>1
      <3>2. PICK y \in T : TRUE
        OBVIOUS
      <3>3. QED
        BY <3>1, <3>2
    <2>3. m - 1 \in B
      <3>1. m - 1 \in Nat
        BY <2>2
      <3>2. QED
        BY <2>2, <3>1
    <2>4. QED
      BY <1>2, <2>2, <2>3
  <1>4. \E x \in T : \A y \in T : x >= y
    BY <1>2, <1>3
  <1>5. QED
    BY <1>4 DEF Max

\* Max of a set of one more than all its other elements.
LEMMA MaxAdded ==
    ASSUME NEW N \in Nat, NEW T, T \subseteq 0..(N + 1), N + 1 \in T
    PROVE  Max(T) = N + 1
  <1>1. Max(T) \in T /\ \A y \in T : y <= Max(T)
    BY MaxIs, N + 1 \in Nat
  <1>2. Max(T) \in 0..(N + 1) /\ N + 1 <= Max(T)
    BY <1>1
  <1>3. QED
    BY <1>2

\* 1..N is 1..(N - 1) and N, its Max.
LEMMA UpTo ==
    ASSUME NEW k \in Nat
    PROVE  /\ 1..(k + 1) # {}
           /\ Max(1..(k + 1)) = k + 1
           /\ (1..(k + 1)) \ {k + 1} = 1..k
  <1>1. 1..(k + 1) \subseteq 0..(k + 1) /\ k + 1 \in 1..(k + 1)
    OBVIOUS
  <1>2. QED
    BY <1>1, MaxAdded

\* A state that takes one step for each number up to N exists for every N.
Runs(g, N, base, Step) == g[0] = base /\ \A n \in 1..N : g[n] = Step[<<g[n - 1], n>>]

LEMMA Iterates ==
    ASSUME NEW N \in Nat, NEW Acc, NEW base \in Acc, NEW Step \in [Acc \X Nat -> Acc]
    PROVE  \E g \in [0..N -> Acc] : Runs(g, N, base, Step)
  <1> DEFINE Run(k) == \E g \in [0..k -> Acc] :
                          g[0] = base /\ \A n \in 1..k : g[n] = Step[<<g[n - 1], n>>]
             S == {k \in Nat : Run(k)}
  <1>1. Run(0)
    <2> DEFINE g == [n \in 0..0 |-> base]
    <2>1. g \in [0..0 -> Acc] /\ g[0] = base /\ 1..0 = {}
      OBVIOUS
    <2>2. QED
      BY <2>1
  <1>2. ASSUME NEW k \in Nat, Run(k)
        PROVE  Run(k + 1)
    <2>1. PICK g \in [0..k -> Acc] :
            g[0] = base /\ \A n \in 1..k : g[n] = Step[<<g[n - 1], n>>]
      BY <1>2
    <2> DEFINE h == [n \in 0..(k + 1) |-> IF n <= k THEN g[n] ELSE Step[<<g[k], k + 1>>]]
    <2>2. h \in [0..(k + 1) -> Acc]
      BY <2>1
    <2>3. h[0] = base
      BY <2>1
    <2>4. ASSUME NEW n \in 1..(k + 1)
          PROVE  h[n] = Step[<<h[n - 1], n>>]
      <3>1. n - 1 \in 0..k /\ h[n - 1] = g[n - 1]
        OBVIOUS
      <3>2. CASE n <= k
        BY <2>1, <3>1, <3>2
      <3>3. CASE n = k + 1
        <4>1. n - 1 = k /\ ~(n <= k)
          BY <3>3
        <4>2. h[n] = Step[<<g[k], k + 1>>]
          BY <4>1
        <4>3. QED
          BY <3>1, <3>3, <4>1, <4>2
      <3>4. QED
        BY <3>2, <3>3
    <2>5. QED
      BY <2>2, <2>3, <2>4
  <1> HIDE DEF Run
  <1>3. 0 \in S /\ \A n \in Nat : n < N /\ n \in S => n + 1 \in S
    BY <1>1, <1>2
  <1>4. \A n \in 0..N : n \in S
    BY <1>3, CountingUp
  <1>5. Run(N)
    BY <1>4
  <1>6. QED
    BY <1>5 DEF Run, Runs

(***************************************************************************)
(* The folds over the elements of 1..N from the first to the last, which   *)
(* the community modules define by taking the greatest element away.       *)
(***************************************************************************)
Folds1(g, N, base, Step) ==
    g = [s \in SUBSET (1..N) |->
            IF s = {} THEN base ELSE Step[<<g[s \ {Max(s)}], Max(s)>>]]

LEMMA FoldExists ==
    ASSUME NEW N \in Nat, NEW Acc, NEW base \in Acc, NEW Step \in [Acc \X Nat -> Acc]
    PROVE  \E g \in [SUBSET (1..N) -> Acc] : Folds1(g, N, base, Step)
  <1> DEFINE P(k) == \E g \in [SUBSET (1..k) -> Acc] : Folds1(g, k, base, Step)
             S == {k \in Nat : P(k)}
  <1>1. P(0)
    <2> DEFINE g == [s \in SUBSET (1..0) |-> base]
    <2>1. g \in [SUBSET (1..0) -> Acc] /\ 1..0 = {}
      OBVIOUS
    <2>2. \A s \in SUBSET (1..0) : s = {}
      BY <2>1
    <2>3. Folds1(g, 0, base, Step)
      BY <2>2 DEF Folds1
    <2>4. QED
      BY <2>1, <2>3
  <1>2. ASSUME NEW k \in Nat, P(k)
        PROVE  P(k + 1)
    <2>1. PICK g \in [SUBSET (1..k) -> Acc] : Folds1(g, k, base, Step)
      BY <1>2
    <2> DEFINE h == [s \in SUBSET (1..(k + 1)) |->
                        IF k + 1 \in s THEN Step[<<g[s \ {k + 1}], k + 1>>] ELSE g[s]]
    <2>2. \A s \in SUBSET (1..(k + 1)) : s \ {k + 1} \in SUBSET (1..k)
      OBVIOUS
    <2>3. \A s \in SUBSET (1..(k + 1)) : k + 1 \notin s => s \in SUBSET (1..k)
      OBVIOUS
    <2>4. h \in [SUBSET (1..(k + 1)) -> Acc]
      BY <2>1, <2>2, <2>3
    <2>5. ASSUME NEW s \in SUBSET (1..(k + 1))
          PROVE  h[s] = IF s = {} THEN base ELSE Step[<<h[s \ {Max(s)}], Max(s)>>]
      <3>1. CASE k + 1 \in s
        <4>1. Max(s) = k + 1
          BY <3>1, MaxAdded, s \subseteq 0..(k + 1)
        <4>2. h[s] = Step[<<g[s \ {k + 1}], k + 1>>]
          BY <3>1
        <4>3. h[s \ {k + 1}] = g[s \ {k + 1}]
          BY <2>2
        <4>4. QED
          BY <3>1, <4>1, <4>2, <4>3
      <3>2. CASE k + 1 \notin s
        <4>1. h[s] = g[s] /\ s \in SUBSET (1..k)
          BY <2>3, <3>2
        <4>2. s \ {Max(s)} \in SUBSET (1..k)
          BY <4>1
        <4>3. h[s \ {Max(s)}] = g[s \ {Max(s)}]
          BY <4>2
        <4>4. g[s] = IF s = {} THEN base ELSE Step[<<g[s \ {Max(s)}], Max(s)>>]
          BY <2>1, <4>1 DEF Folds1
        <4>5. QED
          BY <4>1, <4>3, <4>4
      <3>3. QED
        BY <3>1, <3>2
    <2> HIDE DEF h
    <2>6. h = [s \in SUBSET (1..(k + 1)) |-> h[s]]
      BY <2>4
    <2>7. Folds1(h, k + 1, base, Step)
      BY <2>5, <2>6 DEF Folds1
    <2>8. QED
      BY <2>4, <2>7
  <1> HIDE DEF P
  <1>3. 0 \in S /\ \A n \in Nat : n < N /\ n \in S => n + 1 \in S
    BY <1>1, <1>2
  <1>4. \A n \in 0..N : n \in S
    BY <1>3, CountingUp
  <1>5. P(N)
    BY <1>4
  <1>6. QED
    BY <1>5 DEF P

(***************************************************************************)
(* Sums over finite sets: SumFunctionOnSet of the community modules, which *)
(* takes the elements in the order in which CHOOSE names them.             *)
(***************************************************************************)
\* What holds of a finite set if it holds of the set without any one of its elements,
\* holds of every finite set.
LEMMA SmallSets ==
    ASSUME NEW D, IsFiniteSet(D), NEW Q,
           \A T \in SUBSET D : (\A x \in T : T \ {x} \in Q) => T \in Q
    PROVE  \A T \in SUBSET D : T \in Q
  <1> DEFINE bad == {T \in SUBSET D : T \notin Q}
             sizes == {Cardinality(T) : T \in bad}
  <1>1. SUFFICES ASSUME bad # {} PROVE FALSE
    OBVIOUS
  <1>2. \A T \in SUBSET D : IsFiniteSet(T) /\ Cardinality(T) \in Nat
    BY FS_Subset, FS_CardinalityType
  <1>3. sizes \subseteq Nat /\ sizes # {}
    BY <1>1, <1>2
  <1>4. PICK n \in sizes : \A m \in sizes : n <= m
    <2> HIDE DEF sizes
    <2>1. QED
      BY <1>3, LeastNumber
  <1>5. PICK T \in bad : Cardinality(T) = n
    BY <1>4
  <1>6. ASSUME NEW x \in T
        PROVE  T \ {x} \in Q
    <2>1. T \ {x} \in SUBSET D /\ Cardinality(T \ {x}) = n - 1 /\ n \in Nat
      BY <1>2, <1>5, FS_RemoveElement
    <2>2. CASE T \ {x} \in bad
      <3>1. n - 1 \in sizes
        BY <2>1, <2>2
      <3>2. QED
        BY <1>4, <2>1, <3>1
    <2>3. QED
      BY <2>1, <2>2
  <1>7. QED
    BY <1>5, <1>6

Sums(g, f, S) ==
    g = [s \in SUBSET S |-> IF s = {} THEN 0
                            ELSE f[CHOOSE x \in s : TRUE] + g[s \ {CHOOSE x \in s : TRUE}]]

LEMMA SumsAre ==
    ASSUME NEW S, NEW f, NEW g, Sums(g, f, S), NEW T \in SUBSET S
    PROVE  /\ T = {} => g[T] = 0
           /\ T # {} => \E x \in T : g[T] = f[x] + g[T \ {x}]
  <1> DEFINE c == CHOOSE x \in T : TRUE
  <1>1. g[T] = IF T = {} THEN 0 ELSE f[c] + g[T \ {c}]
    BY DEF Sums
  <1>2. T # {} => c \in T
    OBVIOUS
  <1> HIDE DEF c
  <1>3. QED
    BY <1>1, <1>2

\* There are such sums.
LEMMA SumsExist ==
    ASSUME NEW D, IsFiniteSet(D), NEW f \in [D -> Nat]
    PROVE  \E g : Sums(g, f, D)
  <1> DEFINE Small(n) == {s \in SUBSET D : Cardinality(s) <= n}
             c(s) == CHOOSE x \in s : TRUE
             Value(g, s) == IF s = {} THEN 0 ELSE f[c(s)] + g[s \ {c(s)}]
             P(n) == \E g \in [Small(n) -> Nat] : \A s \in Small(n) : g[s] = Value(g, s)
             N == Cardinality(D)
             Q == {n \in Nat : P(n)}
  <1>1. \A s \in SUBSET D : IsFiniteSet(s) /\ Cardinality(s) \in Nat /\ Cardinality(s) <= N
    BY FS_Subset, FS_CardinalityType
  <1>2. ASSUME NEW s \in SUBSET D, s # {}
        PROVE  /\ c(s) \in s /\ f[c(s)] \in Nat /\ s \ {c(s)} \in SUBSET D
               /\ Cardinality(s \ {c(s)}) = Cardinality(s) - 1
    <2>1. c(s) \in s
      BY <1>2
    <2> HIDE DEF c
    <2>2. f[c(s)] \in Nat /\ s \ {c(s)} \in SUBSET D
      BY <2>1
    <2>3. Cardinality(s \ {c(s)}) = Cardinality(s) - 1
      BY <1>1, <2>1, FS_RemoveElement
    <2>4. QED
      BY <2>1, <2>2, <2>3
  <1>3. \A s \in SUBSET D : Cardinality(s) = 0 <=> s = {}
    BY <1>1, FS_EmptySet
  <1> HIDE DEF c
  <1>4. 0 \in Q
    <2> DEFINE g == [s \in Small(0) |-> 0]
    <2>1. \A s \in Small(0) : s = {}
      BY <1>1, <1>3
    <2>2. g \in [Small(0) -> Nat] /\ \A s \in Small(0) : g[s] = Value(g, s)
      BY <2>1
    <2>3. QED
      BY <2>2
  <1>5. ASSUME NEW n \in Nat, P(n)
        PROVE  P(n + 1)
    <2>1. PICK g \in [Small(n) -> Nat] : \A s \in Small(n) : g[s] = Value(g, s)
      BY <1>5
    <2> DEFINE h == [s \in Small(n + 1) |-> Value(g, s)]
    <2>2. ASSUME NEW s \in Small(n + 1), s # {}
          PROVE  s \ {c(s)} \in Small(n)
      <3>1. s \in SUBSET D /\ Cardinality(s) <= n + 1 /\ Cardinality(s) \in Nat
        BY <1>1
      <3>2. QED
        BY <1>2, <2>2, <3>1
    <2>3. ASSUME NEW s \in Small(n + 1)
          PROVE  Value(g, s) \in Nat
      BY <1>2, <2>1, <2>2
    <2>4. h \in [Small(n + 1) -> Nat]
      BY <2>3
    <2>5. ASSUME NEW s \in Small(n)
          PROVE  s \in Small(n + 1) /\ h[s] = g[s]
      <3>1. s \in SUBSET D /\ Cardinality(s) <= n /\ Cardinality(s) \in Nat
        BY <1>1
      <3>2. s \in Small(n + 1)
        BY <3>1
      <3> HIDE DEF Value, Small
      <3>3. QED
        BY <2>1, <3>2
    <2>6. ASSUME NEW s \in Small(n + 1)
          PROVE  h[s] = Value(h, s)
      <3>1. CASE s = {}
        BY <3>1
      <3>2. CASE s # {}
        <4>1. h[s \ {c(s)}] = g[s \ {c(s)}]
          BY <2>2, <2>5, <3>2
        <4>2. h[s] = f[c(s)] + g[s \ {c(s)}]
          BY <3>2
        <4> HIDE DEF h
        <4>3. QED
          BY <3>2, <4>1, <4>2
      <3>3. QED
        BY <3>1, <3>2
    <2> HIDE DEF h
    <2>7. QED
      BY <2>4, <2>6
  <1>6. N \in Nat
    BY <1>1
  <1>7. N \in Q
    <2> HIDE DEF N, P
    <2>1. \A n \in Nat : n < N /\ n \in Q => n + 1 \in Q
      BY <1>5
    <2> HIDE DEF Q
    <2>2. \A n \in 0..N : n \in Q
      BY <1>4, <1>6, <2>1, CountingUp
    <2>3. QED
      BY <1>6, <2>2
  <1>8. Small(N) = SUBSET D
    BY <1>1
  <1>9. PICK g \in [SUBSET D -> Nat] : \A s \in SUBSET D : g[s] = Value(g, s)
    <2> HIDE DEF Small, Value
    <2>1. QED
      BY <1>7, <1>8
  <1>10. g = [s \in SUBSET D |-> g[s]]
    BY <1>9
  <1>11. Sums(g, f, D)
    <2> HIDE DEF Value
    <2>1. g = [s \in SUBSET D |-> Value(g, s)]
      BY <1>9, <1>10
    <2>2. QED
      BY <2>1 DEF Sums, Value, c
  <1>12. QED
    BY <1>11

\* A sum is the sum without any one of its elements, and that element.
Additive(g, f, D) ==
    \A T \in SUBSET D : g[T] \in Nat /\ \A x \in T : g[T] = f[x] + g[T \ {x}]

\* Sums are numbers, and the order does not matter.
LEMMA SumsAnyOrder ==
    ASSUME NEW D, IsFiniteSet(D), NEW f \in [D -> Nat], NEW g, Sums(g, f, D)
    PROVE  Additive(g, f, D)
  <1> DEFINE N == {T \in SUBSET D : g[T] \in Nat}
             Q == {T \in SUBSET D : \A x \in T : g[T] = f[x] + g[T \ {x}]}
  <1>1. ASSUME NEW T \in SUBSET D, T # {}
        PROVE  \E c \in T : g[T] = f[c] + g[T \ {c}]
    BY <1>1, SumsAre
  <1>2. \A T \in SUBSET D : T \in N
    <2>1. ASSUME NEW T \in SUBSET D, \A x \in T : T \ {x} \in N
          PROVE  T \in N
      <3>1. CASE T = {}
        BY <3>1, SumsAre
      <3>2. CASE T # {}
        <4>1. PICK c \in T : g[T] = f[c] + g[T \ {c}]
          BY <1>1, <3>2
        <4>2. g[T \ {c}] \in Nat /\ f[c] \in Nat
          BY <2>1
        <4>3. QED
          BY <4>1, <4>2
      <3>3. QED
        BY <3>1, <3>2
    <2> HIDE DEF N
    <2>2. QED
      BY <2>1, SmallSets
  <1>3. \A T \in SUBSET D : T \in Q
    <2>1. ASSUME NEW T \in SUBSET D, \A x \in T : T \ {x} \in Q
          PROVE  T \in Q
      <3>1. SUFFICES ASSUME NEW x \in T
                     PROVE  g[T] = f[x] + g[T \ {x}]
        OBVIOUS
      <3>2. PICK c \in T : g[T] = f[c] + g[T \ {c}]
        BY <1>1
      <3>3. CASE x = c
        BY <3>2, <3>3
      <3>4. CASE x # c
        <4> DEFINE R == (T \ {c}) \ {x}
        <4>1. g[T \ {c}] = f[x] + g[R]
          BY <2>1, <3>4
        <4>2. g[T \ {x}] = f[c] + g[(T \ {x}) \ {c}]
          BY <2>1, <3>4
        <4>3. (T \ {x}) \ {c} = R
          OBVIOUS
        <4>4. g[R] \in Nat /\ f[x] \in Nat /\ f[c] \in Nat
          <5>1. R \in SUBSET D
            OBVIOUS
          <5> HIDE DEF R
          <5>2. QED
            BY <1>2, <5>1
        <4> HIDE DEF R
        <4>5. g[T \ {x}] = f[c] + g[R]
          BY <4>2, <4>3
        <4> HIDE DEF N, Q
        <4>6. \A k, a, b \in Nat : k + (a + b) = a + (k + b)
          OBVIOUS
        <4>7. f[c] + (f[x] + g[R]) = f[x] + (f[c] + g[R])
          BY <4>4, <4>6
        <4>8. g[T] = f[c] + (f[x] + g[R])
          BY <3>2, <4>1
        <4>9. QED
          BY <4>5, <4>7, <4>8
      <3>5. QED
        BY <3>3, <3>4
    <2> HIDE DEF Q
    <2>2. QED
      BY <2>1, SmallSets
  <1>4. QED
    BY <1>2, <1>3 DEF Additive

\* The sum over a part, whichever set it is a part of.
LEMMA SumsAgree ==
    ASSUME NEW D, IsFiniteSet(D), NEW f \in [D -> Nat], NEW g, Sums(g, f, D),
           NEW E \in SUBSET D, NEW h, Sums(h, f, E)
    PROVE  h[E] = g[E]
  <1> DEFINE Q == {T \in SUBSET E : h[T] = g[T]}
  <1>1. IsFiniteSet(E)
    BY FS_Subset
  <1>2. ASSUME NEW T \in SUBSET E, \A x \in T : T \ {x} \in Q
        PROVE  T \in Q
    <2>1. CASE T = {}
      <3>1. T \in SUBSET D
        OBVIOUS
      <3>2. QED
        BY <2>1, <3>1, SumsAre
    <2>2. CASE T # {}
      <3>1. PICK c \in T : h[T] = f[c] + h[T \ {c}]
        BY <2>2, SumsAre
      <3>2. T \in SUBSET D /\ h[T \ {c}] = g[T \ {c}]
        BY <1>2
      <3> HIDE DEF Q
      <3>3. Additive(g, f, D)
        BY SumsAnyOrder
      <3>4. g[T] = f[c] + g[T \ {c}]
        BY <3>2, <3>3 DEF Additive
      <3>5. QED
        BY <3>1, <3>2, <3>4 DEF Q
    <2>3. QED
      BY <2>1, <2>2
  <1> HIDE DEF Q
  <1>3. \A T \in SUBSET E : T \in Q
    BY <1>1, <1>2, SmallSets
  <1>4. QED
    BY <1>3 DEF Q

\* Nothing is the sum of no elements, and any one and the others add up to the whole.
Totals(f, D) ==
    /\ SumFunctionOnSet(f, {}) = 0
    /\ \A T \in SUBSET D :
          /\ SumFunctionOnSet(f, T) \in Nat
          /\ \A x \in T : SumFunctionOnSet(f, T) = f[x] + SumFunctionOnSet(f, T \ {x})

\* What the community modules compute is a sum: nothing for no elements, and any one and the others.
LEMMA Total ==
    ASSUME NEW D, IsFiniteSet(D), NEW f \in [D -> Nat]
    PROVE  Totals(f, D)
  <1>1. PICK g : Sums(g, f, D)
    BY SumsExist
  <1>2. ASSUME NEW E \in SUBSET D
        PROVE  SumFunctionOnSet(f, E) = g[E]
    <2> DEFINE iter == CHOOSE h : Sums(h, f, E)
    <2>1. SumFunctionOnSet(f, E) = iter[E]
      BY DEF SumFunctionOnSet, FoldFunctionOnSet, MapThenFoldSet, Sums
    <2>2. \E h : Sums(h, f, E)
      <3> DEFINE r == [x \in E |-> f[x]]
      <3>1. IsFiniteSet(E) /\ r \in [E -> Nat]
        BY FS_Subset
      <3> HIDE DEF r
      <3>2. PICK h : Sums(h, r, E)
        BY <3>1, SumsExist
      <3>3. \A s \in SUBSET E : s # {} => r[CHOOSE x \in s : TRUE] = f[CHOOSE x \in s : TRUE]
        <4>1. SUFFICES ASSUME NEW s \in SUBSET E, s # {}
                       PROVE  r[CHOOSE x \in s : TRUE] = f[CHOOSE x \in s : TRUE]
          OBVIOUS
        <4> DEFINE c == CHOOSE x \in s : TRUE
        <4>2. c \in E
          BY <4>1
        <4> HIDE DEF c
        <4>3. r[c] = f[c]
          BY <4>2 DEF r
        <4>4. QED
          BY <4>3 DEF c
      <3>4. Sums(h, f, E)
        BY <3>2, <3>3 DEF Sums
      <3>5. QED
        BY <3>4
    <2>3. Sums(iter, f, E)
      BY <2>2
    <2> HIDE DEF iter
    <2>4. iter[E] = g[E]
      BY <1>1, <2>3, SumsAgree
    <2>5. QED
      BY <2>1, <2>4
  <1>3. SumFunctionOnSet(f, {}) = 0
    <2>1. {} \in SUBSET D
      OBVIOUS
    <2>2. g[{}] = 0
      BY <1>1, <2>1, SumsAre
    <2>3. QED
      BY <1>2, <2>1, <2>2
  <1>4. ASSUME NEW T \in SUBSET D
        PROVE  /\ SumFunctionOnSet(f, T) \in Nat
               /\ \A x \in T : SumFunctionOnSet(f, T) = f[x] + SumFunctionOnSet(f, T \ {x})
    <2>1. Additive(g, f, D)
      BY <1>1, SumsAnyOrder
    <2>2. \A x \in T : T \ {x} \in SUBSET D
      OBVIOUS
    <2>3. QED
      BY <1>2, <2>1, <2>2 DEF Additive
  <1>5. QED
    BY <1>3, <1>4 DEF Totals

\* Two families of numbers that agree on a set have one sum over it.
LEMMA TotalSame ==
    ASSUME NEW D, IsFiniteSet(D), NEW f \in [D -> Nat],
           NEW E, IsFiniteSet(E), NEW h \in [E -> Nat],
           NEW T \in SUBSET D, T \subseteq E, \A x \in T : f[x] = h[x]
    PROVE  SumFunctionOnSet(f, T) = SumFunctionOnSet(h, T)
  <1> DEFINE Q == {R \in SUBSET T : SumFunctionOnSet(f, R) = SumFunctionOnSet(h, R)}
  <1>1. Totals(f, D) /\ Totals(h, E) /\ IsFiniteSet(T)
    BY Total, FS_Subset
  <1>2. ASSUME NEW R \in SUBSET T, \A x \in R : R \ {x} \in Q
        PROVE  R \in Q
    <2>1. CASE R = {}
      BY <1>1, <2>1 DEF Totals
    <2>2. CASE R # {}
      <3>1. PICK x \in R : TRUE
        BY <2>2
      <3>2. R \in SUBSET D /\ R \in SUBSET E /\ f[x] = h[x]
        OBVIOUS
      <3>3. /\ SumFunctionOnSet(f, R) = f[x] + SumFunctionOnSet(f, R \ {x})
            /\ SumFunctionOnSet(h, R) = h[x] + SumFunctionOnSet(h, R \ {x})
        BY <1>1, <3>2 DEF Totals
      <3>4. SumFunctionOnSet(f, R \ {x}) = SumFunctionOnSet(h, R \ {x})
        BY <1>2
      <3>5. QED
        BY <3>2, <3>3, <3>4
    <2>3. QED
      BY <2>1, <2>2
  <1> HIDE DEF Q
  <1>3. \A R \in SUBSET T : R \in Q
    BY <1>1, <1>2, SmallSets
  <1>4. QED
    BY <1>3 DEF Q

\* The sum over two sets with nothing in common.
LEMMA TotalUnion ==
    ASSUME NEW D, IsFiniteSet(D), NEW f \in [D -> Nat],
           NEW A \in SUBSET D, NEW B \in SUBSET D, A \cap B = {}
    PROVE  SumFunctionOnSet(f, A \cup B) = SumFunctionOnSet(f, A) + SumFunctionOnSet(f, B)
  <1> DEFINE Q == {R \in SUBSET A : SumFunctionOnSet(f, R \cup B)
                                      = SumFunctionOnSet(f, R) + SumFunctionOnSet(f, B)}
  <1>1. Totals(f, D) /\ IsFiniteSet(A)
    BY Total, FS_Subset
  <1>2. ASSUME NEW R \in SUBSET A, \A x \in R : R \ {x} \in Q
        PROVE  R \in Q
    <2>1. CASE R = {}
      <3>1. R \cup B = B /\ SumFunctionOnSet(f, B) \in Nat /\ SumFunctionOnSet(f, R) = 0
        BY <1>1, <2>1 DEF Totals
      <3>2. SumFunctionOnSet(f, R \cup B) = SumFunctionOnSet(f, R) + SumFunctionOnSet(f, B)
        <4>1. \A n \in Nat : 0 + n = n
          OBVIOUS
        <4>2. SumFunctionOnSet(f, R \cup B) = SumFunctionOnSet(f, B)
          BY <3>1
        <4> HIDE DEF Q
        <4>3. QED
          BY <3>1, <4>1, <4>2
      <3>3. QED
        BY <3>2
    <2>2. CASE R # {}
      <3>1. PICK x \in R : TRUE
        BY <2>2
      <3> DEFINE S == R \ {x}
      <3>2. (R \cup B) \ {x} = S \cup B
        OBVIOUS
      <3>3. S \in SUBSET D /\ R \in SUBSET D /\ R \cup B \in SUBSET D /\ S \in Q
        BY <1>2
      <3> HIDE DEF S, Q
      <3>4. /\ SumFunctionOnSet(f, R) = f[x] + SumFunctionOnSet(f, S)
            /\ SumFunctionOnSet(f, R \cup B) = f[x] + SumFunctionOnSet(f, S \cup B)
            /\ SumFunctionOnSet(f, S) \in Nat /\ SumFunctionOnSet(f, B) \in Nat /\ f[x] \in Nat
        <4>1. SumFunctionOnSet(f, R) = f[x] + SumFunctionOnSet(f, S)
          BY <1>1, <3>3 DEF Totals, S
        <4>2. SumFunctionOnSet(f, R \cup B) = f[x] + SumFunctionOnSet(f, (R \cup B) \ {x})
          BY <1>1, <3>3 DEF Totals
        <4>3. SumFunctionOnSet(f, S) \in Nat /\ SumFunctionOnSet(f, B) \in Nat /\ f[x] \in Nat
          BY <1>1, <3>3 DEF Totals
        <4>4. QED
          BY <3>2, <4>1, <4>2, <4>3
      <3>5. SumFunctionOnSet(f, S \cup B) = SumFunctionOnSet(f, S) + SumFunctionOnSet(f, B)
        BY <3>3 DEF Q
      <3>6. \A a, b, c \in Nat : a + (b + c) = (a + b) + c
        OBVIOUS
      <3>7. QED
        BY <3>4, <3>5, <3>6 DEF Q
    <2>3. QED
      BY <2>1, <2>2
  <1> HIDE DEF Q
  <1>3. \A R \in SUBSET A : R \in Q
    BY <1>1, <1>2, SmallSets
  <1>4. QED
    BY <1>3 DEF Q

\* Ones add up to the number of elements.
LEMMA TotalOnes ==
    ASSUME NEW D, IsFiniteSet(D), NEW f \in [D -> Nat], NEW T \in SUBSET D, \A x \in T : f[x] = 1
    PROVE  SumFunctionOnSet(f, T) = Cardinality(T)
  <1> DEFINE Q == {R \in SUBSET T : SumFunctionOnSet(f, R) = Cardinality(R)}
  <1>1. Totals(f, D) /\ IsFiniteSet(T)
    BY Total, FS_Subset
  <1>2. ASSUME NEW R \in SUBSET T, \A x \in R : R \ {x} \in Q
        PROVE  R \in Q
    <2>1. CASE R = {}
      BY <1>1, <2>1, FS_EmptySet DEF Totals
    <2>2. CASE R # {}
      <3>1. PICK x \in R : TRUE
        BY <2>2
      <3>2. IsFiniteSet(R) /\ R \in SUBSET D
        BY <1>1, FS_Subset
      <3>3. IsFiniteSet(R \ {x}) /\ Cardinality(R \ {x}) = Cardinality(R) - 1
        BY <3>2, FS_RemoveElement
      <3>4. SumFunctionOnSet(f, R) = f[x] + SumFunctionOnSet(f, R \ {x})
        BY <1>1, <3>2 DEF Totals
      <3>5. SumFunctionOnSet(f, R \ {x}) = Cardinality(R \ {x})
        BY <1>2
      <3>6. Cardinality(R) \in Nat /\ f[x] = 1
        BY <3>2, FS_CardinalityType
      <3>7. QED
        BY <3>3, <3>4, <3>5, <3>6
    <2>3. QED
      BY <2>1, <2>2
  <1> HIDE DEF Q
  <1>3. \A R \in SUBSET T : R \in Q
    BY <1>1, <1>2, SmallSets
  <1>4. QED
    BY <1>3 DEF Q

\* The numbers h[p] are the sums over sets F[p], no two of which have anything in common.
Gathered(F, T) == UNION {F[p] : p \in T}

Groups(D, f, P, F, h) ==
    /\ IsFiniteSet(D) /\ f \in [D -> Nat] /\ IsFiniteSet(P) /\ h \in [P -> Nat]
    /\ F \in [P -> SUBSET D] /\ \A p, q \in P : p # q => F[p] \cap F[q] = {}
    /\ \A p \in P : h[p] = SumFunctionOnSet(f, F[p])

\* The sum over the union of disjoint sets is the sum of their sums.
LEMMA TotalOfTotals ==
    ASSUME NEW D, NEW f, NEW P, NEW F, NEW h, Groups(D, f, P, F, h), NEW T \in SUBSET P
    PROVE  SumFunctionOnSet(h, T) = SumFunctionOnSet(f, Gathered(F, T))
  <1> DEFINE U(R) == UNION {F[p] : p \in R}
             Q == {R \in SUBSET T : SumFunctionOnSet(h, R) = SumFunctionOnSet(f, U(R))}
  <1>0. /\ IsFiniteSet(D) /\ f \in [D -> Nat] /\ IsFiniteSet(P) /\ h \in [P -> Nat]
        /\ F \in [P -> SUBSET D] /\ \A p, q \in P : p # q => F[p] \cap F[q] = {}
        /\ \A p \in P : h[p] = SumFunctionOnSet(f, F[p])
    BY DEF Groups
  <1>1. Totals(f, D) /\ Totals(h, P) /\ IsFiniteSet(T)
    BY <1>0, Total, FS_Subset
  <1>2. ASSUME NEW R \in SUBSET T, \A x \in R : R \ {x} \in Q
        PROVE  R \in Q
    <2>1. CASE R = {}
      <3>1. U(R) = {}
        BY <2>1
      <3>2. QED
        BY <1>1, <2>1, <3>1 DEF Totals
    <2>2. CASE R # {}
      <3>1. PICK x \in R : TRUE
        BY <2>2
      <3>2. U(R) = F[x] \cup U(R \ {x})
        OBVIOUS
      <3>3. F[x] \cap U(R \ {x}) = {}
        BY <1>0
      <3>4. F[x] \in SUBSET D /\ U(R \ {x}) \in SUBSET D /\ R \in SUBSET P /\ x \in P
        BY <1>0
      <3>5. R \ {x} \in Q
        BY <1>2
      <3>6. SumFunctionOnSet(h, R \ {x}) = SumFunctionOnSet(f, U(R \ {x}))
        BY <3>5
      <3> DEFINE B == U(R \ {x})
      <3>7. U(R) = F[x] \cup B /\ F[x] \cap B = {} /\ B \in SUBSET D
        BY <3>2, <3>3, <3>4
      <3>8. SumFunctionOnSet(h, R) = h[x] + SumFunctionOnSet(f, B)
        <4>1. SumFunctionOnSet(h, R) = h[x] + SumFunctionOnSet(h, R \ {x})
          BY <1>1, <3>4 DEF Totals
        <4>2. QED
          BY <3>6, <4>1
      <3> HIDE DEF B, Q
      <3>9. SumFunctionOnSet(f, F[x] \cup B) = SumFunctionOnSet(f, F[x]) + SumFunctionOnSet(f, B)
        BY <1>0, <3>4, <3>7, TotalUnion
      <3>10. SumFunctionOnSet(h, R) = SumFunctionOnSet(f, U(R))
        <4>1. h[x] = SumFunctionOnSet(f, F[x])
          BY <1>0, <3>4
        <4>2. QED
          BY <4>1, <3>7, <3>8, <3>9
      <3>11. QED
        BY <3>10 DEF Q
    <2>3. QED
      BY <2>1, <2>2
  <1> HIDE DEF Q
  <1>3. \A R \in SUBSET T : R \in Q
    BY <1>1, <1>2, SmallSets
  <1>4. QED
    BY <1>3 DEF Q, Gathered
=============================================================================
