------------------------------ MODULE ListLemmas ------------------------------
(* Lemmas about numbers, sorting and folds that the proofs about several modules
   use.  Sorting by counting gives a list in which each element is once and in its
   place; a fold over a list is a loop, which runs through a table of intermediate
   values, one for each prefix. *)
EXTENDS Lists, Integers, SequencesExt, SequenceTheorems, FiniteSetTheorems,
        WellFoundedInduction, TLAPS

-----------------------------------------------------------------------------
(* Numbers *)

LEMMA LeastNumber ==
    ASSUME NEW T, T \subseteq Nat, T # {}
    PROVE  \E x \in T : \A y \in T : x <= y
<1>1. PICK x \in T : \A y \in T : ~(<<y, x>> \in OpToRel(<, Nat))
  BY WFMin, NatLessThanWellFounded, Zenon
<1>2. \A y \in T : ~(y < x)
  BY <1>1 DEF OpToRel
<1>3. QED BY <1>2

LEMMA GreatestNumber ==
    ASSUME NEW n \in Nat, NEW T, T \subseteq 0 .. n, T # {}
    PROVE  /\ Max(T) \in T
           /\ \A y \in T : y <= Max(T)
<1> DEFINE U == {n - x : x \in T}
<1>0. U \subseteq Nat /\ U # {}
  <2>1. \A x \in T : x \in 0 .. n
    OBVIOUS
  <2>2. \A x \in T : n - x \in Nat
    BY <2>1
  <2>3. QED BY <2>2
<1>1. PICK u \in U : \A y \in U : u <= y
  <2> HIDE DEF U
  <2>1. QED BY <1>0, LeastNumber
<1>2. PICK x \in T : u = n - x
  BY <1>1
<1>3. ASSUME NEW y \in T PROVE x >= y
  <2>1. n - y \in U
    OBVIOUS
  <2>2. u <= n - y
    BY <1>1, <2>1
  <2>3. x \in 0 .. n /\ y \in 0 .. n
    OBVIOUS
  <2>4. QED BY <1>2, <2>2, <2>3
<1>4. \E z \in T : \A y \in T : z >= y
  BY <1>3
<1>5. QED BY <1>4 DEF Max

\* The less and the greater of two numbers.
LEMMA MinOfTwo ==
  ASSUME NEW a \in Int, NEW b \in Int
  PROVE  /\ Min({a, b}) = IF a <= b THEN a ELSE b
         /\ Max({a, b}) = IF a <= b THEN b ELSE a
<1>1. ASSUME NEW x \in {a, b}, \A y \in {a, b} : x <= y
      PROVE  x = IF a <= b THEN a ELSE b
  BY <1>1
<1>2. \E x \in {a, b} : \A y \in {a, b} : x <= y
  OBVIOUS
<1>3. ASSUME NEW x \in {a, b}, \A y \in {a, b} : x >= y
      PROVE  x = IF a <= b THEN b ELSE a
  BY <1>3
<1>4. \E x \in {a, b} : \A y \in {a, b} : x >= y
  OBVIOUS
<1>5. QED BY <1>1, <1>2, <1>3, <1>4 DEF Min, Max

\* The least number of a set is what Min gives.
LEMMA LeastOf ==
    ASSUME NEW P, P \subseteq Int, NEW x \in P, \A y \in P : x <= y
    PROVE  Min(P) = x
<1>1. ASSUME NEW z \in P, \A y \in P : z <= y PROVE z = x
  BY <1>1
<1>2. QED BY <1>1 DEF Min

LEMMA FirstNumbers ==
    ASSUME NEW n \in Nat
    PROVE  IsFiniteSet(1 .. n) /\ Cardinality(1 .. n) = n
BY FS_Interval

\* A set of numbers that has 0 and with each k its successor has them all.
LEMMA CountsUp ==
    ASSUME NEW n \in Nat, NEW P, 0 \in P,
           \A k \in 0 .. n - 1 : k \in P => k + 1 \in P
    PROVE  0 .. n \subseteq P
<1> SUFFICES ASSUME NEW m \in 0 .. n, m \notin P PROVE FALSE
  OBVIOUS
<1> DEFINE T == {k \in 0 .. n : k \notin P}
<1>0. T \subseteq Nat /\ T # {}
  OBVIOUS
<1>1. PICK k \in T : \A y \in T : k <= y
  <2> HIDE DEF T
  <2>1. QED BY <1>0, LeastNumber
<1>2. k # 0 /\ k - 1 \in 0 .. n - 1
  BY <1>1
<1>3. k - 1 \in P
  BY <1>1, <1>2
<1>4. QED BY <1>1, <1>2, <1>3

-----------------------------------------------------------------------------
(* Folds *)

\* What a fold stands on: the table of its values for all sets of indices.
FoldTable(table, n, start, step) ==
    table = [s \in SUBSET (1 .. n) |->
               IF s = {} THEN start ELSE step[<<table[s \ {Max(s)}], Max(s)>>]]

\* There is one, built for one index more at a time.
LEMMA FoldTableExists ==
    ASSUME NEW A, NEW start \in A, NEW N \in Nat, NEW step \in [A \X (1 .. N) -> A]
    PROVE  \E table \in [SUBSET (1 .. N) -> A] : FoldTable(table, N, start, step)
<1> DEFINE P == {n \in 0 .. N :
                   \E table \in [SUBSET (1 .. n) -> A] : FoldTable(table, n, start, step)}
<1>1. 0 \in P
  <2> DEFINE g == [s \in SUBSET (1 .. 0) |-> start]
  <2>1. 1 .. 0 = {} OBVIOUS
  <2>2. g \in [SUBSET (1 .. 0) -> A] OBVIOUS
  <2>3. FoldTable(g, 0, start, step)
    BY <2>1 DEF FoldTable
  <2>4. QED BY <2>2, <2>3
<1>2. ASSUME NEW n \in 0 .. N - 1, n \in P PROVE n + 1 \in P
  <2>0. n \in Nat /\ n + 1 \in Nat
    OBVIOUS
  <2>1. PICK g \in [SUBSET (1 .. n) -> A] : FoldTable(g, n, start, step)
    BY <1>2
  <2> DEFINE h == [s \in SUBSET (1 .. n + 1) |->
                     IF n + 1 \in s THEN step[<<g[s \ {n + 1}], n + 1>>] ELSE g[s]]
  <2>2. ASSUME NEW s \in SUBSET (1 .. n + 1)
        PROVE  /\ h[s] \in A
               /\ h[s] = IF s = {} THEN start ELSE step[<<h[s \ {Max(s)}], Max(s)>>]
    <3>1. CASE n + 1 \in s
      <4>1. Max(s) = n + 1
        <5>1. s \subseteq 0 .. n + 1 /\ s # {} BY <3>1
        <5>2. Max(s) \in s /\ \A y \in s : y <= Max(s)
          BY <2>0, <5>1, GreatestNumber
        <5>3. Max(s) \in 1 .. n + 1 /\ n + 1 <= Max(s)
          BY <3>1, <5>2
        <5>4. QED BY <2>0, <5>3
      <4>2. s \ {n + 1} \in SUBSET (1 .. n)
        OBVIOUS
      <4>3. h[s \ {n + 1}] = g[s \ {n + 1}]
        BY <4>2
      <4>4. g[s \ {n + 1}] \in A
        BY <4>2
      <4>5. <<g[s \ {n + 1}], n + 1>> \in A \X (1 .. N)
        BY <4>4
      <4>6. h[s] = step[<<g[s \ {n + 1}], n + 1>>]
        BY <3>1
      <4>7. QED BY <3>1, <4>1, <4>3, <4>5, <4>6
    <3>2. CASE n + 1 \notin s
      <4>1. s \in SUBSET (1 .. n)
        BY <3>2
      <4>2. h[s] = g[s] BY <3>2
      <4>3. g[s] \in A BY <4>1
      <4>4. CASE s = {}
        BY <2>1, <4>1, <4>2, <4>3, <4>4 DEF FoldTable
      <4>5. CASE s # {}
        <5>1. Max(s) \in s
          <6>1. s \subseteq 0 .. n BY <4>1
          <6>2. QED BY <2>0, <6>1, <4>5, GreatestNumber
        <5>2. s \ {Max(s)} \in SUBSET (1 .. n) /\ n + 1 \notin s \ {Max(s)}
          BY <4>1, <3>2
        <5>3. h[s \ {Max(s)}] = g[s \ {Max(s)}]
          BY <5>2
        <5>4. g[s] = step[<<g[s \ {Max(s)}], Max(s)>>]
          BY <2>1, <4>1, <4>5 DEF FoldTable
        <5>5. QED BY <4>2, <4>3, <4>5, <5>3, <5>4
      <4>6. QED BY <4>4, <4>5
    <3>3. QED BY <3>1, <3>2
  <2>3. h \in [SUBSET (1 .. n + 1) -> A]
    BY <2>2
  <2>4. FoldTable(h, n + 1, start, step)
    <3> HIDE DEF h
    <3>1. DOMAIN h = SUBSET (1 .. n + 1) /\ h = [s \in SUBSET (1 .. n + 1) |-> h[s]]
      BY <2>3
    <3>2. QED BY <2>2, <3>1 DEF FoldTable
  <2>5. \E table \in [SUBSET (1 .. n + 1) -> A] : FoldTable(table, n + 1, start, step)
    <3> HIDE DEF h
    <3>1. QED BY <2>3, <2>4
  <2>6. n + 1 \in 0 .. N
    OBVIOUS
  <2>7. QED BY <2>5, <2>6
<1>3. 0 .. N \subseteq P
  <2> HIDE DEF P
  <2>1. QED BY <1>1, <1>2, CountsUp
<1>4. N \in P
  <2> HIDE DEF P
  <2>1. QED BY <1>3
<1>5. QED BY <1>4

IsLoop(f, A, N, start, step) ==
    /\ f \in [0 .. N -> A]
    /\ f[0] = start
    /\ \A k \in 1 .. N : f[k] = step[<<f[k - 1], k>>]

\* Of such a table only the values of the first so many indices count; they are
\* those of a loop.  The table need not be known to have them in A.
RunsThrough(table, A, N, start, step) ==
    /\ start \in A /\ N \in Nat /\ step \in [A \X (1 .. N) -> A]
    /\ table[{}] = start
    /\ \A s \in SUBSET (1 .. N) :
          s # {} /\ table[s \ {Max(s)}] \in A
            => table[s] = step[<<table[s \ {Max(s)}], Max(s)>>]

LEMMA LoopOfTable ==
    ASSUME NEW A, NEW start, NEW N, NEW step, NEW table,
           RunsThrough(table, A, N, start, step)
    PROVE  \E f : IsLoop(f, A, N, start, step) /\ f[N] = table[1 .. N]
<1> DEFINE f == [k \in 0 .. N |-> table[1 .. k]]
<1>a. start \in A /\ N \in Nat /\ step \in [A \X (1 .. N) -> A]
  BY DEF RunsThrough
<1>0. /\ table[{}] = start
      /\ \A s \in SUBSET (1 .. N) :
            s # {} /\ table[s \ {Max(s)}] \in A
              => table[s] = step[<<table[s \ {Max(s)}], Max(s)>>]
  BY DEF RunsThrough
<1> USE <1>a
<1>1. 0 \in 0 .. N /\ f[0] = start
  <2>1. 1 .. 0 = {}
    OBVIOUS
  <2>2. QED BY <1>0, <2>1
<1>2. ASSUME NEW k \in 1 .. N, f[k - 1] \in A
      PROVE  f[k] = step[<<f[k - 1], k>>]
  <2>1. 1 .. k \in SUBSET (1 .. N) /\ 1 .. k # {} /\ 1 .. k \subseteq 0 .. k /\ k \in Nat
    OBVIOUS
  <2>2. Max(1 .. k) \in 1 .. k /\ \A y \in 1 .. k : y <= Max(1 .. k)
    BY <2>1, GreatestNumber
  <2>3. Max(1 .. k) = k
    BY <2>1, <2>2
  <2>4. (1 .. k) \ {k} = 1 .. k - 1 /\ k - 1 \in 0 .. N /\ k \in 0 .. N
    OBVIOUS
  <2>5. table[1 .. k - 1] \in A
    BY <1>2, <2>4
  <2>6. table[1 .. k] = step[<<table[1 .. k - 1], k>>]
    BY <1>0, <2>1, <2>3, <2>4, <2>5
  <2>7. QED BY <2>4, <2>6
<1>3. 0 .. N \subseteq {k \in 0 .. N : f[k] \in A}
  <2> DEFINE P == {k \in 0 .. N : f[k] \in A}
  <2>1. 0 \in P
    BY <1>1
  <2>2. ASSUME NEW k \in 0 .. N - 1, k \in P PROVE k + 1 \in P
    <3>1. k + 1 \in 1 .. N /\ (k + 1) - 1 = k /\ k + 1 \in 0 .. N
      OBVIOUS
    <3> HIDE DEF f
    <3>2. f[k + 1] = step[<<f[k], k + 1>>]
      BY <1>2, <2>2, <3>1
    <3>3. <<f[k], k + 1>> \in A \X (1 .. N)
      BY <2>2, <3>1
    <3>4. QED BY <3>1, <3>2, <3>3
  <2>3. 0 .. N \subseteq P
    <3> HIDE DEF P
    <3>1. QED BY <2>1, <2>2, CountsUp
  <2>4. QED BY <2>3
<1>4. f \in [0 .. N -> A]
  BY <1>3
<1>5. \A k \in 1 .. N : f[k] = step[<<f[k - 1], k>>]
  <2> SUFFICES ASSUME NEW k \in 1 .. N PROVE f[k] = step[<<f[k - 1], k>>]
    OBVIOUS
  <2>1. k - 1 \in 0 .. N
    OBVIOUS
  <2> HIDE DEF f
  <2>2. QED BY <1>2, <1>4, <2>1
<1>6. f[N] = table[1 .. N]
  OBVIOUS
<1>7. QED
  <2> HIDE DEF f
  <2>1. QED BY <1>1, <1>4, <1>5, <1>6 DEF IsLoop

-----------------------------------------------------------------------------
(* Sorting *)

LEMMA ListedIsSame ==
    ASSUME NEW S, NEW n \in Nat, NEW f \in [1 .. n -> S]
    PROVE  Listed(f) = f /\ f \in Seq(S) /\ Len(f) = n /\ DOMAIN f = 1 .. n
<1>1. f \in Seq(S) /\ Len(f) = n
  OBVIOUS
<1>2. Listed(f) = f
  BY <1>1, ConcatEmptySeq DEF Listed
<1>3. QED BY <1>1, <1>2

LEMMA NotEmpty == (\A x : <<x>> # <<>>) /\ (\A x, y : <<x, y>> # <<>>)
<1>1. \A x : <<x>> # <<>>
  <2> SUFFICES ASSUME NEW x, <<x>> = <<>> PROVE FALSE
    OBVIOUS
  <2>1. DOMAIN <<x>> = 1 .. 1 /\ Len(<<x>>) = 1
    OBVIOUS
  <2>2. Len(<<>>) = 0
    BY EmptySeq
  <2>3. QED BY <2>1, <2>2
<1>2. \A x, y : <<x, y>> # <<>>
  <2> SUFFICES ASSUME NEW x, NEW y, <<x, y>> = <<>> PROVE FALSE
    OBVIOUS
  <2>1. Len(<<x, y>>) = 2
    OBVIOUS
  <2>2. Len(<<>>) = 0
    BY EmptySeq
  <2>3. QED BY <2>1, <2>2
<1>3. QED BY <1>1, <1>2

LEMMA ListedAgain ==
    ASSUME NEW n \in Nat, NEW f, f = [k \in 1 .. n |-> f[k]]
    PROVE  /\ Listed(f) = f /\ f \in Seq({f[k] : k \in 1 .. n})
           /\ Len(f) = n /\ DOMAIN f = 1 .. n
<1> DEFINE S == {f[k] : k \in 1 .. n}
<1>1. f \in [1 .. n -> S]
  OBVIOUS
<1> HIDE DEF S
<1>2. Listed(f) = f /\ f \in Seq(S) /\ Len(f) = n /\ DOMAIN f = 1 .. n
  BY <1>1, ListedIsSame
<1>3. QED BY <1>2 DEF S

StrictOrder(R, S) ==
    /\ \A x \in S : <<x, x>> \notin R
    /\ \A x, y, z \in S : <<x, y>> \in R /\ <<y, z>> \in R => <<x, z>> \in R
    /\ \A x, y \in S : x = y \/ <<x, y>> \in R \/ <<y, x>> \in R

Below(S, R, x) == {y \in S : <<y, x>> \in R}

\* list has the elements of S, each once, in the order of R.
InOrder(list, S, R) ==
    /\ list \in [1 .. Cardinality(S) -> S] /\ list \in Seq(S)
    /\ Cardinality(S) \in Nat /\ Len(list) = Cardinality(S)
    /\ \A x \in S : \E k \in 1 .. Cardinality(S) : list[k] = x
    /\ \A i, j \in 1 .. Cardinality(S) : i < j <=> <<list[i], list[j]>> \in R

\* Whoever comes later has more below.
LEMMA BelowGrows ==
    ASSUME NEW S, IsFiniteSet(S), NEW R, StrictOrder(R, S), NEW x \in S, NEW y \in S,
           <<x, y>> \in R
    PROVE  Cardinality(Below(S, R, x)) < Cardinality(Below(S, R, y))
<1>1. Below(S, R, x) \subseteq S /\ Below(S, R, y) \subseteq S
  BY DEF Below
<1>2. IsFiniteSet(Below(S, R, x)) /\ IsFiniteSet(Below(S, R, y))
  BY <1>1, FS_Subset
<1>3. x \notin Below(S, R, x)
  BY DEF Below, StrictOrder
<1>4. Below(S, R, x) \cup {x} \subseteq Below(S, R, y)
  BY DEF Below, StrictOrder
<1>5. Cardinality(Below(S, R, x) \cup {x}) = Cardinality(Below(S, R, x)) + 1
  BY <1>2, <1>3, FS_AddElement
<1>6. Cardinality(Below(S, R, x) \cup {x}) <= Cardinality(Below(S, R, y))
  BY <1>2, <1>4, FS_Subset
<1>7. Cardinality(Below(S, R, x)) \in Nat /\ Cardinality(Below(S, R, y)) \in Nat
  BY <1>2, FS_CardinalityType
<1>8. QED BY <1>5, <1>6, <1>7

\* Each place of list has an element with as many below it as places before it.
Ranked(list, S, R) ==
    /\ (\A k \in 1 .. Cardinality(S) : list[k] \in S)
         => list \in [1 .. Cardinality(S) -> S]
    /\ \A k \in 1 .. Cardinality(S), x \in S :
          Cardinality(Below(S, R, x)) = k - 1
            => list[k] \in S /\ Cardinality(Below(S, R, list[k])) = k - 1

\* Sorting by counting.
LEMMA SortedInOrder ==
    ASSUME NEW S, IsFiniteSet(S), NEW R, StrictOrder(R, S), NEW list, Ranked(list, S, R)
    PROVE  InOrder(list, S, R)
<1> DEFINE n == Cardinality(S)
           rank == [x \in S |-> Cardinality(Below(S, R, x)) + 1]
<1>1. n \in Nat
  BY FS_CardinalityType
<1>2. ASSUME NEW x \in S
      PROVE  Cardinality(Below(S, R, x)) \in 0 .. n - 1
  <2>1. Below(S, R, x) \subseteq S \ {x}
    BY DEF Below, StrictOrder
  <2>2. IsFiniteSet(S \ {x}) /\ Cardinality(S \ {x}) = n - 1
    BY FS_RemoveElement
  <2>3. IsFiniteSet(Below(S, R, x)) /\ Cardinality(Below(S, R, x)) <= n - 1
    BY <2>1, <2>2, FS_Subset
  <2>4. Cardinality(Below(S, R, x)) \in Nat
    BY <2>3, FS_CardinalityType
  <2>5. QED BY <1>1, <2>3, <2>4
<1>3. rank \in [S -> 1 .. n]
  <2>1. ASSUME NEW x \in S PROVE rank[x] \in 1 .. n
    BY <1>1, <1>2
  <2>2. QED BY <2>1
<1>4. \A x, y \in S : <<x, y>> \in R => rank[x] < rank[y]
  <2> SUFFICES ASSUME NEW x \in S, NEW y \in S, <<x, y>> \in R PROVE rank[x] < rank[y]
    OBVIOUS
  <2>1. Cardinality(Below(S, R, x)) < Cardinality(Below(S, R, y))
    BY BelowGrows
  <2>2. Cardinality(Below(S, R, x)) \in Int /\ Cardinality(Below(S, R, y)) \in Int
    BY <1>2
  <2>3. QED BY <2>1, <2>2
<1>5. \A x, y \in S : rank[x] < rank[y] => <<x, y>> \in R
  <2> SUFFICES ASSUME NEW x \in S, NEW y \in S, rank[x] < rank[y] PROVE <<x, y>> \in R
    OBVIOUS
  <2>1. rank[x] \in Int /\ rank[y] \in Int
    BY <1>3
  <2> HIDE DEF rank
  <2>2. x # y /\ ~(rank[y] < rank[x])
    BY <2>1
  <2>3. QED BY <1>4, <2>2 DEF StrictOrder
<1>6. \A x, y \in S : rank[x] = rank[y] => x = y
  <2> SUFFICES ASSUME NEW x \in S, NEW y \in S, rank[x] = rank[y] PROVE x = y
    OBVIOUS
  <2>1. rank[x] \in Int /\ rank[y] \in Int
    BY <1>3
  <2> HIDE DEF rank
  <2>2. ~(rank[x] < rank[y]) /\ ~(rank[y] < rank[x])
    BY <2>1
  <2>3. QED BY <1>4, <2>2 DEF StrictOrder
<1>7. rank \in Injection(S, 1 .. n)
  <2> HIDE DEF rank
  <2>1. QED BY <1>3, <1>6 DEF Injection, IsInjective
<1>8. IsFiniteSet(1 .. n) /\ Cardinality(1 .. n) = n
  BY <1>1, FS_Interval
<1>9. rank \in Surjection(S, 1 .. n)
  <2> HIDE DEF rank
  <2>1. QED BY <1>7, <1>8, FS_Injection
<1>10. \A k \in 1 .. n : \E x \in S : rank[x] = k
  <2> HIDE DEF rank
  <2>1. QED BY <1>9 DEF Surjection
<1>11. ASSUME NEW k \in 1 .. n PROVE list[k] \in S /\ rank[list[k]] = k
  <2>1. PICK x \in S : rank[x] = k
    BY <1>10
  <2>2. Cardinality(Below(S, R, x)) = k - 1
    BY <1>1, <1>2, <2>1
  <2>3. list[k] \in S /\ Cardinality(Below(S, R, list[k])) = k - 1
    BY <2>1, <2>2 DEF Ranked
  <2>4. QED BY <1>1, <2>3
<1>12. ASSUME NEW x \in S PROVE list[rank[x]] = x
  <2>1. rank[x] \in 1 .. n
    BY <1>3
  <2> HIDE DEF rank
  <2>2. list[rank[x]] \in S /\ rank[list[rank[x]]] = rank[x]
    BY <1>11, <2>1
  <2>3. QED BY <1>6, <2>2
<1>13. list \in [1 .. n -> S]
  BY <1>11 DEF Ranked
<1>14. list \in Seq(S) /\ Len(list) = n
  <2> HIDE DEF n
  <2>1. QED BY <1>1, <1>13, ListedIsSame
<1>15. \A x \in S : \E k \in 1 .. n : list[k] = x
  <2> SUFFICES ASSUME NEW x \in S PROVE \E k \in 1 .. n : list[k] = x
    OBVIOUS
  <2> HIDE DEF rank
  <2>1. QED BY <1>3, <1>12
<1>16. \A i, j \in 1 .. n : i < j <=> <<list[i], list[j]>> \in R
  <2> SUFFICES ASSUME NEW i \in 1 .. n, NEW j \in 1 .. n
               PROVE  i < j <=> <<list[i], list[j]>> \in R
    OBVIOUS
  <2> HIDE DEF rank
  <2>1. QED BY <1>4, <1>5, <1>11
<1>17. QED BY <1>1, <1>13, <1>14, <1>15, <1>16 DEF InOrder

\* Such a list has each element in one place, and there is only one.
LEMMA InOrderOnce ==
    ASSUME NEW S, NEW R, StrictOrder(R, S), NEW list, InOrder(list, S, R)
    PROVE  \A i, j \in 1 .. Cardinality(S) : list[i] = list[j] => i = j
<1> SUFFICES ASSUME NEW i \in 1 .. Cardinality(S), NEW j \in 1 .. Cardinality(S),
                    list[i] = list[j]
             PROVE  i = j
  OBVIOUS
<1>1. list[i] \in S /\ <<list[i], list[i]>> \notin R
  BY DEF InOrder, StrictOrder
<1>2. ~(i < j) /\ ~(j < i)
  BY <1>1 DEF InOrder
<1>3. Cardinality(S) \in Nat
  BY DEF InOrder
<1>4. QED BY <1>2, <1>3

LEMMA InOrderUnique ==
    ASSUME NEW S, NEW R, StrictOrder(R, S), NEW a, NEW b,
           InOrder(a, S, R), InOrder(b, S, R)
    PROVE  a = b
<1> DEFINE n == Cardinality(S)
           T == {k \in 1 .. n : a[k] # b[k]}
<1>0. n \in Nat /\ a \in [1 .. n -> S] /\ b \in [1 .. n -> S]
  BY DEF InOrder
<1>1. SUFFICES T = {}
  BY <1>0
<1>2. SUFFICES ASSUME T # {} PROVE FALSE
  OBVIOUS
<1>3. T \subseteq Nat /\ T # {}
  BY <1>2
<1>4. PICK k \in T : \A y \in T : k <= y
  <2> HIDE DEF T
  <2>1. QED BY <1>3, LeastNumber
<1>5. k \in 1 .. n /\ a[k] # b[k] /\ a[k] \in S /\ b[k] \in S
  BY <1>0, <1>4
<1>6. PICK i \in 1 .. n : a[i] = b[k]
  BY <1>5 DEF InOrder
<1>7. PICK j \in 1 .. n : b[j] = a[k]
  BY <1>5 DEF InOrder
<1> HIDE DEF n
<1>8. \A m \in 1 .. n : m < k => a[m] = b[m]
  BY <1>0, <1>4, <1>5
<1>9. ~(i < k)
  <2> SUFFICES ASSUME i < k PROVE FALSE
    OBVIOUS
  <2>1. b[i] = b[k]
    BY <1>6, <1>8
  <2>2. i = k
    BY <1>5, <2>1, InOrderOnce DEF n
  <2>3. QED BY <1>0, <1>5, <2>2
<1>10. ~(j < k)
  <2> SUFFICES ASSUME j < k PROVE FALSE
    OBVIOUS
  <2>1. a[j] = a[k]
    BY <1>7, <1>8
  <2>2. j = k
    BY <1>5, <2>1, InOrderOnce DEF n
  <2>3. QED BY <1>0, <1>5, <2>2
<1>11. i # k /\ j # k
  BY <1>5, <1>6, <1>7
<1>12. k < i /\ k < j
  BY <1>0, <1>5, <1>9, <1>10, <1>11
<1>13. <<a[k], a[i]>> \in R
  BY <1>5, <1>12 DEF InOrder, n
<1>14. <<b[k], b[j]>> \in R
  BY <1>5, <1>12 DEF InOrder, n
<1>15. <<a[k], b[k]>> \in R /\ <<b[k], a[k]>> \in R
  BY <1>6, <1>7, <1>13, <1>14
<1>16. QED BY <1>5, <1>15 DEF StrictOrder

Ascending(P) == {pair \in P \X P : pair[1] < pair[2]}

LEMMA AscendingIsStrict == ASSUME NEW P, P \subseteq Int PROVE StrictOrder(Ascending(P), P)
<1>1. \A x, y \in P : <<x, y>> \in Ascending(P) <=> x < y
  BY DEF Ascending
<1>2. \A x, y, z \in P : x \in Int /\ y \in Int /\ z \in Int
  OBVIOUS
<1>3. QED BY <1>1, <1>2 DEF StrictOrder

LEMMA UpwardsInOrder ==
    ASSUME NEW P, P \subseteq Int, IsFiniteSet(P)
    PROVE  /\ InOrder(Upwards(P), P, Ascending(P))
           /\ \A i, j \in 1 .. Cardinality(P) : i < j <=> Upwards(P)[i] < Upwards(P)[j]
<1> DEFINE list == [k \in 1 .. Cardinality(P) |->
                      CHOOSE x \in P : Cardinality({y \in P : y < x}) = k - 1]
<1>1. \A x \in P : {y \in P : y < x} = Below(P, Ascending(P), x)
  BY DEF Below, Ascending
<1>2. Ranked(list, P, Ascending(P))
  <2>1. (\A k \in 1 .. Cardinality(P) : list[k] \in P) => list \in [1 .. Cardinality(P) -> P]
    OBVIOUS
  <2>2. ASSUME NEW k \in 1 .. Cardinality(P), NEW x \in P,
               Cardinality(Below(P, Ascending(P), x)) = k - 1
        PROVE  list[k] \in P /\ Cardinality(Below(P, Ascending(P), list[k])) = k - 1
    <3>1. Cardinality({y \in P : y < x}) = k - 1
      BY <1>1, <2>2
    <3>2. \E z \in P : Cardinality({y \in P : y < z}) = k - 1
      BY <3>1
    <3>3. list[k] = CHOOSE z \in P : Cardinality({y \in P : y < z}) = k - 1
      OBVIOUS
    <3>4. list[k] \in P /\ Cardinality({y \in P : y < list[k]}) = k - 1
      <4> HIDE DEF list
      <4>1. QED BY <3>2, <3>3, Zenon
    <3>5. QED BY <1>1, <3>4
  <2>3. QED
    <3> HIDE DEF list
    <3>1. QED BY <2>1, <2>2 DEF Ranked
<1>3. InOrder(list, P, Ascending(P))
  <2> HIDE DEF list
  <2>1. QED BY <1>2, AscendingIsStrict, SortedInOrder
<1>4. list = Upwards(P)
  <2>1. Listed(list) = Upwards(P)
    BY DEF Upwards, Sorted
  <2>2. Listed(list) = list
    <3> HIDE DEF list
    <3>1. QED BY <1>3, ConcatEmptySeq DEF InOrder, Listed
  <2>3. QED BY <2>1, <2>2
<1> HIDE DEF list
<1>5. ASSUME NEW i \in 1 .. Cardinality(P), NEW j \in 1 .. Cardinality(P)
      PROVE  i < j <=> list[i] < list[j]
  <2>1. list[i] \in P /\ list[j] \in P
    BY <1>3 DEF InOrder
  <2>2. <<list[i], list[j]>> \in Ascending(P) <=> list[i] < list[j]
    BY <2>1 DEF Ascending
  <2>3. QED BY <1>3, <2>2 DEF InOrder
<1>6. QED BY <1>3, <1>4, <1>5

\* What Picked gives: the elements at the positions, in their order.
PicksFrom(picked, list, P) ==
    /\ DOMAIN picked = 1 .. Cardinality(P) /\ Len(picked) = Cardinality(P)
    /\ \A k \in 1 .. Cardinality(P) : picked[k] = list[Upwards(P)[k]]

LEMMA PickedElements ==
    ASSUME NEW S, NEW list \in Seq(S), NEW P, P \subseteq DOMAIN list
    PROVE  /\ IsFiniteSet(P) /\ P \subseteq Int /\ Cardinality(P) \in Nat
           /\ Picked(list, P) \in Seq(S) /\ PicksFrom(Picked(list, P), list, P)
           /\ InOrder(Upwards(P), P, Ascending(P))
<1>1. DOMAIN list = 1 .. Len(list) /\ Len(list) \in Nat
  OBVIOUS
<1>2. IsFiniteSet(1 .. Len(list)) /\ P \subseteq 1 .. Len(list)
  BY <1>1, FS_Interval
<1>3. IsFiniteSet(P) /\ P \subseteq Int
  BY <1>2, FS_Subset
<1>4. InOrder(Upwards(P), P, Ascending(P))
  BY <1>3, UpwardsInOrder
<1> DEFINE n == Cardinality(P)
           f == [k \in DOMAIN Upwards(P) |-> list[Upwards(P)[k]]]
<1>5. n \in Nat /\ Upwards(P) \in [1 .. n -> P] /\ DOMAIN Upwards(P) = 1 .. n
  BY <1>4 DEF InOrder
<1> HIDE DEF n
<1>6. ASSUME NEW k \in 1 .. n PROVE list[Upwards(P)[k]] \in S
  <2>1. Upwards(P)[k] \in 1 .. Len(list)
    BY <1>2, <1>5
  <2>2. QED BY <2>1
<1>7. f = [k \in 1 .. n |-> list[Upwards(P)[k]]] /\ f \in [1 .. n -> S]
  BY <1>5, <1>6
<1>8. Listed(f) = f /\ f \in Seq(S) /\ Len(f) = n /\ DOMAIN f = 1 .. n
  <2> HIDE DEF f
  <2>1. QED BY <1>5, <1>7, ListedIsSame
<1>9. Picked(list, P) = f
  BY <1>8 DEF Picked
<1>10. QED
  BY <1>3, <1>4, <1>5, <1>7, <1>8, <1>9 DEF PicksFrom, n

\* Every element that is picked has its place.
LEMMA PickedPlaces ==
    ASSUME NEW S, NEW list \in Seq(S), NEW P, P \subseteq DOMAIN list
    PROVE  /\ \A k \in DOMAIN Picked(list, P) :
                 \E p \in P : Picked(list, P)[k] = list[p] /\ p = Upwards(P)[k]
           /\ \A p \in P :
                 \E k \in DOMAIN Picked(list, P) :
                    Picked(list, P)[k] = list[p] /\ p = Upwards(P)[k]
           /\ \A j, k \in DOMAIN Picked(list, P) : j < k <=> Upwards(P)[j] < Upwards(P)[k]
<1>1. PicksFrom(Picked(list, P), list, P) /\ InOrder(Upwards(P), P, Ascending(P))
  BY PickedElements
<1>2. \A j, k \in 1 .. Cardinality(P) : j < k <=> Upwards(P)[j] < Upwards(P)[k]
  BY PickedElements, UpwardsInOrder
<1>3. QED BY <1>1, <1>2 DEF PicksFrom, InOrder

\* What Made gives: the elements of the lists that have one, in their order.
Filled(lists) == {k \in DOMAIN lists : lists[k] # <<>>}

LEMMA MadePlaces ==
    ASSUME NEW S, NEW lists \in Seq(S)
    PROVE  /\ Made(lists) \in Seq({lists[k][1] : k \in Filled(lists)})
           /\ \A j \in DOMAIN Made(lists) :
                 /\ Upwards(Filled(lists))[j] \in Filled(lists)
                 /\ Made(lists)[j] = lists[Upwards(Filled(lists))[j]][1]
           /\ \A k \in Filled(lists) :
                 \E j \in DOMAIN Made(lists) : Upwards(Filled(lists))[j] = k
           /\ \A i, j \in DOMAIN Made(lists) :
                 Upwards(Filled(lists))[i] = Upwards(Filled(lists))[j] => i = j
<1> DEFINE P == Filled(lists)
           n == Cardinality(P)
           picked == Picked(lists, P)
           made == [k \in 1 .. n |-> picked[k][1]]
<1>1. P \subseteq DOMAIN lists
  BY DEF Filled
<1>2. /\ P \subseteq Int /\ n \in Nat /\ PicksFrom(picked, lists, P)
      /\ InOrder(Upwards(P), P, Ascending(P))
  BY <1>1, PickedElements
<1>3. /\ Upwards(P) \in [1 .. n -> P]
      /\ \A k \in P : \E j \in 1 .. n : Upwards(P)[j] = k
      /\ \A i, j \in 1 .. n : Upwards(P)[i] = Upwards(P)[j] => i = j
  BY <1>2, AscendingIsStrict, InOrderOnce DEF InOrder
<1>4. DOMAIN picked = 1 .. n /\ \A k \in 1 .. n : picked[k] = lists[Upwards(P)[k]]
  BY <1>2 DEF PicksFrom
<1>5. Made(lists) = Listed([k \in DOMAIN picked |-> picked[k][1]])
  BY DEF Made, Filled
<1> HIDE DEF P, n, picked
<1>6. \A k \in 1 .. n : made[k] = lists[Upwards(P)[k]][1] /\ Upwards(P)[k] \in P
  BY <1>3, <1>4
<1>7. made \in [1 .. n -> {lists[k][1] : k \in P}]
  BY <1>6
<1>8. Listed(made) = made /\ made \in Seq({lists[k][1] : k \in P}) /\ DOMAIN made = 1 .. n
  <2> HIDE DEF made
  <2>1. \A Q : made \in [1 .. n -> Q]
                 => Listed(made) = made /\ made \in Seq(Q) /\ DOMAIN made = 1 .. n
    BY <1>2, ListedIsSame
  <2>2. QED BY <1>7, <2>1
<1>9. Made(lists) = made
  BY <1>4, <1>5, <1>8
<1> HIDE DEF made
<1>10. QED BY <1>3, <1>6, <1>8, <1>9 DEF P

\* One number more than all the others comes last.
LEMMA UpwardsAppend ==
    ASSUME NEW n \in Nat, NEW P, P \subseteq 1 .. n
    PROVE  /\ Upwards(P \cup {n + 1}) = Append(Upwards(P), n + 1)
           /\ Cardinality(P \cup {n + 1}) = Cardinality(P) + 1
<1> DEFINE Q == P \cup {n + 1}
           c == Cardinality(P)
           a == Upwards(P)
           b == Append(a, n + 1)
<1>1. IsFiniteSet(P) /\ P \subseteq Int /\ n + 1 \notin P
  <2>1. IsFiniteSet(1 .. n)
    BY FS_Interval
  <2>2. IsFiniteSet(P)
    BY <2>1, FS_Subset
  <2>3. P \subseteq Int /\ n + 1 \notin P
    OBVIOUS
  <2>4. QED BY <2>2, <2>3
<1>2. IsFiniteSet(Q) /\ Q \subseteq Int /\ Cardinality(Q) = c + 1
  BY <1>1, FS_AddElement
<1>3. InOrder(a, P, Ascending(P)) /\ \A i, j \in 1 .. c : i < j <=> a[i] < a[j]
  BY <1>1, UpwardsInOrder
<1>4. InOrder(Upwards(Q), Q, Ascending(Q))
  BY <1>2, UpwardsInOrder
<1>5. c \in Nat /\ a \in Seq(P) /\ Len(a) = c
  BY <1>3 DEF InOrder
<1>6. a \in Seq(Q) /\ n + 1 \in Q
  BY <1>5, SeqMonotonic
<1> HIDE DEF Q
<1>7. b \in Seq(Q) /\ Len(b) = c + 1 /\ b[c + 1] = n + 1 /\ \A k \in 1 .. c : b[k] = a[k]
  BY <1>5, <1>6, AppendProperties
<1> HIDE DEF b
<1>8. b \in [1 .. c + 1 -> Q]
  BY <1>5, <1>7
<1>9. \A k \in 1 .. c : a[k] \in P /\ a[k] < n + 1 /\ a[k] \in Int
  <2>1. \A k \in 1 .. c : a[k] \in P
    BY <1>3 DEF InOrder
  <2>2. \A x \in P : x < n + 1 /\ x \in Int
    OBVIOUS
  <2>3. QED BY <2>1, <2>2, Zenon
<1>10. \A x \in Q : \E k \in 1 .. c + 1 : b[k] = x
  <2> SUFFICES ASSUME NEW x \in Q PROVE \E k \in 1 .. c + 1 : b[k] = x
    OBVIOUS
  <2>1. CASE x = n + 1
    <3>1. c + 1 \in 1 .. c + 1
      BY <1>5
    <3>2. QED BY <1>7, <2>1, <3>1
  <2>2. CASE x \in P
    <3>1. PICK k \in 1 .. c : a[k] = x
      BY <1>3, <2>2 DEF InOrder
    <3>2. k \in 1 .. c + 1 /\ b[k] = x
      BY <1>5, <1>7, <3>1
    <3>3. QED BY <3>2
  <2>3. QED BY <2>1, <2>2 DEF Q
<1>11. ASSUME NEW i \in 1 .. c + 1, NEW j \in 1 .. c + 1
       PROVE  i < j <=> <<b[i], b[j]>> \in Ascending(Q)
  <2>1. b[i] \in Q /\ b[j] \in Q
    BY <1>8
  <2>2. <<b[i], b[j]>> \in Ascending(Q) <=> b[i] < b[j]
    BY <2>1 DEF Ascending
  <2>3. i < j <=> b[i] < b[j]
    <3>1. CASE i \in 1 .. c /\ j \in 1 .. c
      <4>1. b[i] = a[i] /\ b[j] = a[j]
        BY <1>7, <3>1
      <4>2. QED BY <1>3, <3>1, <4>1
    <3>2. CASE i \in 1 .. c /\ j = c + 1
      <4>1. b[i] = a[i] /\ b[j] = n + 1 /\ i < j
        BY <1>5, <1>7, <3>2
      <4>2. QED BY <1>9, <3>2, <4>1
    <3>3. CASE i = c + 1 /\ j \in 1 .. c
      <4>1. b[j] = a[j] /\ b[i] = n + 1 /\ ~(i < j)
        BY <1>5, <1>7, <3>3
      <4>2. ~(n + 1 < a[j])
        BY <1>9, <3>3
      <4>3. QED BY <4>1, <4>2
    <3>4. CASE i = c + 1 /\ j = c + 1
      BY <1>5, <1>7, <3>4
    <3>5. QED BY <1>5, <3>1, <3>2, <3>3, <3>4
  <2>4. QED BY <2>2, <2>3
<1>12. InOrder(b, Q, Ascending(Q))
  BY <1>2, <1>5, <1>7, <1>8, <1>10, <1>11 DEF InOrder
<1>13. Upwards(Q) = b
  BY <1>2, <1>4, <1>12, AscendingIsStrict, InOrderUnique
<1>14. QED BY <1>2, <1>13 DEF Q, b

\* All positions of a list pick the list.
LEMMA PickedAll ==
  ASSUME NEW S, NEW list \in Seq(S)
  PROVE  Picked(list, DOMAIN list) = list
<1> DEFINE n == Len(list)
           P == DOMAIN list
<1>1. n \in Nat /\ P = 1 .. n
  BY LenProperties
<1>2. /\ Picked(list, P) \in Seq(S) /\ PicksFrom(Picked(list, P), list, P)
      /\ InOrder(Upwards(P), P, Ascending(P)) /\ P \subseteq Int
  BY PickedElements
<1>3. Cardinality(P) = n
  BY <1>1, FirstNumbers
<1> DEFINE id == [k \in 1 .. n |-> k]
<1>4. InOrder(id, P, Ascending(P))
  <2>1. id \in [1 .. n -> P]
    BY <1>1
  <2>2. id \in Seq(P) /\ Len(id) = n
    <3> HIDE DEF id, n, P
    <3>1. QED BY <1>1, <2>1, ListedIsSame
  <2>3. \A x \in P : \E k \in 1 .. n : id[k] = x
    BY <1>1
  <2>4. \A i, j \in 1 .. n : i < j <=> <<id[i], id[j]>> \in Ascending(P)
    BY <1>1 DEF Ascending
  <2>5. QED
    <3> HIDE DEF id, n, P
    <3>1. QED BY <1>1, <1>3, <2>1, <2>2, <2>3, <2>4 DEF InOrder
<1>5. Upwards(P) = id
  <2> HIDE DEF id, n, P
  <2>1. QED BY <1>2, <1>4, AscendingIsStrict, InOrderUnique
<1>6. Len(Picked(list, P)) = n /\ \A k \in 1 .. n : Picked(list, P)[k] = list[k]
  BY <1>3, <1>5, <1>2 DEF PicksFrom
<1>7. QED BY <1>2, <1>6, SeqEqual

\* Of the picked elements the last is the one furthest on.
LEMMA LastPicked ==
    ASSUME NEW S, NEW list \in Seq(S), NEW P, P \subseteq DOMAIN list,
           Len(Picked(list, P)) > 0
    PROVE  \E p \in P : /\ Picked(list, P)[Len(Picked(list, P))] = list[p]
                        /\ \A q \in P : q <= p
<1> DEFINE picked == Picked(list, P)
           n == Len(picked)
<1>1. n \in Nat /\ DOMAIN picked = 1 .. n /\ P \subseteq Int
  BY PickedElements, LenProperties
<1>2. n \in DOMAIN picked
  BY <1>1
<1>3. /\ \E p \in P : picked[n] = list[p] /\ p = Upwards(P)[n]
      /\ \A p \in P : \E k \in DOMAIN picked : p = Upwards(P)[k]
      /\ \A j, k \in DOMAIN picked : j < k <=> Upwards(P)[j] < Upwards(P)[k]
  BY <1>2, PickedPlaces
<1> HIDE DEF n, picked
<1>4. PICK p \in P : picked[n] = list[p] /\ p = Upwards(P)[n]
  BY <1>3
<1>5. ASSUME NEW q \in P PROVE q <= p
  <2>1. PICK k \in DOMAIN picked : q = Upwards(P)[k]
    BY <1>3
  <2>2. k = n \/ k < n
    BY <1>1
  <2>3. CASE k < n
    BY <1>1, <1>2, <1>3, <1>4, <2>1, <2>3
  <2>4. CASE k = n
    BY <1>1, <1>4, <2>1, <2>4
  <2>5. QED BY <2>2, <2>3, <2>4
<1>6. QED BY <1>4, <1>5 DEF picked, n
==============================================================================
