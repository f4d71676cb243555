-------------------------- MODULE EdgeProcessorProofs --------------------------
(* Proofs about the frame loop of EdgeProcessor, for any detector, any faults,
   clock and predictions, any thresholds and lengths and any number of tracks:
   what each stage makes of its input, then the invariant of the loop, then the
   theorems; and, at the end, about the encounter of RiskEncounter. *)
EXTENDS EdgeProcessor, RiskEncounter, ListLemmas

-----------------------------------------------------------------------------
(* Boxes *)

LEMMA AreaType == ASSUME NEW box \in Box PROVE Area(box) \in Nat
<1>1. box[1] \in Int /\ box[2] \in Int /\ box[3] \in Int /\ box[4] \in Int
  BY DEF Box
<1>2. Larger(0, box[3] - box[1]) \in Nat /\ Larger(0, box[4] - box[2]) \in Nat
  BY <1>1 DEF Larger
<1>3. \A m, n \in Nat : m * n \in Nat
  OBVIOUS
<1>4. QED BY <1>2, <1>3 DEF Area

\* The overlap is a proper fraction and does not depend on the order.
LEMMA IouType ==
    ASSUME NEW a \in Box, NEW b \in Box
    PROVE  /\ Iou(a, b).num \in Nat /\ Iou(a, b).den \in Nat \ {0}
           /\ Iou(a, b) = Iou(b, a)
<1> DEFINE common(p, q) == <<Larger(p[1], q[1]), Larger(p[2], q[2]),
                             Smaller(p[3], q[3]), Smaller(p[4], q[4])>>
<1>1. /\ a[1] \in Int /\ a[2] \in Int /\ a[3] \in Int /\ a[4] \in Int
      /\ b[1] \in Int /\ b[2] \in Int /\ b[3] \in Int /\ b[4] \in Int
  BY DEF Box
<1>2. common(a, b) \in Box
  BY <1>1 DEF Box, Larger, Smaller
<1>3. common(a, b) = common(b, a)
  BY <1>1 DEF Larger, Smaller
<1> HIDE DEF common
<1>4. Area(a) \in Nat /\ Area(b) \in Nat /\ Area(common(a, b)) \in Nat
  BY <1>2, AreaType
<1>5. \A p, q : Iou(p, q) = IF Area(p) + Area(q) - Area(common(p, q)) <= 0
                            THEN [num |-> 0, den |-> 1]
                            ELSE [num |-> Area(common(p, q)),
                                  den |-> Area(p) + Area(q) - Area(common(p, q))]
  BY DEF Iou, common
<1>6. Iou(a, b).num \in Nat /\ Iou(a, b).den \in Nat \ {0}
  BY <1>4, <1>5
<1>7. /\ Area(common(b, a)) = Area(common(a, b))
      /\ Area(b) + Area(a) - Area(common(a, b)) = Area(a) + Area(b) - Area(common(a, b))
  BY <1>3, <1>4
<1>8. Iou(a, b) = Iou(b, a)
  BY <1>5, <1>7, Zenon
<1>9. QED BY <1>6, <1>8

-----------------------------------------------------------------------------
(* Non-maximum suppression *)

ConfidentRows(rows) == {k \in DOMAIN rows : Confident(rows[k])}
ConfidenceOrder(rows) ==
    {pair \in ConfidentRows(rows) \X ConfidentRows(rows) :
        MoreConfident(rows, pair[1], pair[2])}

LEMMA ConfidenceIsStrict ==
    ASSUME NEW rows \in Seq(Rows)
    PROVE  StrictOrder(ConfidenceOrder(rows), ConfidentRows(rows))
<1> DEFINE P == ConfidentRows(rows)
<1>1. \A k \in P : rows[k] \in Rows /\ k \in Int
  BY DEF ConfidentRows
<1>2. \A k \in P : rows[k].conf \in Int
  BY <1>1 DEF Rows
<1>3. \A i, j \in P : <<i, j>> \in ConfidenceOrder(rows) <=> MoreConfident(rows, i, j)
  BY DEF ConfidenceOrder
<1> HIDE DEF P
<1>4. \A i, j, k \in P :
         /\ ~MoreConfident(rows, i, i)
         /\ MoreConfident(rows, i, j) /\ MoreConfident(rows, j, k)
              => MoreConfident(rows, i, k)
         /\ i = j \/ MoreConfident(rows, i, j) \/ MoreConfident(rows, j, i)
  BY <1>1, <1>2 DEF MoreConfident
<1>5. StrictOrder(ConfidenceOrder(rows), P)
  BY <1>3, <1>4 DEF StrictOrder
<1>6. QED BY <1>5 DEF P

\* What is sorted: the confident rows, none more confident than one before it.
SortedRows(list, rows) ==
    /\ list \in Seq(Rows) /\ Len(list) <= Len(rows)
    /\ \A i, j \in DOMAIN list : i <= j => list[i].conf >= list[j].conf
    /\ \A n \in ConfidentRows(rows) : \E k \in DOMAIN list : list[k] = rows[n]

LEMMA ByConfidenceSorts ==
    ASSUME NEW rows \in Seq(Rows)
    PROVE  SortedRows(ByConfidence(rows), rows)
<1> DEFINE P == ConfidentRows(rows)
           R == ConfidenceOrder(rows)
           order == [k \in 1 .. Cardinality(P) |->
                       CHOOSE x \in P :
                          Cardinality({y \in P : MoreConfident(rows, y, x)}) = k - 1]
<1>1. /\ IsFiniteSet(P) /\ P \subseteq DOMAIN rows
      /\ Cardinality(P) \in Nat /\ Cardinality(P) <= Len(rows)
  <2>1. DOMAIN rows = 1 .. Len(rows) /\ Len(rows) \in Nat /\ P \subseteq 1 .. Len(rows)
    BY DEF ConfidentRows
  <2>2. IsFiniteSet(1 .. Len(rows)) /\ Cardinality(1 .. Len(rows)) = Len(rows)
    BY <2>1, FirstNumbers
  <2>3. /\ IsFiniteSet(P) /\ Cardinality(P) <= Cardinality(1 .. Len(rows))
        /\ Cardinality(P) \in Nat
    BY <2>1, <2>2, FS_Subset, FS_CardinalityType
  <2>4. QED BY <2>1, <2>2, <2>3
<1>2. StrictOrder(R, P)
  BY ConfidenceIsStrict
<1>3. \A x \in P : {y \in P : MoreConfident(rows, y, x)} = Below(P, R, x)
  BY DEF Below, ConfidenceOrder
<1>4. ByConfidence(rows) = Listed([k \in DOMAIN Listed(order) |-> rows[Listed(order)[k]]])
  BY DEF ByConfidence, Sorted, ConfidentRows
<1> HIDE DEF P, R
<1>5. Ranked(order, P, R)
  <2>1. (\A k \in 1 .. Cardinality(P) : order[k] \in P) => order \in [1 .. Cardinality(P) -> P]
    OBVIOUS
  <2>2. ASSUME NEW k \in 1 .. Cardinality(P), NEW x \in P,
               Cardinality(Below(P, R, x)) = k - 1
        PROVE  order[k] \in P /\ Cardinality(Below(P, R, order[k])) = k - 1
    <3>1. \E z \in P : Cardinality({y \in P : MoreConfident(rows, y, z)}) = k - 1
      BY <1>3, <2>2
    <3>2. order[k] = CHOOSE z \in P :
                        Cardinality({y \in P : MoreConfident(rows, y, z)}) = k - 1
      OBVIOUS
    <3>3. order[k] \in P
          /\ Cardinality({y \in P : MoreConfident(rows, y, order[k])}) = k - 1
      <4> HIDE DEF order
      <4>1. QED BY <3>1, <3>2, Zenon
    <3>4. QED BY <1>3, <3>3
  <2>3. QED
    <3> HIDE DEF order
    <3>1. QED BY <2>1, <2>2 DEF Ranked
<1> HIDE DEF order
<1>6. InOrder(order, P, R)
  BY <1>1, <1>2, <1>5, SortedInOrder
<1> DEFINE n == Cardinality(P)
<1>7. n \in Nat /\ order \in [1 .. n -> P] /\ Listed(order) = order /\ DOMAIN order = 1 .. n
  BY <1>6, ConcatEmptySeq DEF InOrder, Listed
<1> DEFINE list == [k \in 1 .. n |-> rows[order[k]]]
<1>8. ByConfidence(rows) = Listed(list)
  BY <1>4, <1>7
<1> HIDE DEF n
<1>9. list \in [1 .. n -> Rows]
  BY <1>1, <1>7
<1>10. Listed(list) = list /\ list \in Seq(Rows) /\ DOMAIN list = 1 .. n /\ Len(list) = n
  <2> HIDE DEF list
  <2>1. QED BY <1>7, <1>9, ListedIsSame
<1>11. ASSUME NEW i \in 1 .. n, NEW j \in 1 .. n, i <= j
       PROVE  list[i].conf >= list[j].conf
  <2>1. list[i] \in Rows /\ list[j] \in Rows
    BY <1>9
  <2>2. list[i].conf \in Int /\ list[j].conf \in Int
    BY <2>1 DEF Rows
  <2>3. CASE i = j
    BY <2>2, <2>3
  <2>4. CASE i < j
    <3>1. <<order[i], order[j]>> \in R
      BY <1>6, <2>4 DEF InOrder, n
    <3>2. MoreConfident(rows, order[i], order[j])
      BY <3>1 DEF R, ConfidenceOrder
    <3>3. list[i] = rows[order[i]] /\ list[j] = rows[order[j]]
      OBVIOUS
    <3> HIDE DEF list
    <3>4. QED BY <2>2, <3>2, <3>3 DEF MoreConfident
  <2>5. QED BY <1>7, <1>11, <2>3, <2>4
<1>12. ASSUME NEW m \in P PROVE \E k \in 1 .. n : list[k] = rows[m]
  BY <1>6 DEF InOrder, n
<1>13. SortedRows(list, rows)
  <2> HIDE DEF list
  <2>1. Len(list) <= Len(rows)
    BY <1>1, <1>10 DEF n
  <2>2. QED BY <1>10, <1>11, <1>12, <2>1 DEF SortedRows, P
<1>14. QED BY <1>8, <1>10, <1>13

LEMMA KeepType ==
    ASSUME NEW kept \in Seq(Rows), NEW row \in Rows
    PROVE  Keep(kept, row) \in Seq(Rows)
BY AppendProperties DEF Keep

\* The fold of non_max_suppression as a loop.
LEMMA KeepLoop ==
    ASSUME NEW list \in Seq(Rows)
    PROVE  \E f \in [0 .. Len(list) -> Seq(Rows)] :
              /\ f[0] = <<>>
              /\ \A k \in 1 .. Len(list) : f[k] = Keep(f[k - 1], list[k])
              /\ FoldLeft(Keep, <<>>, list) = f[Len(list)]
<1> DEFINE N == Len(list)
           A == Seq(Rows)
           step == [p \in A \X (1 .. N) |-> Keep(p[1], list[p[2]])]
           Equation(g) == g = [s \in SUBSET DOMAIN list |->
                                 IF s = {} THEN <<>> ELSE Keep(g[s \ {Max(s)}], list[Max(s)])]
           table == CHOOSE g : Equation(g)
<1>0. N \in Nat /\ DOMAIN list = 1 .. N /\ \A k \in 1 .. N : list[k] \in Rows
  BY LenProperties, ElementOfSeq
<1>1. step \in [A \X (1 .. N) -> A] /\ <<>> \in A
  BY <1>0, KeepType, EmptySeq
<1>2. \A s \in SUBSET (1 .. N), t \in A :
         s # {} => step[<<t, Max(s)>>] = Keep(t, list[Max(s)])
  <2> SUFFICES ASSUME NEW s \in SUBSET (1 .. N), NEW t \in A, s # {}
               PROVE  step[<<t, Max(s)>>] = Keep(t, list[Max(s)])
    OBVIOUS
  <2>1. s \subseteq 0 .. N
    OBVIOUS
  <2>2. Max(s) \in 1 .. N
    BY <1>0, <2>1, GreatestNumber
  <2>3. QED BY <2>2
<1>3. PICK g \in [SUBSET (1 .. N) -> A] : FoldTable(g, N, <<>>, step)
  <2> HIDE DEF step, A
  <2>1. QED BY <1>0, <1>1, FoldTableExists
<1>4. Equation(g)
  <2> HIDE DEF step
  <2>1. QED BY <1>0, <1>2, <1>3 DEF FoldTable
<1>5. Equation(table)
  BY <1>4
<1>6. FoldLeft(Keep, <<>>, list) = table[1 .. N]
  BY <1>0 DEF FoldLeft, MapThenFoldSet
<1> HIDE DEF table, step
<1>7. RunsThrough(table, A, N, <<>>, step)
  BY <1>0, <1>1, <1>2, <1>5 DEF RunsThrough
<1>8. PICK f : IsLoop(f, A, N, <<>>, step) /\ f[N] = table[1 .. N]
  BY <1>7, LoopOfTable
<1>9. ASSUME NEW k \in 1 .. N PROVE f[k] = Keep(f[k - 1], list[k])
  <2>1. k - 1 \in 0 .. N /\ f[k - 1] \in A
    BY <1>0, <1>8 DEF IsLoop
  <2>2. QED BY <1>8, <2>1 DEF step, IsLoop
<1>10. f \in [0 .. N -> A] /\ f[0] = <<>>
  BY <1>8 DEF IsLoop
<1>11. QED BY <1>6, <1>8, <1>9, <1>10

\* After k rows: those kept do not suppress each other, and each row so far is kept
\* or suppressed by one that is.
Covering(kept, list, k) ==
    /\ Len(kept) <= k
    /\ \A a, b \in DOMAIN kept : a < b => ~Suppresses(kept[a], kept[b])
    /\ \A a \in DOMAIN kept : \E j \in 1 .. k : kept[a] = list[j]
    /\ \A i \in 1 .. k : \E a \in DOMAIN kept, j \in 1 .. i :
          kept[a] = list[j] /\ (j = i \/ Suppresses(list[j], list[i]))

LEMMA KeepCovers ==
    ASSUME NEW list \in Seq(Rows), NEW k \in Nat, k + 1 \in DOMAIN list,
           NEW kept \in Seq(Rows), Covering(kept, list, k)
    PROVE  Covering(Keep(kept, list[k + 1]), list, k + 1)
<1> DEFINE row == list[k + 1]
           n == Len(kept)
<1>0. n \in Nat /\ DOMAIN kept = 1 .. n
  BY LenProperties
<1>1. CASE \E a \in DOMAIN kept : Suppresses(kept[a], row)
  <2>1. Keep(kept, row) = kept
    BY <1>1 DEF Keep
  <2>2. PICK a \in DOMAIN kept : Suppresses(kept[a], row)
    BY <1>1
  <2>3. PICK j \in 1 .. k : kept[a] = list[j]
    BY DEF Covering
  <2>4. \A i \in 1 .. k + 1 : i \in 1 .. k \/ i = k + 1
    OBVIOUS
  <2>5. \A i \in 1 .. k : i \in 1 .. k + 1
    OBVIOUS
  <2>6. Covering(kept, list, k + 1)
    <3>1. Len(kept) <= k + 1
      BY <1>0 DEF Covering
    <3>2. QED BY <2>2, <2>3, <2>4, <2>5, <3>1 DEF Covering
  <2>7. QED BY <2>1, <2>6
<1>2. CASE ~\E a \in DOMAIN kept : Suppresses(kept[a], row)
  <2> DEFINE longer == Append(kept, row)
  <2>0. row \in Rows
    BY ElementOfSeq
  <2>1. Keep(kept, row) = longer
    BY <1>2 DEF Keep
  <2>2. /\ DOMAIN longer = 1 .. n + 1 /\ Len(longer) = n + 1 /\ longer[n + 1] = row
        /\ \A a \in 1 .. n : longer[a] = kept[a]
    BY <1>0, <2>0, AppendProperties
  <2> HIDE DEF longer, row
  <2>3. ASSUME NEW a \in 1 .. n + 1, NEW b \in 1 .. n + 1, a < b
        PROVE  ~Suppresses(longer[a], longer[b])
    <3>1. a \in 1 .. n
      BY <1>0, <2>3
    <3>2. CASE b = n + 1
      BY <1>0, <1>2, <2>2, <3>1, <3>2
    <3>3. CASE b \in 1 .. n
      BY <1>0, <2>2, <2>3, <3>1, <3>3 DEF Covering
    <3>4. QED BY <1>0, <3>2, <3>3
  <2>4. ASSUME NEW a \in 1 .. n + 1 PROVE \E j \in 1 .. k + 1 : longer[a] = list[j]
    <3>1. CASE a = n + 1
      BY <2>2, <3>1 DEF row
    <3>2. CASE a \in 1 .. n
      <4>1. PICK j \in 1 .. k : kept[a] = list[j]
        BY <1>0, <3>2 DEF Covering
      <4>2. j \in 1 .. k + 1 /\ longer[a] = list[j]
        BY <2>2, <3>2, <4>1
      <4>3. QED BY <4>2
    <3>3. QED BY <1>0, <3>1, <3>2
  <2>5. ASSUME NEW i \in 1 .. k + 1
        PROVE  \E a \in 1 .. n + 1, j \in 1 .. i :
                  longer[a] = list[j] /\ (j = i \/ Suppresses(list[j], list[i]))
    <3>1. CASE i = k + 1
      <4>1. n + 1 \in 1 .. n + 1 /\ k + 1 \in 1 .. i /\ longer[n + 1] = list[k + 1]
        BY <1>0, <2>2, <3>1 DEF row
      <4>2. QED BY <3>1, <4>1
    <3>2. CASE i \in 1 .. k
      <4>1. PICK a \in 1 .. n, j \in 1 .. i :
               kept[a] = list[j] /\ (j = i \/ Suppresses(list[j], list[i]))
        BY <1>0, <3>2 DEF Covering
      <4>2. a \in 1 .. n + 1 /\ longer[a] = kept[a]
        BY <1>0, <2>2
      <4>3. QED BY <4>1, <4>2
    <3>3. QED BY <3>1, <3>2
  <2>6. Covering(longer, list, k + 1)
    <3>1. Len(longer) <= k + 1
      BY <1>0, <2>2 DEF Covering
    <3>2. QED BY <3>1, <2>2, <2>3, <2>4, <2>5 DEF Covering
  <2>7. QED BY <2>1, <2>6 DEF row
<1>3. QED BY <1>1, <1>2

LEMMA SuppressionCovers ==
    ASSUME NEW rows \in Seq(Rows)
    PROVE  /\ NonMaxSuppression(rows) \in Seq(Rows)
           /\ Covering(NonMaxSuppression(rows), ByConfidence(rows), Len(ByConfidence(rows)))
<1> DEFINE list == ByConfidence(rows)
           N == Len(list)
<1>1. list \in Seq(Rows) /\ N \in Nat /\ DOMAIN list = 1 .. N
  BY ByConfidenceSorts, LenProperties DEF SortedRows
<1> HIDE DEF list
<1>2. PICK f \in [0 .. N -> Seq(Rows)] :
         /\ f[0] = <<>>
         /\ \A k \in 1 .. N : f[k] = Keep(f[k - 1], list[k])
         /\ FoldLeft(Keep, <<>>, list) = f[N]
  BY <1>1, KeepLoop
<1> HIDE DEF N
<1> DEFINE P == {k \in 0 .. N : Covering(f[k], list, k)}
<1>3. 0 \in P
  <2>1. DOMAIN f[0] = {} /\ 1 .. 0 = {} /\ Len(f[0]) <= 0
    BY <1>2
  <2>2. Covering(f[0], list, 0)
    BY <2>1 DEF Covering
  <2>3. QED BY <1>1, <2>2
<1>4. ASSUME NEW k \in 0 .. N - 1, k \in P PROVE k + 1 \in P
  <2>1. k \in Nat /\ k + 1 \in 1 .. N /\ k + 1 \in 0 .. N /\ (k + 1) - 1 = k /\ k \in 0 .. N
    BY <1>1
  <2>2. f[k] \in Seq(Rows) /\ Covering(f[k], list, k)
    BY <1>4, <2>1
  <2>3. Covering(Keep(f[k], list[k + 1]), list, k + 1)
    BY <1>1, <2>1, <2>2, KeepCovers
  <2>4. f[k + 1] = Keep(f[k], list[k + 1])
    BY <1>2, <2>1
  <2>5. QED BY <2>1, <2>3, <2>4
<1>5. 0 .. N \subseteq P
  <2> HIDE DEF P
  <2>1. QED BY <1>1, <1>3, <1>4, CountsUp
<1>6. N \in 0 .. N /\ NonMaxSuppression(rows) = f[N]
  BY <1>1, <1>2 DEF NonMaxSuppression, list
<1>7. f[N] \in Seq(Rows) /\ Covering(f[N], list, N)
  BY <1>5, <1>6
<1>8. QED BY <1>6, <1>7 DEF list, N

\* What a detector hands over.
DetectionsOf(dev) ==
    [device : {dev}, timestamp : Int, box : Box, conf : Int, class : STRING,
     pixel : Place, world : {NoWorld} \cup Place]

\* The two halves of KeptCoverSuppressed.
Apart(kept) ==
    \A i, j \in DOMAIN kept :
       i # j /\ kept[i].class = kept[j].class
          => ~Exceeds(Iou(kept[i].box, kept[j].box), NmsThreshold)
Represents(kept, row) ==
    \E i \in DOMAIN kept :
       /\ kept[i].class = row.class /\ kept[i].conf >= row.conf
       /\ \/ kept[i].box = row.box
          \/ Exceeds(Iou(row.box, kept[i].box), NmsThreshold)

LEMMA SuppressionSound ==
    ASSUME NEW rows \in Seq(Rows)
    PROVE  /\ NonMaxSuppression(rows) \in Seq(Rows)
           /\ Len(NonMaxSuppression(rows)) <= Len(rows)
           /\ Apart(NonMaxSuppression(rows))
           /\ \A n \in ConfidentRows(rows) : Represents(NonMaxSuppression(rows), rows[n])
<1> DEFINE list == ByConfidence(rows)
           N == Len(list)
           kept == NonMaxSuppression(rows)
<1>1. kept \in Seq(Rows) /\ Covering(kept, list, N)
  BY SuppressionCovers
<1>2. SortedRows(list, rows)
  BY ByConfidenceSorts
<1>3. N \in Nat /\ DOMAIN list = 1 .. N
  BY <1>2, LenProperties DEF SortedRows
<1>4. Len(kept) \in Nat /\ DOMAIN kept = 1 .. Len(kept)
      /\ \A i \in DOMAIN kept : kept[i] \in Rows
  BY <1>1, LenProperties, ElementOfSeq
<1> HIDE DEF kept, list
<1>5. \A i \in DOMAIN kept : kept[i].box \in Box
  BY <1>4 DEF Rows
<1>6. Apart(kept)
  <2> SUFFICES ASSUME NEW i \in DOMAIN kept, NEW j \in DOMAIN kept, i # j,
                      kept[i].class = kept[j].class
               PROVE  ~Exceeds(Iou(kept[i].box, kept[j].box), NmsThreshold)
    BY DEF Apart
  <2>1. Iou(kept[i].box, kept[j].box) = Iou(kept[j].box, kept[i].box)
    BY <1>5, IouType
  <2>2. CASE i < j
    <3>1. ~Suppresses(kept[i], kept[j])
      BY <1>1, <2>2 DEF Covering
    <3>2. QED BY <2>1, <3>1 DEF Suppresses
  <2>3. CASE j < i
    <3>1. ~Suppresses(kept[j], kept[i])
      BY <1>1, <2>3 DEF Covering
    <3>2. QED BY <3>1 DEF Suppresses
  <2>4. i < j \/ j < i
    BY <1>4
  <2>5. QED BY <2>2, <2>3, <2>4
<1>7. ASSUME NEW n \in ConfidentRows(rows) PROVE Represents(kept, rows[n])
  <2>1. PICK i \in 1 .. N : list[i] = rows[n]
    BY <1>2, <1>3 DEF SortedRows
  <2>2. PICK a \in DOMAIN kept, j \in 1 .. i :
           kept[a] = list[j] /\ (j = i \/ Suppresses(list[j], list[i]))
    BY <1>1 DEF Covering
  <2>3. j \in 1 .. N /\ j <= i
    BY <1>3
  <2>4. list[j].conf >= list[i].conf
    BY <1>2, <1>3, <2>3 DEF SortedRows
  <2>5. CASE j = i
    <3>1. kept[a] = rows[n]
      BY <2>1, <2>2, <2>5
    <3>2. QED BY <2>1, <2>4, <2>5, <3>1 DEF Represents
  <2>6. CASE Suppresses(list[j], list[i])
    BY <2>1, <2>2, <2>4, <2>6 DEF Suppresses, Represents
  <2>7. QED BY <2>2, <2>5, <2>6
<1>8. Len(kept) <= Len(rows)
  <2>1. Len(kept) <= N /\ N <= Len(rows)
    BY <1>1, <1>2 DEF Covering, SortedRows
  <2>2. QED BY <1>3, <1>4, <2>1, LenProperties
<1>9. QED BY <1>1, <1>6, <1>7, <1>8 DEF kept

LEMMA CenterType == ASSUME NEW box \in Box PROVE Center(box) \in Place
BY DEF Box, Place, Center

\* The stage of the detector, whatever it sees and whether it fails.
LEMMA DetectedSound ==
    ASSUME NEW input \in Frames, NEW faults, NEW timestamp \in Int
    PROVE  /\ Detected(input, faults, timestamp) \in Seq(DetectionsOf(Device))
           /\ Len(Detected(input, faults, timestamp)) <= Len(input.rows)
           /\ \A k \in DOMAIN Detected(input, faults, timestamp) :
                 Detected(input, faults, timestamp)[k].device = Device
           /\ Apart(Detected(input, faults, timestamp))
           /\ <<"detect", 0>> \notin faults =>
                 \A n \in DOMAIN input.rows :
                    Confident(input.rows[n])
                       => Represents(Detected(input, faults, timestamp), input.rows[n])
<1> DEFINE rows == input.rows
           kept == NonMaxSuppression(rows)
           n == Len(kept)
           made == [k \in 1 .. n |->
                      [device |-> Device, timestamp |-> timestamp, box |-> kept[k].box,
                       conf |-> kept[k].conf, class |-> kept[k].class,
                       pixel |-> Center(kept[k].box), world |-> NoWorld]]
           found == Detected(input, faults, timestamp)
<1>1. rows \in Seq(Rows)
  BY ProcessorAssumption
<1>2. /\ kept \in Seq(Rows) /\ Len(kept) <= Len(rows) /\ Apart(kept)
      /\ \A m \in ConfidentRows(rows) : Represents(kept, rows[m])
  BY <1>1, SuppressionSound
<1>3. n \in Nat /\ DOMAIN kept = 1 .. n /\ \A k \in 1 .. n : kept[k] \in Rows
  BY <1>2, LenProperties, ElementOfSeq
<1> HIDE DEF kept
<1>4. \A k \in 1 .. n : /\ kept[k].box \in Box /\ kept[k].conf \in Int
                        /\ kept[k].class \in STRING /\ Center(kept[k].box) \in Place
  BY <1>3, CenterType DEF Rows
<1>5. made \in [1 .. n -> DetectionsOf(Device)]
  BY <1>4 DEF DetectionsOf
<1>6. /\ Listed(made) = made /\ made \in Seq(DetectionsOf(Device))
      /\ DOMAIN made = 1 .. n /\ Len(made) = n
  <2> HIDE DEF made, n
  <2>1. QED BY <1>3, <1>5, ListedIsSame
<1>7. DetectionsFrom(rows, Device, timestamp) = made
  <2>1. DetectionsFrom(rows, Device, timestamp) = Listed(made)
    BY <1>3 DEF DetectionsFrom, kept
  <2>2. QED BY <1>6, <2>1
<1>8. \A k \in 1 .. n : /\ made[k].class = kept[k].class /\ made[k].conf = kept[k].conf
                        /\ made[k].box = kept[k].box /\ made[k].device = Device
  OBVIOUS
<1> HIDE DEF made
<1> DEFINE placed == [k \in 1 .. n |-> [made[k] EXCEPT !.world = made[k].pixel]]
<1>9. /\ placed \in [1 .. n -> DetectionsOf(Device)]
      /\ \A k \in 1 .. n : /\ placed[k].class = kept[k].class
                           /\ placed[k].conf = kept[k].conf
                           /\ placed[k].box = kept[k].box /\ placed[k].device = Device
  <2>1. ASSUME NEW k \in 1 .. n
        PROVE /\ [made[k] EXCEPT !.world = made[k].pixel] \in DetectionsOf(Device)
              /\ placed[k].class = kept[k].class
              /\ placed[k].conf = kept[k].conf
              /\ placed[k].box = kept[k].box /\ placed[k].device = Device
    <3>1. made[k] \in DetectionsOf(Device)
      BY <1>5
    <3>2. QED BY <1>8, <3>1 DEF DetectionsOf
  <2>2. QED BY <2>1
<1>10. /\ Listed(placed) = placed /\ placed \in Seq(DetectionsOf(Device))
       /\ DOMAIN placed = 1 .. n /\ Len(placed) = n
  <2> HIDE DEF placed, n
  <2>1. QED BY <1>3, <1>9, ListedIsSame
<1>11. CASE <<"detect", 0>> \in faults
  <2>1. found = <<>> /\ DOMAIN found = {} /\ Len(found) <= Len(rows)
    <3>1. found = <<>> /\ Len(<<>>) = 0 /\ Len(rows) \in Nat
      BY <1>1, <1>11, EmptySeq, LenProperties DEF Detected
    <3>2. QED BY <3>1
  <2>2. <<>> \in Seq(DetectionsOf(Device))
    BY EmptySeq
  <2>3. QED BY <1>11, <2>1, <2>2 DEF Apart
<1>12. CASE <<"detect", 0>> \notin faults
  <2>1. found = placed \/ found = made
    <3>1. found = IF input.located
                  THEN Listed([k \in DOMAIN made |-> [made[k] EXCEPT !.world = made[k].pixel]])
                  ELSE made
      BY <1>7, <1>12 DEF Detected, Detect
    <3>2. QED BY <1>6, <1>10, <3>1
  <2>2. /\ found \in Seq(DetectionsOf(Device)) /\ DOMAIN found = 1 .. n
        /\ Len(found) <= Len(rows)
        /\ \A k \in 1 .. n : /\ found[k].class = kept[k].class
                             /\ found[k].conf = kept[k].conf
                             /\ found[k].box = kept[k].box /\ found[k].device = Device
    BY <1>2, <1>6, <1>8, <1>9, <1>10, <2>1
  <2> HIDE DEF found
  <2>3. Apart(found)
    BY <1>2, <1>3, <2>2 DEF Apart
  <2>4. \A row : Represents(kept, row) => Represents(found, row)
    BY <1>3, <2>2 DEF Represents
  <2>5. \A m \in DOMAIN rows : Confident(rows[m]) => Represents(found, rows[m])
    BY <1>2, <2>4 DEF ConfidentRows
  <2>6. QED BY <2>2, <2>3, <2>5 DEF found
<1>13. QED BY <1>11, <1>12

-----------------------------------------------------------------------------
(* Association *)

Fractions == [num : Nat, den : Nat \ {0}]

\* Comparing fractions crosswise is comparing them.
LEMMA CrossTransitive ==
    ASSUME NEW x \in Nat, NEW y \in Nat, NEW z \in Nat,
           NEW p \in Nat \ {0}, NEW q \in Nat \ {0}, NEW r \in Nat \ {0}
    PROVE  /\ x * q < y * p /\ y * r <= z * q => x * r < z * p
           /\ x * q <= y * p /\ y * r < z * q => x * r < z * p
           /\ x * q <= y * p /\ y * r <= z * q => x * r <= z * p
<1>1. \A m, n \in Int, k \in Nat \ {0} :
         /\ m * k < n * k <=> m < n
         /\ m * k <= n * k <=> m <= n
  OBVIOUS
<1>2. /\ x * q \in Int /\ y * p \in Int /\ y * r \in Int /\ z * q \in Int
      /\ x * r \in Int /\ z * p \in Int
  OBVIOUS
<1>3. /\ x * q < y * p <=> (x * q) * r < (y * p) * r
      /\ x * q <= y * p <=> (x * q) * r <= (y * p) * r
  BY <1>1, <1>2
<1>4. /\ y * r < z * q <=> (y * r) * p < (z * q) * p
      /\ y * r <= z * q <=> (y * r) * p <= (z * q) * p
  BY <1>1, <1>2
<1>5. /\ x * r < z * p <=> (x * r) * q < (z * p) * q
      /\ x * r <= z * p <=> (x * r) * q <= (z * p) * q
  BY <1>1, <1>2
<1>6. /\ (x * q) * r = (x * r) * q /\ (y * p) * r = (y * r) * p
      /\ (z * q) * p = (z * p) * q
  OBVIOUS
<1>7. (x * r) * q \in Int /\ (y * r) * p \in Int /\ (z * p) * q \in Int
  OBVIOUS
<1>8. QED BY <1>3, <1>4, <1>5, <1>6, <1>7

LEMMA IouLessIsWeakOrder ==
    /\ \A a, b \in Fractions : ~(IouLess(a, b) /\ IouLess(b, a))
    /\ \A a, b, c \in Fractions :
          /\ IouLess(a, b) /\ ~IouLess(c, b) => IouLess(a, c)
          /\ ~IouLess(b, a) /\ IouLess(b, c) => IouLess(a, c)
          /\ ~IouLess(b, a) /\ ~IouLess(c, b) => ~IouLess(c, a)
<1>1. \A a \in Fractions : a.num \in Nat /\ a.den \in Nat \ {0}
  BY DEF Fractions
<1>2. \A a, b \in Fractions : a.num * b.den \in Nat
  BY <1>1
<1>3. \A a, b \in Fractions : /\ ~(IouLess(a, b) /\ IouLess(b, a))
                              /\ ~IouLess(a, b) <=> b.num * a.den <= a.num * b.den
  BY <1>2 DEF IouLess
<1>4. \A a, b, c \in Fractions :
         /\ IouLess(a, b) /\ ~IouLess(c, b) => IouLess(a, c)
         /\ ~IouLess(b, a) /\ IouLess(b, c) => IouLess(a, c)
         /\ ~IouLess(b, a) /\ ~IouLess(c, b) => ~IouLess(c, a)
  <2> SUFFICES ASSUME NEW a \in Fractions, NEW b \in Fractions, NEW c \in Fractions
               PROVE  /\ IouLess(a, b) /\ ~IouLess(c, b) => IouLess(a, c)
                      /\ ~IouLess(b, a) /\ IouLess(b, c) => IouLess(a, c)
                      /\ ~IouLess(b, a) /\ ~IouLess(c, b) => ~IouLess(c, a)
    OBVIOUS
  <2> DEFINE ab == a.num * b.den
             ba == b.num * a.den
             bc == b.num * c.den
             cb == c.num * b.den
             ac == a.num * c.den
             ca == c.num * a.den
  <2>1. /\ ab < ba /\ bc <= cb => ac < ca
        /\ ab <= ba /\ bc < cb => ac < ca
        /\ ab <= ba /\ bc <= cb => ac <= ca
    BY <1>1, CrossTransitive
  <2>2. /\ IouLess(a, b) <=> ab < ba
        /\ IouLess(b, c) <=> bc < cb
        /\ IouLess(a, c) <=> ac < ca
        /\ ~IouLess(c, b) <=> bc <= cb
        /\ ~IouLess(b, a) <=> ab <= ba
        /\ ~IouLess(c, a) <=> ac <= ca
    BY <1>3 DEF IouLess
  <2>3. QED BY <2>1, <2>2
<1>5. QED BY <1>3, <1>4

Velocities == [dx : Int, dy : Int, dt : Nat \ {0}]
States ==
    [device : {Device}, id : Nat, timestamp : Int, box : Box, class : STRING,
     pixel : Place, world : {NoWorld} \cup Place, velocity : Velocities]
ActiveTracks == [state : States, missed : 0 .. MaxMissed]

\* What a tracker keeps: tracks under their identities, which were all given.
TracksOK(tracks, next) ==
    /\ tracks \in [DOMAIN tracks -> ActiveTracks]
    /\ DOMAIN tracks \subseteq 1 .. next - 1
    /\ \A id \in DOMAIN tracks : tracks[id].state.id = id
TrackerOK(t) ==
    /\ t.next \in Nat \ {0} /\ t.next <= MaxTrackId + 1
    /\ TracksOK(t.tracks, t.next)

PreferenceOrder(tracks, detections) ==
    {pair \in Candidates(tracks, detections) \X Candidates(tracks, detections) :
        Preferred(tracks, detections, pair[1], pair[2])}

LEMMA CandidatesType ==
    ASSUME NEW tracks, NEW top \in Nat, TracksOK(tracks, top), top <= MaxTrackId + 1,
           NEW detections \in Seq(DetectionsOf(Device))
    PROVE  /\ IsFiniteSet(Candidates(tracks, detections))
           /\ \A p \in Candidates(tracks, detections) :
                 /\ p = <<p[1], p[2]>>
                 /\ p[1] \in DOMAIN detections /\ p[1] \in Nat
                 /\ p[2] \in DOMAIN tracks /\ p[2] \in Identities
                 /\ Overlap(tracks, detections, p) \in Fractions
<1> DEFINE C == Candidates(tracks, detections)
           n == Len(detections)
<1>1. n \in Nat /\ DOMAIN detections = 1 .. n
      /\ \A k \in 1 .. n : detections[k] \in DetectionsOf(Device)
  BY LenProperties, ElementOfSeq
<1>2. C \subseteq (1 .. n) \X DOMAIN tracks
  BY <1>1 DEF Candidates
<1>3. IsFiniteSet(DOMAIN tracks) /\ IsFiniteSet(1 .. n)
  <2>1. IsFiniteSet(1 .. top - 1) /\ IsFiniteSet(1 .. n)
    BY <1>1, FS_Interval
  <2>2. QED BY <2>1, FS_Subset DEF TracksOK
<1>4. IsFiniteSet(C)
  <2>1. IsFiniteSet((1 .. n) \X DOMAIN tracks)
    BY <1>3, FS_Product
  <2>2. QED BY <1>2, <2>1, FS_Subset
<1>5. ASSUME NEW p \in C
      PROVE  /\ p = <<p[1], p[2]>>
             /\ p[1] \in DOMAIN detections /\ p[1] \in Nat
             /\ p[2] \in DOMAIN tracks /\ p[2] \in Identities
             /\ Overlap(tracks, detections, p) \in Fractions
  <2>1. p = <<p[1], p[2]>> /\ p[1] \in 1 .. n /\ p[2] \in DOMAIN tracks
    BY <1>2
  <2>2. p[2] \in 1 .. top - 1
    BY <2>1 DEF TracksOK
  <2>3. p[1] \in Nat /\ p[2] \in Identities
    BY <1>1, <2>1, <2>2, TrackerAssumption DEF Identities
  <2>4. tracks[p[2]] \in ActiveTracks
    BY <2>1 DEF TracksOK
  <2>5. tracks[p[2]].state \in States
    BY <2>4 DEF ActiveTracks
  <2>6. tracks[p[2]].state.box \in Box
    BY <2>5 DEF States
  <2>7. detections[p[1]] \in DetectionsOf(Device)
    BY <1>1, <2>1
  <2>8. detections[p[1]].box \in Box
    BY <2>7 DEF DetectionsOf
  <2> DEFINE o == Iou(tracks[p[2]].state.box, detections[p[1]].box)
  <2>9. o.num \in Nat /\ o.den \in Nat \ {0}
    BY <2>6, <2>8, IouType
  <2>10. o = [num |-> o.num, den |-> o.den]
    BY DEF Iou
  <2> HIDE DEF o
  <2>11. o \in Fractions
    BY <2>9, <2>10 DEF Fractions
  <2>12. QED BY <1>1, <2>1, <2>3, <2>11 DEF Overlap, o
<1>6. QED BY <1>4, <1>5

LEMMA TextOrderIsStrict ==
    ASSUME NEW i \in Identities, NEW j \in Identities, NEW k \in Identities
    PROVE  /\ <<i, i>> \notin TextOrder
           /\ <<i, j>> \in TextOrder /\ <<j, k>> \in TextOrder => <<i, k>> \in TextOrder
           /\ i = j \/ <<i, j>> \in TextOrder \/ <<j, i>> \in TextOrder
BY TrackerAssumption, Zenon

LEMMA PreferenceIsStrict ==
    ASSUME NEW tracks, NEW top \in Nat, TracksOK(tracks, top), top <= MaxTrackId + 1,
           NEW detections \in Seq(DetectionsOf(Device))
    PROVE  StrictOrder(PreferenceOrder(tracks, detections), Candidates(tracks, detections))
<1> DEFINE C == Candidates(tracks, detections)
           o(p) == Overlap(tracks, detections, p)
           tie(p, q) == \/ <<q[2], p[2]>> \in TextOrder
                        \/ p[2] = q[2] /\ p[1] > q[1]
           better(p, q) == Preferred(tracks, detections, p, q)
<1>1. \A p \in C : /\ p = <<p[1], p[2]>> /\ p[1] \in Nat /\ p[2] \in Identities
                   /\ o(p) \in Fractions
  BY CandidatesType
<1>2. \A p, q \in C :
         better(p, q) <=> IouLess(o(q), o(p)) \/ (~IouLess(o(p), o(q)) /\ tie(p, q))
  BY DEF Preferred
<1>3. \A p, q \in C : <<p, q>> \in PreferenceOrder(tracks, detections) <=> better(p, q)
  BY DEF PreferenceOrder
<1> HIDE DEF better, o, C
<1>4. \A p, q, r \in C :
         /\ ~tie(p, p)
         /\ tie(p, q) /\ tie(q, r) => tie(p, r)
         /\ p = q \/ tie(p, q) \/ tie(q, p)
  <2>1. ASSUME NEW p \in C PROVE ~tie(p, p)
    BY <1>1, TextOrderIsStrict
  <2>2. ASSUME NEW p \in C, NEW q \in C, NEW r \in C, tie(p, q), tie(q, r)
        PROVE  tie(p, r)
    <3>1. p[2] \in Identities /\ q[2] \in Identities /\ r[2] \in Identities
      BY <1>1
    <3>2. <<r[2], q[2]>> \in TextOrder /\ <<q[2], p[2]>> \in TextOrder
             => <<r[2], p[2]>> \in TextOrder
      <4>1. \A i, j, k \in Identities :
               <<i, j>> \in TextOrder /\ <<j, k>> \in TextOrder => <<i, k>> \in TextOrder
        BY TextOrderIsStrict
      <4>2. QED BY <3>1, <4>1, Zenon
    <3>3. p[1] \in Nat /\ q[1] \in Nat /\ r[1] \in Nat
      BY <1>1
    <3>4. p[1] > q[1] /\ q[1] > r[1] => p[1] > r[1]
      BY <3>3
    <3>5. QED BY <2>2, <3>2, <3>4
  <2>3. ASSUME NEW p \in C, NEW q \in C PROVE p = q \/ tie(p, q) \/ tie(q, p)
    <3>1. \/ p[2] = q[2] \/ <<q[2], p[2]>> \in TextOrder
          \/ <<p[2], q[2]>> \in TextOrder
      <4>1. p[2] \in Identities /\ q[2] \in Identities
        BY <1>1
      <4>2. QED BY <4>1, TextOrderIsStrict
    <3>2. p[1] = q[1] \/ p[1] > q[1] \/ q[1] > p[1]
      BY <1>1
    <3>3. p[1] = q[1] /\ p[2] = q[2] => p = q
      BY <1>1
    <3>4. QED BY <3>1, <3>2, <3>3
  <2>4. QED BY <2>1, <2>2, <2>3
<1> HIDE DEF tie
<1>5. \A p \in C : ~better(p, p)
  BY <1>1, <1>2, <1>4, IouLessIsWeakOrder
<1>6. ASSUME NEW p \in C, NEW q \in C, NEW r \in C, better(p, q), better(q, r)
      PROVE  better(p, r)
  <2>0. o(p) \in Fractions /\ o(q) \in Fractions /\ o(r) \in Fractions
    BY <1>1
  <2>1. \/ IouLess(o(q), o(p))
        \/ ~IouLess(o(p), o(q)) /\ tie(p, q)
    BY <1>2, <1>6
  <2>2. \/ IouLess(o(r), o(q))
        \/ ~IouLess(o(q), o(r)) /\ tie(q, r)
    BY <1>2, <1>6
  <2>3. ~IouLess(o(p), o(q)) /\ ~IouLess(o(q), o(r))
    BY <2>0, <2>1, <2>2, IouLessIsWeakOrder
  <2>4. CASE IouLess(o(q), o(p)) \/ IouLess(o(r), o(q))
    <3>1. IouLess(o(r), o(p))
      BY <2>0, <2>3, <2>4, IouLessIsWeakOrder
    <3>2. QED BY <1>2, <3>1
  <2>5. CASE tie(p, q) /\ tie(q, r)
    <3>1. tie(p, r) /\ ~IouLess(o(p), o(r))
      BY <1>4, <2>0, <2>3, <2>5, IouLessIsWeakOrder
    <3>2. QED BY <1>2, <3>1
  <2>6. QED BY <2>1, <2>2, <2>4, <2>5
<1>7. ASSUME NEW p \in C, NEW q \in C PROVE p = q \/ better(p, q) \/ better(q, p)
  BY <1>2, <1>4
<1>8. StrictOrder(PreferenceOrder(tracks, detections), C)
  BY <1>3, <1>5, <1>6, <1>7 DEF StrictOrder
<1>9. QED BY <1>8 DEF C

\* The fold of _match_detections as a loop.
LEMMA TakeLoop ==
    ASSUME NEW C, NEW list \in Seq(C)
    PROVE  \E f \in [0 .. Len(list) -> SUBSET C] :
              /\ f[0] = {}
              /\ \A k \in 1 .. Len(list) : f[k] = Take(f[k - 1], list[k])
              /\ FoldLeft(Take, {}, list) = f[Len(list)]
<1> DEFINE N == Len(list)
           A == SUBSET C
           step == [p \in A \X (1 .. N) |-> Take(p[1], list[p[2]])]
           Equation(g) == g = [s \in SUBSET DOMAIN list |->
                                 IF s = {} THEN {} ELSE Take(g[s \ {Max(s)}], list[Max(s)])]
           table == CHOOSE g : Equation(g)
<1>0. N \in Nat /\ DOMAIN list = 1 .. N /\ \A k \in 1 .. N : list[k] \in C
  BY LenProperties, ElementOfSeq
<1>1. step \in [A \X (1 .. N) -> A] /\ {} \in A
  BY <1>0 DEF Take
<1>2. \A s \in SUBSET (1 .. N), t \in A :
         s # {} => step[<<t, Max(s)>>] = Take(t, list[Max(s)])
  <2> SUFFICES ASSUME NEW s \in SUBSET (1 .. N), NEW t \in A, s # {}
               PROVE  step[<<t, Max(s)>>] = Take(t, list[Max(s)])
    OBVIOUS
  <2>1. s \subseteq 0 .. N
    OBVIOUS
  <2>2. Max(s) \in 1 .. N
    BY <1>0, <2>1, GreatestNumber
  <2>3. QED BY <2>2
<1>3. PICK g \in [SUBSET (1 .. N) -> A] : FoldTable(g, N, {}, step)
  <2> HIDE DEF step, A
  <2>1. QED BY <1>0, <1>1, FoldTableExists
<1>4. Equation(g)
  <2> HIDE DEF step
  <2>1. QED BY <1>0, <1>2, <1>3 DEF FoldTable
<1>5. Equation(table)
  BY <1>4
<1>6. FoldLeft(Take, {}, list) = table[1 .. N]
  BY <1>0 DEF FoldLeft, MapThenFoldSet
<1> HIDE DEF table, step
<1>7. RunsThrough(table, A, N, {}, step)
  BY <1>0, <1>1, <1>2, <1>5 DEF RunsThrough
<1>8. PICK f : IsLoop(f, A, N, {}, step) /\ f[N] = table[1 .. N]
  BY <1>7, LoopOfTable
<1>9. ASSUME NEW k \in 1 .. N PROVE f[k] = Take(f[k - 1], list[k])
  <2>1. k - 1 \in 0 .. N /\ f[k - 1] \in A
    BY <1>0, <1>8 DEF IsLoop
  <2>2. QED BY <1>8, <2>1 DEF step, IsLoop
<1>10. f \in [0 .. N -> A] /\ f[0] = {}
  BY <1>8 DEF IsLoop
<1>11. QED BY <1>6, <1>8, <1>9, <1>10


\* After k candidates: those that were taken share no end, and each candidate so far
\* was taken or shares an end with an earlier one that was.
Matching(matches, list, k) ==
    /\ \A m \in matches : \E j \in 1 .. k : m = list[j]
    /\ \A m, o \in matches : m[1] = o[1] \/ m[2] = o[2] => m = o
    /\ \A i \in 1 .. k : \E m \in matches, j \in 1 .. i :
          m = list[j] /\ (m[1] = list[i][1] \/ m[2] = list[i][2])

LEMMA TakeMatches ==
    ASSUME NEW list, NEW k \in Nat, NEW matches, Matching(matches, list, k)
    PROVE  Matching(Take(matches, list[k + 1]), list, k + 1)
<1> DEFINE pair == list[k + 1]
           taken == Take(matches, pair)
<1>0. /\ \A i \in 1 .. k + 1 : i \in 1 .. k \/ i = k + 1
      /\ \A i \in 1 .. k : i \in 1 .. k + 1
      /\ k + 1 \in 1 .. k + 1
  OBVIOUS
<1>1. CASE \E m \in matches : m[1] = pair[1] \/ m[2] = pair[2]
  <2>1. taken = matches
    BY <1>1 DEF Take
  <2>2. PICK m \in matches : m[1] = pair[1] \/ m[2] = pair[2]
    BY <1>1
  <2>3. PICK j \in 1 .. k : m = list[j]
    BY DEF Matching
  <2>4. Matching(matches, list, k + 1)
    BY <1>0, <2>2, <2>3 DEF Matching
  <2>5. QED BY <2>1, <2>4
<1>2. CASE ~\E m \in matches : m[1] = pair[1] \/ m[2] = pair[2]
  <2>1. taken = matches \cup {pair}
    BY <1>2 DEF Take
  <2>2. \A m \in taken : \E j \in 1 .. k + 1 : m = list[j]
    BY <1>0, <2>1 DEF Matching
  <2>3. \A m, o \in taken : m[1] = o[1] \/ m[2] = o[2] => m = o
    BY <1>2, <2>1 DEF Matching
  <2>4. ASSUME NEW i \in 1 .. k + 1
        PROVE  \E m \in taken, j \in 1 .. i :
                  m = list[j] /\ (m[1] = list[i][1] \/ m[2] = list[i][2])
    <3>1. CASE i = k + 1
      <4>1. pair \in taken /\ k + 1 \in 1 .. i /\ pair = list[i]
        BY <1>0, <2>1, <3>1
      <4>2. QED BY <3>1, <4>1
    <3>2. CASE i \in 1 .. k
      BY <2>1, <3>2 DEF Matching
    <3>3. QED BY <1>0, <3>1, <3>2
  <2>5. QED BY <2>2, <2>3, <2>4 DEF Matching
<1>3. QED BY <1>1, <1>2

LEMMA MatchesTaken ==
    ASSUME NEW C, NEW list \in Seq(C)
    PROVE  /\ FoldLeft(Take, {}, list) \subseteq C
           /\ Matching(FoldLeft(Take, {}, list), list, Len(list))
<1> DEFINE N == Len(list)
<1>1. N \in Nat
  BY LenProperties
<1>2. PICK f \in [0 .. N -> SUBSET C] :
         /\ f[0] = {}
         /\ \A k \in 1 .. N : f[k] = Take(f[k - 1], list[k])
         /\ FoldLeft(Take, {}, list) = f[N]
  BY TakeLoop
<1> HIDE DEF N
<1> DEFINE P == {k \in 0 .. N : Matching(f[k], list, k)}
<1>3. 0 \in P
  <2>1. Matching({}, list, 0)
    BY DEF Matching
  <2>2. QED BY <1>1, <1>2, <2>1
<1>4. ASSUME NEW k \in 0 .. N - 1, k \in P PROVE k + 1 \in P
  <2>1. k \in Nat /\ k + 1 \in 1 .. N /\ k + 1 \in 0 .. N /\ (k + 1) - 1 = k
    BY <1>1
  <2>2. Matching(f[k], list, k)
    BY <1>4
  <2>3. Matching(Take(f[k], list[k + 1]), list, k + 1)
    BY <2>1, <2>2, TakeMatches
  <2>4. f[k + 1] = Take(f[k], list[k + 1])
    BY <1>2, <2>1
  <2>5. QED BY <2>1, <2>3, <2>4
<1>5. 0 .. N \subseteq P
  <2> HIDE DEF P
  <2>1. QED BY <1>1, <1>3, <1>4, CountsUp
<1>6. N \in 0 .. N
  BY <1>1
<1>7. f[N] \subseteq C /\ Matching(f[N], list, N)
  BY <1>5, <1>6
<1>8. QED BY <1>2, <1>7 DEF N

\* What _match_detections promises: no detection and no track has two partners, and
\* of a pair that fits one has a partner that fits no worse.
Stable(matches, tracks, detections) ==
    /\ matches \subseteq Candidates(tracks, detections)
    /\ \A m, o \in matches : m[1] = o[1] \/ m[2] = o[2] => m = o
    /\ \A pair \in Candidates(tracks, detections) :
          \E m \in matches :
             /\ m[1] = pair[1] \/ m[2] = pair[2]
             /\ ~IouLess(Overlap(tracks, detections, m), Overlap(tracks, detections, pair))

LEMMA MatchesAreStable ==
    ASSUME NEW tracks, NEW top \in Nat, TracksOK(tracks, top), top <= MaxTrackId + 1,
           NEW detections \in Seq(DetectionsOf(Device))
    PROVE  Stable(MatchDetections(tracks, detections), tracks, detections)
<1> DEFINE C == Candidates(tracks, detections)
           R == PreferenceOrder(tracks, detections)
           o(p) == Overlap(tracks, detections, p)
           better(p, q) == Preferred(tracks, detections, p, q)
           list == [k \in 1 .. Cardinality(C) |->
                      CHOOSE p \in C : Cardinality({q \in C : better(q, p)}) = k - 1]
           matches == MatchDetections(tracks, detections)
<1>1. IsFiniteSet(C) /\ \A p \in C : o(p) \in Fractions
  BY CandidatesType
<1>2. StrictOrder(R, C)
  BY PreferenceIsStrict
<1>3. \A p \in C : {q \in C : better(q, p)} = Below(C, R, p)
  BY DEF Below, PreferenceOrder
<1>4. matches = FoldLeft(Take, {}, Listed(list))
  BY DEF MatchDetections, Sorted
<1>5. \A p, q \in C : <<p, q>> \in R => ~IouLess(o(p), o(q))
  <2>1. \A p, q \in C : <<p, q>> \in R => IouLess(o(q), o(p)) \/ ~IouLess(o(p), o(q))
    BY DEF PreferenceOrder, Preferred
  <2> HIDE DEF o, C, R
  <2>2. QED BY <1>1, <2>1, IouLessIsWeakOrder
<1>6. \A p \in C : ~IouLess(o(p), o(p))
  <2> HIDE DEF o, C, R
  <2>1. QED BY <1>1, IouLessIsWeakOrder
<1> HIDE DEF C, R, o, better, matches
<1>7. Ranked(list, C, R)
  <2>1. (\A k \in 1 .. Cardinality(C) : list[k] \in C) => list \in [1 .. Cardinality(C) -> C]
    OBVIOUS
  <2>2. ASSUME NEW k \in 1 .. Cardinality(C), NEW p \in C,
               Cardinality(Below(C, R, p)) = k - 1
        PROVE  list[k] \in C /\ Cardinality(Below(C, R, list[k])) = k - 1
    <3>1. \E z \in C : Cardinality({q \in C : better(q, z)}) = k - 1
      BY <1>3, <2>2
    <3>2. list[k] = CHOOSE z \in C : Cardinality({q \in C : better(q, z)}) = k - 1
      OBVIOUS
    <3>3. list[k] \in C /\ Cardinality({q \in C : better(q, list[k])}) = k - 1
      <4> HIDE DEF list
      <4>1. QED BY <3>1, <3>2, Zenon
    <3>4. QED BY <1>3, <3>3
  <2>3. QED
    <3> HIDE DEF list
    <3>1. QED BY <2>1, <2>2 DEF Ranked
<1> HIDE DEF list
<1>8. InOrder(list, C, R)
  BY <1>1, <1>2, <1>7, SortedInOrder
<1> DEFINE n == Len(list)
<1>9. /\ list \in Seq(C) /\ Listed(list) = list /\ n \in Nat
      /\ \A k \in 1 .. n : list[k] \in C
  BY <1>8, ConcatEmptySeq DEF InOrder, Listed
<1>10. matches \subseteq C /\ Matching(matches, list, n)
  BY <1>4, <1>9, MatchesTaken
<1>11. ASSUME NEW pair \in C
       PROVE  \E m \in matches : /\ m[1] = pair[1] \/ m[2] = pair[2]
                                 /\ ~IouLess(o(m), o(pair))
  <2>1. PICK i \in 1 .. n : list[i] = pair
    BY <1>8 DEF InOrder
  <2>2. PICK m \in matches, j \in 1 .. i :
           m = list[j] /\ (m[1] = pair[1] \/ m[2] = pair[2])
    BY <1>10, <2>1 DEF Matching
  <2>3. j \in 1 .. n /\ (j < i \/ j = i)
    BY <1>9
  <2>4. j < i => <<m, pair>> \in R
    BY <1>8, <2>1, <2>2, <2>3 DEF InOrder
  <2>5. j = i => m = pair
    BY <2>1, <2>2
  <2>6. ~IouLess(o(m), o(pair))
    BY <1>5, <1>6, <1>10, <2>3, <2>4, <2>5
  <2>7. QED BY <2>2, <2>6
<1>12. \A m, q \in matches : m[1] = q[1] \/ m[2] = q[2] => m = q
  BY <1>10 DEF Matching
<1>13. QED BY <1>10, <1>11, <1>12 DEF Stable, C, o, matches

-----------------------------------------------------------------------------
(* Identities *)

\* The unmatched detections up to the i-th are no more than i.
LEMMA UnmatchedCount ==
    ASSUME NEW matches, NEW i \in Nat
    PROVE  /\ IsFiniteSet(Unmatched(matches, i))
           /\ Cardinality(Unmatched(matches, i)) \in 0 .. i
<1>1. IsFiniteSet(1 .. i) /\ Cardinality(1 .. i) = i
  BY FirstNumbers
<1>2. Unmatched(matches, i) \subseteq 1 .. i
  BY DEF Unmatched
<1>3. /\ IsFiniteSet(Unmatched(matches, i))
      /\ Cardinality(Unmatched(matches, i)) <= Cardinality(1 .. i)
  BY <1>1, <1>2, FS_Subset
<1>4. Cardinality(Unmatched(matches, i)) \in Nat
  BY <1>3, FS_CardinalityType
<1>5. QED BY <1>1, <1>3, <1>4

LEMMA UnmatchedGrows ==
    ASSUME NEW matches, NEW i \in Nat, NEW j \in Nat, i <= j
    PROVE  /\ Unmatched(matches, i) \subseteq Unmatched(matches, j)
           /\ Cardinality(Unmatched(matches, i)) <= Cardinality(Unmatched(matches, j))
           /\ i < j /\ j \in Unmatched(matches, j)
                => Cardinality(Unmatched(matches, i)) < Cardinality(Unmatched(matches, j))
<1>1. Unmatched(matches, i) \subseteq Unmatched(matches, j)
  BY DEF Unmatched
<1>2. /\ IsFiniteSet(Unmatched(matches, i)) /\ IsFiniteSet(Unmatched(matches, j))
      /\ Cardinality(Unmatched(matches, i)) \in Nat
      /\ Cardinality(Unmatched(matches, j)) \in Nat
  BY UnmatchedCount
<1>3. Cardinality(Unmatched(matches, i)) <= Cardinality(Unmatched(matches, j))
  BY <1>1, <1>2, FS_Subset
<1>4. ASSUME i < j, j \in Unmatched(matches, j)
      PROVE  Cardinality(Unmatched(matches, i)) < Cardinality(Unmatched(matches, j))
  <2>1. j \notin Unmatched(matches, i)
    BY <1>4 DEF Unmatched
  <2>2. Unmatched(matches, i) \cup {j} \subseteq Unmatched(matches, j)
    BY <1>1, <1>4
  <2>3. Cardinality(Unmatched(matches, i) \cup {j}) = Cardinality(Unmatched(matches, i)) + 1
    BY <1>2, <2>1, FS_AddElement
  <2>4. Cardinality(Unmatched(matches, i) \cup {j}) <= Cardinality(Unmatched(matches, j))
    BY <1>2, <2>2, FS_Subset
  <2>5. QED BY <1>2, <2>3, <2>4
<1>5. QED BY <1>1, <1>3, <1>4

\* What the detections are called: as the track that they are matched with, and
\* otherwise as nothing before, each in its own way.
Named(names, t, matches, n) ==
    /\ \A i \in 1 .. n : names[i] \in 1 .. t.next + Cardinality(Unmatched(matches, n)) - 1
    /\ \A i \in 1 .. n, id \in DOMAIN t.tracks : names[i] = id <=> <<i, id>> \in matches
    /\ \A i \in 1 .. n : names[i] \in DOMAIN t.tracks \/ names[i] >= t.next
    /\ \A i, j \in 1 .. n : names[i] = names[j] => i = j

LEMMA IdentitiesNamed ==
    ASSUME NEW t, TrackerOK(t), NEW detections \in Seq(DetectionsOf(Device)),
           NEW matches, Stable(matches, t.tracks, detections),
           NEW names, \A i \in 1 .. Len(detections) : names[i] = IdentityOf(t, matches, i)
    PROVE  Named(names, t, matches, Len(detections))
<1> DEFINE n == Len(detections)
           C == Candidates(t.tracks, detections)
<1>1. n \in Nat /\ DOMAIN detections = 1 .. n
  BY LenProperties
<1>2. /\ TracksOK(t.tracks, t.next) /\ t.next \in Nat \ {0} /\ t.next <= MaxTrackId + 1
      /\ DOMAIN t.tracks \subseteq 1 .. t.next - 1
  BY DEF TrackerOK, TracksOK
<1>3. \A p \in C : p = <<p[1], p[2]>> /\ p[1] \in DOMAIN detections /\ p[2] \in DOMAIN t.tracks
  BY <1>2, CandidatesType
<1>4. matches \subseteq C /\ \A m, o \in matches : m[1] = o[1] \/ m[2] = o[2] => m = o
  BY DEF Stable
<1> HIDE DEF C, n
<1>5. ASSUME NEW i \in 1 .. n, i \notin Unmatched(matches, i)
      PROVE  names[i] \in DOMAIN t.tracks /\ <<i, names[i]>> \in matches
  <2>1. \E m \in matches : m[1] = i
    BY <1>1, <1>5 DEF Unmatched
  <2>2. names[i] = (CHOOSE m \in matches : m[1] = i)[2]
    BY <1>5 DEF IdentityOf, n
  <2> DEFINE m == CHOOSE m \in matches : m[1] = i
  <2>3. m \in matches /\ m[1] = i
    BY <2>1
  <2>4. names[i] = m[2]
    BY <2>2
  <2> HIDE DEF m
  <2>5. QED BY <1>3, <1>4, <2>3, <2>4
<1>6. ASSUME NEW i \in 1 .. n, i \in Unmatched(matches, i)
      PROVE  /\ names[i] = t.next + Cardinality(Unmatched(matches, i)) - 1
             /\ Cardinality(Unmatched(matches, i)) \in Nat \ {0}
             /\ names[i] >= t.next /\ names[i] \notin DOMAIN t.tracks
             /\ \A id : <<i, id>> \notin matches
  <2>1. names[i] = t.next + Cardinality(Unmatched(matches, i)) - 1
    BY <1>6 DEF IdentityOf, FirstNew, n
  <2>2. /\ i \in Nat /\ i - 1 \in Nat /\ (i - 1) + 1 = i
        /\ i - 1 <= i /\ i - 1 < i
    BY <1>1
  <2>3. /\ Cardinality(Unmatched(matches, i - 1)) < Cardinality(Unmatched(matches, i))
        /\ Cardinality(Unmatched(matches, i - 1)) \in Nat
        /\ Cardinality(Unmatched(matches, i)) \in Nat
    BY <1>6, <2>2, UnmatchedGrows, UnmatchedCount
  <2>4. Cardinality(Unmatched(matches, i)) \in Nat \ {0}
    BY <2>3
  <2>5. names[i] >= t.next /\ names[i] \notin DOMAIN t.tracks
    BY <1>2, <2>1, <2>4
  <2>6. \A id : <<i, id>> \notin matches
    BY <1>6 DEF Unmatched
  <2>7. QED BY <2>1, <2>4, <2>5, <2>6
<1>7. ASSUME NEW i \in 1 .. n
      PROVE  names[i] \in 1 .. t.next + Cardinality(Unmatched(matches, n)) - 1
  <2>1. /\ i \in Nat /\ i <= n
        /\ Cardinality(Unmatched(matches, i)) <= Cardinality(Unmatched(matches, n))
        /\ Cardinality(Unmatched(matches, n)) \in Nat
        /\ Cardinality(Unmatched(matches, i)) \in Nat
    BY <1>1, UnmatchedGrows, UnmatchedCount
  <2>2. CASE i \in Unmatched(matches, i)
    BY <1>2, <1>6, <2>1, <2>2
  <2>3. CASE i \notin Unmatched(matches, i)
    <3>1. names[i] \in 1 .. t.next - 1
      BY <1>2, <1>5, <2>3
    <3>2. QED BY <1>2, <2>1, <3>1
  <2>4. QED BY <2>2, <2>3
<1>8. ASSUME NEW i \in 1 .. n, NEW id \in DOMAIN t.tracks
      PROVE  names[i] = id <=> <<i, id>> \in matches
  <2>1. CASE i \in Unmatched(matches, i)
    BY <1>6, <2>1
  <2>2. CASE i \notin Unmatched(matches, i)
    <3>1. <<i, names[i]>> \in matches
      BY <1>5, <2>2
    <3>2. <<i, id>> \in matches => <<i, id>> = <<i, names[i]>>
      BY <1>4, <3>1
    <3>3. QED BY <3>1, <3>2
  <2>3. QED BY <2>1, <2>2
<1>9. \A i \in 1 .. n : names[i] \in DOMAIN t.tracks \/ names[i] >= t.next
  BY <1>5, <1>6
<1>10. ASSUME NEW i \in 1 .. n, NEW j \in 1 .. n, i < j PROVE names[i] # names[j]
  <2>1. CASE i \notin Unmatched(matches, i) /\ j \notin Unmatched(matches, j)
    <3>1. ASSUME names[i] = names[j] PROVE FALSE
      <4>1. <<i, names[i]>> = <<j, names[j]>>
        BY <1>4, <1>5, <2>1, <3>1
      <4>2. QED BY <1>1, <1>10, <4>1
    <3>2. QED BY <3>1
  <2>2. CASE i \in Unmatched(matches, i) /\ j \notin Unmatched(matches, j)
    BY <1>5, <1>6, <2>2
  <2>3. CASE i \notin Unmatched(matches, i) /\ j \in Unmatched(matches, j)
    BY <1>5, <1>6, <2>3
  <2>4. CASE i \in Unmatched(matches, i) /\ j \in Unmatched(matches, j)
    <3>1. /\ i \in Nat /\ j \in Nat /\ i <= j
          /\ Cardinality(Unmatched(matches, i)) < Cardinality(Unmatched(matches, j))
      BY <1>1, <1>10, <2>4, UnmatchedGrows
    <3>2. QED BY <1>2, <1>6, <2>4, <3>1
  <2>5. QED BY <2>1, <2>2, <2>3, <2>4
<1>11. \A i, j \in 1 .. n : names[i] = names[j] => i = j
  <2> SUFFICES ASSUME NEW i \in 1 .. n, NEW j \in 1 .. n, names[i] = names[j]
               PROVE  i = j
    OBVIOUS
  <2>1. ~(i < j) /\ ~(j < i)
    BY <1>10
  <2>2. QED BY <1>1, <2>1
<1>12. QED BY <1>7, <1>8, <1>9, <1>11 DEF Named, n

-----------------------------------------------------------------------------
(* The update with detections *)

LEMMA StateFromType ==
    ASSUME NEW detection \in DetectionsOf(Device), NEW id \in Nat,
           NEW course \in Velocities, NEW timestamp \in Int
    PROVE  /\ StateFrom(detection, id, course, timestamp) \in States
           /\ StateFrom(detection, id, course, timestamp).id = id
           /\ StateFrom(detection, id, course, timestamp).timestamp = timestamp
           /\ StateFrom(detection, id, course, timestamp).class = detection.class
<1>1. /\ detection.device = Device /\ detection.box \in Box /\ detection.class \in STRING
      /\ detection.pixel \in Place /\ detection.world \in {NoWorld} \cup Place
  BY DEF DetectionsOf
<1>2. QED BY <1>1 DEF StateFrom, States

LEMMA StillType == Still \in Velocities
BY DEF Still, Velocities

LEMMA VelocityType ==
    ASSUME NEW previous \in States, NEW detection \in DetectionsOf(Device),
           NEW timestamp \in Int
    PROVE  VelocityFrom(previous, detection, timestamp) \in Velocities
<1>1. previous.timestamp \in Int /\ previous.pixel \in Place
      /\ previous.world \in {NoWorld} \cup Place
  BY DEF States
<1>2. detection.pixel \in Place /\ detection.world \in {NoWorld} \cup Place
  BY DEF DetectionsOf
<1>3. \A place \in Place : place[1] \in Int /\ place[2] \in Int
  BY DEF Place
<1>4. ASSUME NEW old \in Place, NEW new \in Place, NEW dt \in Int, dt > 0
      PROVE  [dx |-> new[1] - old[1], dy |-> new[2] - old[2], dt |-> dt] \in Velocities
  BY <1>3, <1>4 DEF Velocities
<1> DEFINE dt == timestamp - previous.timestamp
           world == previous.world # NoWorld /\ detection.world # NoWorld
           old == IF world THEN previous.world ELSE previous.pixel
           new == IF world THEN detection.world ELSE detection.pixel
<1>5. old \in Place /\ new \in Place /\ dt \in Int
  BY <1>1, <1>2
<1>6. VelocityFrom(previous, detection, timestamp)
        = IF dt <= 0 THEN Still
          ELSE [dx |-> new[1] - old[1], dy |-> new[2] - old[2], dt |-> dt]
  BY DEF VelocityFrom
<1> HIDE DEF dt, world, old, new
<1>7. CASE dt <= 0
  BY <1>6, <1>7, StillType
<1>8. CASE dt > 0
  BY <1>4, <1>5, <1>6, <1>8
<1>9. QED BY <1>5, <1>7, <1>8

LEMMA AssociatedType ==
    ASSUME NEW tracks, NEW top, TracksOK(tracks, top), NEW id \in Nat,
           NEW detection \in DetectionsOf(Device), NEW timestamp \in Int
    PROVE  /\ Associated(tracks, detection, id, timestamp) \in States
           /\ Associated(tracks, detection, id, timestamp).id = id
           /\ Associated(tracks, detection, id, timestamp).timestamp = timestamp
           /\ Associated(tracks, detection, id, timestamp).class = detection.class
<1> DEFINE course == IF id \in DOMAIN tracks
                       THEN VelocityFrom(tracks[id].state, detection, timestamp)
                       ELSE Still
<1>1. id \in DOMAIN tracks => tracks[id] \in ActiveTracks
  BY DEF TracksOK
<1>2. id \in DOMAIN tracks => tracks[id].state \in States
  BY <1>1 DEF ActiveTracks
<1>3. course \in Velocities
  BY <1>2, VelocityType, StillType
<1>4. Associated(tracks, detection, id, timestamp) = StateFrom(detection, id, course, timestamp)
  BY DEF Associated
<1> HIDE DEF course
<1>5. QED BY <1>3, <1>4, StateFromType

\* States of different targets at one time.
StatesAt(states, timestamp) ==
    /\ states \in Seq(States)
    /\ \A k \in DOMAIN states : states[k].timestamp = timestamp
    /\ \A j, k \in DOMAIN states : states[j].id = states[k].id => j = k

LEMMA SeenTracks ==
    ASSUME NEW states, NEW timestamp, StatesAt(states, timestamp)
    PROVE  /\ DOMAIN Seen(states) = {states[k].id : k \in DOMAIN states}
           /\ \A k \in DOMAIN states : Seen(states)[states[k].id] = Active(states[k], 0)
<1>1. ASSUME NEW k \in DOMAIN states
      PROVE  Seen(states)[states[k].id] = Active(states[k], 0)
  <2> DEFINE j == CHOOSE j \in DOMAIN states : states[j].id = states[k].id
  <2>1. j \in DOMAIN states /\ states[j].id = states[k].id
    OBVIOUS
  <2>2. Seen(states)[states[k].id] = Active(states[j], 0)
    BY DEF Seen
  <2> HIDE DEF j
  <2>3. j = k
    BY <2>1 DEF StatesAt
  <2>4. QED BY <2>2, <2>3
<1>2. QED BY <1>1 DEF Seen

LEMMA AgedTracks ==
    ASSUME NEW tracks, NEW top, TracksOK(tracks, top), NEW ids, ids \subseteq DOMAIN tracks
    PROVE  /\ DOMAIN Aged(tracks, ids)
                = {id \in DOMAIN tracks : id \in ids => tracks[id].missed + 1 <= MaxMissed}
           /\ \A id \in DOMAIN Aged(tracks, ids) :
                 Aged(tracks, ids)[id]
                   = IF id \in ids THEN Active(tracks[id].state, tracks[id].missed + 1)
                     ELSE tracks[id]
           /\ \A id \in DOMAIN Aged(tracks, ids) : Aged(tracks, ids)[id] \in ActiveTracks
<1>1. \A id \in DOMAIN tracks : tracks[id] \in ActiveTracks
  BY DEF TracksOK
<1>2. MaxMissed \in Nat
  BY TrackerAssumption
<1>3. \A id \in DOMAIN tracks : /\ tracks[id].missed \in 0 .. MaxMissed
                                /\ tracks[id].state \in States
  BY <1>1 DEF ActiveTracks
<1>4. \A id \in DOMAIN tracks :
         tracks[id].missed + 1 > MaxMissed <=> ~(tracks[id].missed + 1 <= MaxMissed)
  BY <1>2, <1>3
<1>5. DOMAIN Aged(tracks, ids)
        = {id \in DOMAIN tracks : id \in ids => tracks[id].missed + 1 <= MaxMissed}
  BY <1>4 DEF Aged
<1>6. \A id \in DOMAIN Aged(tracks, ids) :
         Aged(tracks, ids)[id]
           = IF id \in ids THEN Active(tracks[id].state, tracks[id].missed + 1)
             ELSE tracks[id]
  BY DEF Aged
<1>7. ASSUME NEW id \in DOMAIN Aged(tracks, ids)
      PROVE  Aged(tracks, ids)[id] \in ActiveTracks
  <2>1. id \in DOMAIN tracks /\ (id \in ids => tracks[id].missed + 1 \in 0 .. MaxMissed)
    BY <1>2, <1>3, <1>5
  <2>2. id \in ids => Active(tracks[id].state, tracks[id].missed + 1) \in ActiveTracks
    BY <1>3, <2>1 DEF Active, ActiveTracks
  <2>3. QED BY <1>1, <1>6, <2>1, <2>2
<1>8. QED BY <1>5, <1>6, <1>7

\* What an update makes of the tracks: new ones under new names, the others with
\* the target that they had, and each state that it hands over is one of theirs.
Follows(u, t, timestamp) ==
    /\ u.tracker.fallback = t.fallback
    /\ u.tracker.next \in Nat /\ t.next <= u.tracker.next
    /\ TracksOK(u.tracker.tracks, u.tracker.next)
    /\ \A id \in DOMAIN u.tracker.tracks : id \in DOMAIN t.tracks \/ id >= t.next
    /\ \A id \in (DOMAIN u.tracker.tracks) \cap DOMAIN t.tracks :
          u.tracker.tracks[id].state.class = t.tracks[id].state.class
    /\ StatesAt(u.states, timestamp)
    /\ \A k \in DOMAIN u.states :
          /\ u.states[k].id \in DOMAIN u.tracker.tracks
          /\ u.states[k].class = u.tracker.tracks[u.states[k].id].state.class

\* The frames that a track was missing from are counted, and it is dropped when
\* there are too many.
Counts(u, t, detections) ==
    /\ \A id \in DOMAIN t.tracks :
          id \notin DOMAIN u.tracker.tracks => t.tracks[id].missed + 1 > MaxMissed
    /\ detections # <<>> =>
          /\ ~u.raised
          /\ \A id \in DOMAIN u.tracker.tracks :
                \/ /\ \E k \in DOMAIN u.states : u.states[k].id = id
                   /\ u.tracker.tracks[id].missed = 0
                \/ /\ ~\E k \in DOMAIN u.states : u.states[k].id = id
                   /\ id \in DOMAIN t.tracks
                   /\ u.tracker.tracks[id].missed = t.tracks[id].missed + 1
    /\ detections = <<>> =>
          \A id \in DOMAIN u.tracker.tracks :
             /\ id \in DOMAIN t.tracks
             /\ \/ u.tracker.tracks[id].missed = t.tracks[id].missed + 1
                \/ u.raised /\ u.tracker.tracks[id].missed = t.tracks[id].missed

\* NoBlockingPair, of the result of an update.
NoneBlocks(states, tracks, detections) ==
    \A pair \in Candidates(tracks, detections) :
       \E other \in Candidates(tracks, detections) :
          /\ other[1] = pair[1] \/ other[2] = pair[2]
          /\ states[other[1]].id = other[2]
          /\ ~IouLess(Overlap(tracks, detections, other), Overlap(tracks, detections, pair))

LEMMA AssociateSound ==
    ASSUME NEW t, TrackerOK(t), NEW detections \in Seq(DetectionsOf(Device)),
           NEW timestamp \in Int
    PROVE  LET u == Associate(t, detections, timestamp)
           IN /\ u.raised = FALSE
              /\ Follows(u, t, timestamp)
              /\ u.tracker.next <= t.next + Len(detections)
              /\ Len(u.states) = Len(detections)
              /\ NoneBlocks(u.states, t.tracks, detections)
              /\ detections # <<>> => Counts(u, t, detections)
<1> DEFINE n == Len(detections)
           tracks == t.tracks
           matches == MatchDetections(tracks, detections)
           names == [i \in 1 .. n |-> IdentityOf(t, matches, i)]
           states == [i \in 1 .. n |-> Associated(tracks, detections[i], names[i], timestamp)]
           unseen == {id \in DOMAIN tracks : \A m \in matches : m[2] # id}
           top == t.next + Cardinality(Unmatched(matches, n))
           kept == Over(Seen(states), Aged(tracks, unseen))
           u == Associate(t, detections, timestamp)
<1>1. /\ n \in Nat /\ DOMAIN detections = 1 .. n
      /\ \A i \in 1 .. n : detections[i] \in DetectionsOf(Device)
  BY LenProperties, ElementOfSeq
<1>2. /\ TracksOK(tracks, t.next) /\ t.next \in Nat \ {0} /\ t.next <= MaxTrackId + 1
      /\ tracks \in [DOMAIN tracks -> ActiveTracks] /\ DOMAIN tracks \subseteq 1 .. t.next - 1
      /\ \A id \in DOMAIN tracks : tracks[id].state.id = id
  BY DEF TrackerOK, TracksOK
<1>3. u = [tracker |-> [tracks |-> Over(Seen(Listed(states)), Aged(tracks, unseen)),
                        next |-> top, fallback |-> t.fallback],
           states |-> Listed(states), raised |-> FALSE]
  BY <1>1 DEF Associate, FirstNew
<1> HIDE DEF n, tracks, matches
<1>4. Stable(matches, tracks, detections)
  BY <1>2, MatchesAreStable DEF matches
<1>5. Named(names, t, matches, n)
  BY <1>4, IdentitiesNamed DEF tracks, n
<1>6. Cardinality(Unmatched(matches, n)) \in 0 .. n
  BY <1>1, UnmatchedCount
<1>7. top \in Nat \ {0} /\ t.next <= top /\ top <= t.next + n
  BY <1>1, <1>2, <1>6
<1> HIDE DEF names
<1>8. ASSUME NEW i \in 1 .. n PROVE names[i] \in 1 .. top - 1 /\ names[i] \in Nat
  <2>1. names[i] \in 1 .. top - 1
    <3>1. names[i] \in 1 .. t.next + Cardinality(Unmatched(matches, n)) - 1
      BY <1>5 DEF Named
    <3>2. top - 1 = t.next + Cardinality(Unmatched(matches, n)) - 1
      BY <1>2, <1>6
    <3>3. QED BY <3>1, <3>2
  <2>2. QED BY <1>7, <2>1
<1> HIDE DEF top
<1>9. \A i \in 1 .. n : /\ states[i] \in States /\ states[i].id = names[i]
                        /\ states[i].timestamp = timestamp
                        /\ states[i].class = detections[i].class
  BY <1>1, <1>2, <1>8, AssociatedType
<1>10. /\ Listed(states) = states /\ states \in Seq(States)
       /\ Len(states) = n /\ DOMAIN states = 1 .. n
  <2>1. states \in [1 .. n -> States]
    BY <1>9
  <2> HIDE DEF states
  <2>2. QED BY <1>1, <2>1, ListedIsSame
<1> HIDE DEF states, unseen
<1>11. /\ u.tracker.tracks = kept /\ u.tracker.next = top /\ u.tracker.fallback = t.fallback
       /\ u.states = states /\ u.raised = FALSE
  BY <1>3, <1>10
<1> HIDE DEF u
<1>12. StatesAt(states, timestamp)
  BY <1>5, <1>9, <1>10 DEF StatesAt, Named
<1>13. /\ DOMAIN Seen(states) = {names[k] : k \in 1 .. n}
       /\ \A k \in 1 .. n : Seen(states)[names[k]] = Active(states[k], 0)
  <2>1. /\ DOMAIN Seen(states) = {states[k].id : k \in 1 .. n}
        /\ \A k \in 1 .. n : Seen(states)[states[k].id] = Active(states[k], 0)
    BY <1>10, <1>12, SeenTracks
  <2>2. {states[k].id : k \in 1 .. n} = {names[k] : k \in 1 .. n}
    BY <1>9
  <2>3. QED BY <1>9, <2>1, <2>2
<1>14. unseen \subseteq DOMAIN tracks
       /\ \A id \in DOMAIN tracks : id \in unseen <=> ~\E k \in 1 .. n : names[k] = id
  <2>1. \A m \in matches : m = <<m[1], m[2]>> /\ m[1] \in 1 .. n
    BY <1>1, <1>2, <1>4, CandidatesType DEF Stable
  <2>2. \A id \in DOMAIN tracks : id \in unseen <=> \A m \in matches : m[2] # id
    BY DEF unseen
  <2>3. ASSUME NEW id \in DOMAIN tracks
        PROVE  (\A m \in matches : m[2] # id) <=> ~\E k \in 1 .. n : names[k] = id
    <3>1. \A k \in 1 .. n : names[k] = id <=> <<k, id>> \in matches
      BY <1>5 DEF Named, tracks
    <3>2. QED BY <2>1, <3>1
  <2>4. QED BY <2>2, <2>3 DEF unseen
<1>15. /\ DOMAIN Aged(tracks, unseen)
            = {id \in DOMAIN tracks : id \in unseen => tracks[id].missed + 1 <= MaxMissed}
       /\ \A id \in DOMAIN Aged(tracks, unseen) :
             Aged(tracks, unseen)[id]
               = IF id \in unseen THEN Active(tracks[id].state, tracks[id].missed + 1)
                 ELSE tracks[id]
       /\ \A id \in DOMAIN Aged(tracks, unseen) : Aged(tracks, unseen)[id] \in ActiveTracks
  BY <1>2, <1>14, AgedTracks
<1>16. /\ DOMAIN kept = (DOMAIN Seen(states)) \cup DOMAIN Aged(tracks, unseen)
       /\ \A id \in DOMAIN Seen(states) : kept[id] = Seen(states)[id]
       /\ \A id \in (DOMAIN Aged(tracks, unseen)) \ DOMAIN Seen(states) :
             kept[id] = Aged(tracks, unseen)[id]
  BY DEF Over
<1>0. kept = [id \in DOMAIN kept |-> kept[id]]
  BY DEF Over
<1> HIDE DEF kept
\* A track has been seen or has aged.
<1>17. ASSUME NEW k \in 1 .. n
       PROVE  names[k] \in DOMAIN kept /\ kept[names[k]] = Active(states[k], 0)
  BY <1>13, <1>16
<1>18. ASSUME NEW id \in DOMAIN kept, ~\E k \in 1 .. n : names[k] = id
       PROVE  /\ id \in unseen /\ id \in DOMAIN tracks
              /\ kept[id] = Active(tracks[id].state, tracks[id].missed + 1)
              /\ kept[id] \in ActiveTracks
  BY <1>13, <1>14, <1>15, <1>16, <1>18
<1>19. TracksOK(kept, top)
  <2>1. ASSUME NEW id \in DOMAIN kept
        PROVE  kept[id] \in ActiveTracks /\ id \in 1 .. top - 1 /\ kept[id].state.id = id
    <3>1. CASE \E k \in 1 .. n : names[k] = id
      <4>1. PICK k \in 1 .. n : names[k] = id
        BY <3>1
      <4>2. kept[id] = Active(states[k], 0) /\ id \in 1 .. top - 1
        BY <1>8, <1>17, <4>1
      <4>3. Active(states[k], 0) \in ActiveTracks
        BY <1>9, TrackerAssumption DEF Active, ActiveTracks
      <4>4. kept[id].state = states[k]
        BY <4>2 DEF Active
      <4>5. QED BY <1>9, <4>1, <4>2, <4>3, <4>4
    <3>2. CASE ~\E k \in 1 .. n : names[k] = id
      <4>1. /\ id \in DOMAIN tracks /\ kept[id] \in ActiveTracks
            /\ kept[id] = Active(tracks[id].state, tracks[id].missed + 1)
        BY <1>18, <3>2
      <4>2. id \in 1 .. top - 1
        BY <1>2, <1>7, <4>1
      <4>3. QED BY <1>2, <4>1, <4>2 DEF Active
    <3>3. QED BY <3>1, <3>2
  <2>2. kept \in [DOMAIN kept -> ActiveTracks]
    BY <1>0, <2>1
  <2>3. QED BY <2>1, <2>2 DEF TracksOK
<1>20. \A id \in DOMAIN kept : id \in DOMAIN tracks \/ id >= t.next
  BY <1>5, <1>18 DEF Named, tracks
<1>21. ASSUME NEW id \in DOMAIN kept, id \in DOMAIN tracks
       PROVE  kept[id].state.class = tracks[id].state.class
  <2>1. CASE \E k \in 1 .. n : names[k] = id
    <3>1. PICK k \in 1 .. n : names[k] = id
      BY <2>1
    <3>2. <<k, id>> \in Candidates(tracks, detections)
      BY <1>4, <1>5, <1>21, <3>1 DEF Named, Stable, tracks
    <3>3. CanMatch(tracks[id].state, detections[k])
      BY <3>2 DEF Candidates
    <3>4. kept[id].state = states[k]
      <4>1. kept[id] = Active(states[k], 0)
        BY <1>17, <3>1
      <4>2. QED BY <4>1 DEF Active
    <3>5. QED BY <1>9, <3>3, <3>4 DEF CanMatch
  <2>2. CASE ~\E k \in 1 .. n : names[k] = id
    BY <1>18, <2>2 DEF Active
  <2>3. QED BY <2>1, <2>2
<1>22. \A k \in 1 .. n : /\ states[k].id \in DOMAIN kept
                         /\ states[k].class = kept[states[k].id].state.class
  <2> SUFFICES ASSUME NEW k \in 1 .. n
               PROVE  /\ states[k].id \in DOMAIN kept
                      /\ states[k].class = kept[states[k].id].state.class
    OBVIOUS
  <2>1. names[k] \in DOMAIN kept /\ kept[names[k]] = Active(states[k], 0)
    BY <1>17
  <2>2. kept[names[k]].state = states[k]
    BY <2>1 DEF Active
  <2>3. QED BY <1>9, <2>1, <2>2
<1>23. Follows(u, t, timestamp)
  BY <1>7, <1>10, <1>11, <1>12, <1>19, <1>20, <1>21, <1>22 DEF Follows, tracks
<1>24. ASSUME NEW id \in DOMAIN tracks, id \notin DOMAIN kept
       PROVE  tracks[id].missed + 1 > MaxMissed
  <2>1. id \notin DOMAIN Aged(tracks, unseen)
    BY <1>16, <1>24
  <2>2. ~(tracks[id].missed + 1 <= MaxMissed)
    BY <1>15, <2>1
  <2>3. tracks[id] \in ActiveTracks
    BY <1>2
  <2>4. tracks[id].missed \in Nat /\ MaxMissed \in Nat
    BY <2>3, TrackerAssumption DEF ActiveTracks
  <2>5. QED BY <2>2, <2>4
<1>25. ASSUME NEW id \in DOMAIN kept
       PROVE  \/ (\E k \in 1 .. n : states[k].id = id) /\ kept[id].missed = 0
              \/ /\ ~\E k \in 1 .. n : states[k].id = id
                 /\ id \in DOMAIN tracks /\ kept[id].missed = tracks[id].missed + 1
  <2>1. (\E k \in 1 .. n : names[k] = id) <=> (\E k \in 1 .. n : states[k].id = id)
    BY <1>9
  <2>2. CASE \E k \in 1 .. n : names[k] = id
    <3>1. PICK k \in 1 .. n : names[k] = id
      BY <2>2
    <3>2. kept[id] = Active(states[k], 0)
      BY <1>17, <3>1
    <3>3. kept[id].missed = 0
      BY <3>2 DEF Active
    <3>4. QED BY <2>1, <2>2, <3>3
  <2>3. CASE ~\E k \in 1 .. n : names[k] = id
    <3>1. /\ id \in DOMAIN tracks
          /\ kept[id] = Active(tracks[id].state, tracks[id].missed + 1)
      BY <1>18, <2>3
    <3>2. kept[id].missed = tracks[id].missed + 1
      BY <3>1 DEF Active
    <3>3. QED BY <2>1, <2>3, <3>1, <3>2
  <2>4. QED BY <2>2, <2>3
<1>26. detections # <<>> => Counts(u, t, detections)
  BY <1>10, <1>11, <1>24, <1>25 DEF Counts, tracks
<1>27. NoneBlocks(states, tracks, detections)
  <2> SUFFICES ASSUME NEW pair \in Candidates(tracks, detections)
               PROVE  \E other \in Candidates(tracks, detections) :
                         /\ other[1] = pair[1] \/ other[2] = pair[2]
                         /\ states[other[1]].id = other[2]
                         /\ ~IouLess(Overlap(tracks, detections, other),
                                     Overlap(tracks, detections, pair))
    BY DEF NoneBlocks
  <2>1. PICK m \in matches :
           /\ m[1] = pair[1] \/ m[2] = pair[2]
           /\ ~IouLess(Overlap(tracks, detections, m), Overlap(tracks, detections, pair))
    BY <1>4 DEF Stable
  <2>2. m \in Candidates(tracks, detections)
    BY <1>4 DEF Stable
  <2>3. m = <<m[1], m[2]>> /\ m[1] \in 1 .. n /\ m[2] \in DOMAIN tracks
    BY <1>1, <1>2, <2>2, CandidatesType
  <2>4. names[m[1]] = m[2]
    BY <1>5, <2>3 DEF Named, tracks
  <2>5. states[m[1]].id = m[2]
    BY <1>9, <2>3, <2>4
  <2>6. QED BY <2>1, <2>2, <2>5
<1>28. QED BY <1>7, <1>10, <1>11, <1>23, <1>26, <1>27 DEF u, n, tracks

-----------------------------------------------------------------------------
(* The update without detections *)

LEMMA MovedType ==
    ASSUME NEW state \in States, NEW timestamp \in Int
    PROVE  /\ Moved(state, timestamp) \in States
           /\ Moved(state, timestamp).id = state.id
           /\ Moved(state, timestamp).class = state.class
           /\ Moved(state, timestamp).timestamp = timestamp
<1> DEFINE dt == timestamp - state.timestamp
           dx == (state.velocity.dx * dt) \div state.velocity.dt
           dy == (state.velocity.dy * dt) \div state.velocity.dt
           at(p) == <<p[1] + dx, p[2] + dy>>
           moved == [state EXCEPT !.timestamp = timestamp,
                                  !.box = <<@[1] + dx, @[2] + dy, @[3] + dx, @[4] + dy>>,
                                  !.pixel = at(@),
                                  !.world = IF @ = NoWorld THEN NoWorld ELSE at(@)]
<1>1. /\ state.timestamp \in Int /\ state.box \in Box /\ state.pixel \in Place
      /\ state.world \in {NoWorld} \cup Place /\ state.velocity \in Velocities
  BY DEF States
<1>2. /\ state.velocity.dx \in Int /\ state.velocity.dy \in Int
      /\ state.velocity.dt \in Nat \ {0}
  BY <1>1 DEF Velocities
<1>3. \A a \in Int, b \in Nat \ {0} : a \div b \in Int
  OBVIOUS
<1>4. dt \in Int /\ state.velocity.dx * dt \in Int /\ state.velocity.dy * dt \in Int
  BY <1>1, <1>2
<1>5. dx \in Int /\ dy \in Int
  BY <1>2, <1>3, <1>4
<1>6. moved = Moved(state, timestamp)
  BY DEF Moved
<1> HIDE DEF dx, dy
<1>7. \A p \in Place : at(p) \in Place
  BY <1>5 DEF Place
<1>8. \A b \in Box : <<b[1] + dx, b[2] + dy, b[3] + dx, b[4] + dy>> \in Box
  BY <1>5 DEF Box
<1> HIDE DEF at
<1>9. (IF state.world = NoWorld THEN NoWorld ELSE at(state.world)) \in {NoWorld} \cup Place
  BY <1>1, <1>7
<1>10. moved \in States /\ moved.id = state.id /\ moved.class = state.class
       /\ moved.timestamp = timestamp
  BY <1>1, <1>7, <1>8, <1>9 DEF States
<1>11. QED BY <1>6, <1>10

\* What a frame without detections leaves of the tracks.
LEMMA AgedAndMovedTracks ==
    ASSUME NEW t, TrackerOK(t), NEW timestamp \in Int
    PROVE  LET tracks  == t.tracks
               reached == Reached(t, timestamp)
               after   == AgedAndMoved(t, timestamp)
           IN /\ TracksOK(after, t.next)
              /\ DOMAIN after = {id \in DOMAIN tracks :
                                   id \in reached => tracks[id].missed + 1 <= MaxMissed}
              /\ \A id \in DOMAIN after :
                    /\ after[id].state.class = tracks[id].state.class
                    /\ after[id].missed = IF id \in reached THEN tracks[id].missed + 1
                                          ELSE tracks[id].missed
                    /\ t.fallback /\ id \in reached => after[id].state.timestamp = timestamp
<1> DEFINE tracks  == t.tracks
           reached == Reached(t, timestamp)
           aged    == Aged(tracks, reached)
           after   == AgedAndMoved(t, timestamp)
<1>1. /\ TracksOK(tracks, t.next) /\ DOMAIN tracks \subseteq 1 .. t.next - 1
      /\ \A id \in DOMAIN tracks : tracks[id].state.id = id
  BY DEF TrackerOK, TracksOK
<1>2. reached \subseteq DOMAIN tracks
  BY DEF Reached
<1>3. after = [id \in DOMAIN aged |->
                 IF t.fallback /\ id \in reached
                 THEN Active(Moved(aged[id].state, timestamp), aged[id].missed)
                 ELSE aged[id]]
  BY DEF AgedAndMoved
<1> HIDE DEF tracks, reached, after
<1>4. /\ DOMAIN aged = {id \in DOMAIN tracks :
                          id \in reached => tracks[id].missed + 1 <= MaxMissed}
      /\ \A id \in DOMAIN aged :
            aged[id] = IF id \in reached
                       THEN Active(tracks[id].state, tracks[id].missed + 1)
                       ELSE tracks[id]
      /\ \A id \in DOMAIN aged : aged[id] \in ActiveTracks
  BY <1>1, <1>2, AgedTracks
<1> HIDE DEF aged
<1>5. ASSUME NEW id \in DOMAIN aged
      PROVE  /\ aged[id].state = tracks[id].state /\ aged[id].state \in States
             /\ aged[id].missed = IF id \in reached THEN tracks[id].missed + 1
                                  ELSE tracks[id].missed
             /\ aged[id].missed \in 0 .. MaxMissed
  <2>1. aged[id] \in ActiveTracks
    BY <1>4
  <2>2. /\ Active(tracks[id].state, tracks[id].missed + 1).state = tracks[id].state
        /\ Active(tracks[id].state, tracks[id].missed + 1).missed = tracks[id].missed + 1
    BY DEF Active
  <2>3. QED BY <1>4, <2>1, <2>2 DEF ActiveTracks
<1>6. ASSUME NEW id \in DOMAIN aged
      PROVE  /\ after[id] \in ActiveTracks /\ after[id].state.id = id
             /\ after[id].state.class = tracks[id].state.class
             /\ after[id].missed = IF id \in reached THEN tracks[id].missed + 1
                                   ELSE tracks[id].missed
             /\ t.fallback /\ id \in reached => after[id].state.timestamp = timestamp
  <2>0. tracks[id].state.id = id
    BY <1>1, <1>4
  <2>1. CASE t.fallback /\ id \in reached
    <3> DEFINE moved == Moved(aged[id].state, timestamp)
    <3>1. after[id] = Active(moved, aged[id].missed)
      BY <1>3, <2>1
    <3>2. /\ moved \in States /\ moved.id = id /\ moved.class = tracks[id].state.class
          /\ moved.timestamp = timestamp
      BY <1>5, <2>0, MovedType
    <3> HIDE DEF moved
    <3>3. /\ after[id] \in ActiveTracks /\ after[id].state = moved
          /\ after[id].missed = aged[id].missed
      BY <1>5, <3>1, <3>2 DEF Active, ActiveTracks
    <3>4. QED BY <1>5, <3>2, <3>3
  <2>2. CASE ~(t.fallback /\ id \in reached)
    <3>1. after[id] = aged[id]
      BY <1>3, <2>2
    <3>2. QED BY <1>4, <1>5, <2>0, <2>2, <3>1
  <2>3. QED BY <2>1, <2>2
<1>7. DOMAIN after = DOMAIN aged /\ after = [id \in DOMAIN after |-> after[id]]
  BY <1>3
<1>8. TracksOK(after, t.next)
  <2>1. after \in [DOMAIN after -> ActiveTracks]
    BY <1>6, <1>7
  <2>2. DOMAIN after \subseteq 1 .. t.next - 1
    BY <1>1, <1>4, <1>7
  <2>3. QED BY <1>6, <1>7, <2>1, <2>2 DEF TracksOK
<1>9. QED BY <1>4, <1>6, <1>7, <1>8 DEF tracks, reached, after

LEMMA MissingSound ==
    ASSUME NEW t, TrackerOK(t), t.fallback \in BOOLEAN, NEW timestamp \in Int
    PROVE  LET u == HandleMissingFrame(t, timestamp)
           IN /\ u.raised \in BOOLEAN
              /\ Follows(u, t, timestamp)
              /\ u.tracker.next = t.next
              /\ Counts(u, t, <<>>)
<1> DEFINE tracks  == t.tracks
           reached == Reached(t, timestamp)
           after   == AgedAndMoved(t, timestamp)
           raised  == Ahead(t, timestamp) # {}
           alive   == Surviving(tracks)
           order   == Upwards(alive)
           emitted == [k \in DOMAIN order |-> after[order[k]].state]
           u       == HandleMissingFrame(t, timestamp)
<1>1. /\ t.next \in Nat \ {0} /\ DOMAIN tracks \subseteq 1 .. t.next - 1
      /\ tracks \in [DOMAIN tracks -> ActiveTracks]
  BY DEF TrackerOK, TracksOK
<1>2. /\ TracksOK(after, t.next)
      /\ DOMAIN after = {id \in DOMAIN tracks :
                           id \in reached => tracks[id].missed + 1 <= MaxMissed}
      /\ \A id \in DOMAIN after :
            /\ after[id].state.class = tracks[id].state.class
            /\ after[id].missed = IF id \in reached THEN tracks[id].missed + 1
                                  ELSE tracks[id].missed
            /\ t.fallback /\ id \in reached => after[id].state.timestamp = timestamp
  BY AgedAndMovedTracks
<1>3. ~raised => reached = DOMAIN tracks
  BY DEF Reached
<1>4. /\ u.tracker.tracks = after /\ u.tracker.next = t.next
      /\ u.tracker.fallback = t.fallback /\ (u.raised <=> raised) /\ u.raised \in BOOLEAN
      /\ u.states = IF t.fallback /\ ~raised THEN Listed(emitted) ELSE <<>>
  BY DEF HandleMissingFrame
<1>5. alive \subseteq DOMAIN tracks
      /\ \A id \in alive : id \in DOMAIN after
  BY <1>2 DEF Surviving
<1> HIDE DEF tracks, reached, after, raised, u
<1>6. /\ \A id \in DOMAIN after : after[id] \in ActiveTracks /\ after[id].state.id = id
      /\ \A id \in DOMAIN after : after[id].state \in States
  <2>1. \A id \in DOMAIN after : after[id] \in ActiveTracks /\ after[id].state.id = id
    BY <1>2 DEF TracksOK
  <2>2. QED BY <2>1 DEF ActiveTracks
<1>7. StatesAt(u.states, timestamp)
      /\ \A k \in DOMAIN u.states : /\ u.states[k].id \in DOMAIN after
                                    /\ u.states[k].class = after[u.states[k].id].state.class
  <2>1. CASE t.fallback /\ ~raised
    <3> DEFINE n == Cardinality(alive)
    <3>1. alive \subseteq Int /\ IsFiniteSet(alive)
      <4>1. PICK m \in Nat : m = t.next - 1
        BY <1>1
      <4>2. alive \subseteq 1 .. m /\ IsFiniteSet(1 .. m)
        BY <1>1, <1>5, <4>1, FirstNumbers
      <4>3. IsFiniteSet(alive)
        BY <4>2, FS_Subset
      <4>4. QED BY <4>2, <4>3
    <3> HIDE DEF alive
    <3>2. InOrder(order, alive, Ascending(alive))
      BY <3>1, UpwardsInOrder
    <3>3. /\ n \in Nat /\ order \in [1 .. n -> alive] /\ DOMAIN order = 1 .. n
          /\ \A j, k \in 1 .. n : order[j] = order[k] => j = k
      BY <3>1, <3>2, InOrderOnce, AscendingIsStrict DEF InOrder
    <3> HIDE DEF order, n
    <3>4. ASSUME NEW k \in 1 .. n
          PROVE  /\ emitted[k] \in States /\ emitted[k].id = order[k]
                 /\ emitted[k].timestamp = timestamp
                 /\ order[k] \in DOMAIN after
                 /\ emitted[k].class = after[order[k]].state.class
      <4>1. order[k] \in DOMAIN after /\ order[k] \in reached
        BY <1>3, <1>5, <2>1, <3>3
      <4>2. emitted[k] = after[order[k]].state
        BY <3>3
      <4>3. QED BY <1>2, <1>6, <2>1, <4>1, <4>2
    <3>5. /\ Listed(emitted) = emitted /\ emitted \in Seq(States)
          /\ Len(emitted) = n /\ DOMAIN emitted = 1 .. n
      <4>1. emitted \in [1 .. n -> States]
        BY <3>3, <3>4
      <4> HIDE DEF emitted
      <4>2. QED BY <3>3, <4>1, ListedIsSame
    <3>6. u.states = emitted
      BY <1>4, <2>1, <3>5
    <3> HIDE DEF emitted
    <3>7. \A j, k \in 1 .. n : emitted[j].id = emitted[k].id => j = k
      BY <3>3, <3>4
    <3>8. StatesAt(emitted, timestamp)
      BY <3>4, <3>5, <3>7 DEF StatesAt
    <3>9. QED BY <3>4, <3>5, <3>6, <3>8
  <2>2. CASE ~(t.fallback /\ ~raised)
    <3>1. u.states = <<>> /\ <<>> \in Seq(States) /\ DOMAIN <<>> = {}
      BY <1>4, <2>2, EmptySeq
    <3>2. QED BY <3>1 DEF StatesAt
  <2>3. QED BY <2>1, <2>2
<1>8. t.next <= u.tracker.next /\ u.tracker.next \in Nat
  BY <1>1, <1>4
<1>9. Follows(u, t, timestamp)
  BY <1>2, <1>4, <1>7, <1>8 DEF Follows, tracks
<1>10. ASSUME NEW id \in DOMAIN tracks, id \notin DOMAIN after
       PROVE  tracks[id].missed + 1 > MaxMissed
  <2>1. tracks[id] \in ActiveTracks /\ ~(tracks[id].missed + 1 <= MaxMissed)
    BY <1>1, <1>2, <1>10
  <2>2. tracks[id].missed \in Nat /\ MaxMissed \in Nat
    BY <2>1, TrackerAssumption DEF ActiveTracks
  <2>3. QED BY <2>1, <2>2
<1>11. ASSUME NEW id \in DOMAIN after
       PROVE  /\ id \in DOMAIN tracks
              /\ \/ after[id].missed = tracks[id].missed + 1
                 \/ u.raised /\ after[id].missed = tracks[id].missed
  BY <1>2, <1>3, <1>4
<1>12. Counts(u, t, <<>>)
  BY <1>4, <1>10, <1>11 DEF Counts, tracks
<1>13. QED BY <1>4, <1>9, <1>12 DEF u

-----------------------------------------------------------------------------
(* Histories *)

\* What a deque holds of an identity.
HistoryOK(list, id) ==
    /\ list \in Seq(States) /\ Len(list) \in 1 .. HistoryLen
    /\ \A k \in DOMAIN list : list[k].id = id

\* The last m states come with increasing timestamps.
InStep(list, m) ==
    \A k \in 2 .. Len(list) : k > Len(list) - m + 1 => list[k - 1].timestamp < list[k].timestamp

OneClass(list, class) == \A k \in DOMAIN list : list[k].class = class

\* A deque that is longer by one state, and loses its first when it was full.
Longer(new, old, state) ==
    /\ new \in Seq(States) /\ Len(new) \in 1 .. HistoryLen
    /\ Len(new) = Len(old) + 1 \/ Len(new) = Len(old)
    /\ new[Len(new)] = state
    /\ \A k \in 1 .. Len(new) - 1 :
          /\ k + (Len(old) - Len(new)) + 1 \in 1 .. Len(old)
          /\ new[k] = old[k + (Len(old) - Len(new)) + 1]

LEMMA KeptIsLonger ==
    ASSUME NEW old \in Seq(States), Len(old) <= HistoryLen, NEW state \in States
    PROVE  Longer(Kept(Append(old, state)), old, state)
<1> DEFINE n == Len(old)
           all == Append(old, state)
           new == Kept(all)
<1>1. n \in Nat /\ HistoryLen \in Nat \ {0}
  BY LenProperties, ProcessorAssumption
<1>2. /\ all \in Seq(States) /\ Len(all) = n + 1 /\ all[n + 1] = state
      /\ \A k \in 1 .. n : all[k] = old[k]
  BY AppendProperties
<1> HIDE DEF all
<1>3. CASE n < HistoryLen
  <2>1. new = all
    BY <1>1, <1>2, <1>3 DEF Kept
  <2> HIDE DEF new
  <2>2. /\ Len(new) = n + 1 /\ new \in Seq(States) /\ Len(new) \in 1 .. HistoryLen
        /\ new[Len(new)] = state
    BY <1>1, <1>2, <1>3, <2>1
  <2>3. ASSUME NEW k \in 1 .. Len(new) - 1
        PROVE  /\ k + (n - Len(new)) + 1 \in 1 .. n
               /\ new[k] = old[k + (n - Len(new)) + 1]
    <3>1. k \in 1 .. n /\ k + (n - Len(new)) + 1 = k
      BY <1>1, <2>2
    <3>2. QED BY <1>2, <2>1, <3>1
  <2>4. QED BY <2>2, <2>3 DEF Longer, new, all
<1>4. CASE n = HistoryLen
  <2>0. Len(all) > HistoryLen /\ Len(all) - HistoryLen + 1 = 2
    BY <1>1, <1>2, <1>4
  <2>1. new = SubSeq(all, 2, n + 1)
    BY <1>2, <2>0 DEF Kept
  <2>2. /\ new \in Seq(States) /\ Len(new) = n
        /\ \A k \in 1 .. n : new[k] = all[2 + k - 1]
    <3>1. 2 \in 1 .. Len(all) + 1 /\ n + 1 \in 1 .. Len(all)
      BY <1>1, <1>2
    <3>2. SubSeq(all, 2, n + 1) \in Seq(States)
          /\ Len(SubSeq(all, 2, n + 1)) = n
          /\ \A k \in 1 .. n : SubSeq(all, 2, n + 1)[k] = all[2 + k - 1]
      BY <1>1, <1>2, <3>1, SubSeqProperties
    <3>3. QED BY <2>1, <3>2
  <2> HIDE DEF new
  <2>3. \A k \in 1 .. n : new[k] = all[k + 1]
    BY <1>1, <2>2
  <2>4. new[n] = state /\ Len(new) \in 1 .. HistoryLen
    BY <1>1, <1>2, <1>4, <2>2, <2>3
  <2>5. ASSUME NEW k \in 1 .. Len(new) - 1
        PROVE  /\ k + (n - Len(new)) + 1 \in 1 .. n
               /\ new[k] = old[k + (n - Len(new)) + 1]
    <3>1. k \in 1 .. n /\ k + 1 \in 1 .. n /\ k + (n - Len(new)) + 1 = k + 1
      BY <1>1, <2>2
    <3>2. QED BY <1>2, <2>3, <3>1
  <2>6. QED BY <2>2, <2>4, <2>5 DEF Longer, new, all
<1>5. QED BY <1>1, <1>3, <1>4

LEMMA LongerIsSound ==
    ASSUME NEW old \in Seq(States), NEW state \in States, NEW new,
           Longer(new, old, state), NEW m \in Nat \ {0}
    PROVE  /\ (\A k \in DOMAIN old : old[k].id = state.id) => HistoryOK(new, state.id)
           /\ OneClass(old, state.class) => OneClass(new, state.class)
           /\ InStep(new, 1)
           /\ InStep(old, m) /\ Len(old) # 0 /\ old[Len(old)].timestamp < state.timestamp
                => InStep(new, m + 1)
<1> DEFINE n == Len(new)
           o == Len(old)
<1>1. /\ n \in Nat \ {0} /\ o \in Nat /\ (n = o + 1 \/ n = o)
      /\ DOMAIN new = 1 .. n /\ DOMAIN old = 1 .. o
      /\ new \in Seq(States) /\ n \in 1 .. HistoryLen /\ new[n] = state
  BY LenProperties, ProcessorAssumption DEF Longer
<1>2. \A k \in 1 .. n - 1 : /\ k + (o - n) + 1 \in 1 .. o
                            /\ new[k] = old[k + (o - n) + 1]
  BY DEF Longer
<1> HIDE DEF n, o
<1>3. ASSUME NEW k \in 1 .. n
      PROVE  new[k] = state \/ \E j \in 1 .. o : new[k] = old[j]
  <2>1. k = n \/ k \in 1 .. n - 1
    BY <1>1
  <2>2. QED BY <1>1, <1>2, <2>1
<1>4. (\A k \in DOMAIN old : old[k].id = state.id) => HistoryOK(new, state.id)
  <2>1. (\A k \in 1 .. o : old[k].id = state.id) => \A k \in 1 .. n : new[k].id = state.id
    BY <1>3
  <2>2. QED BY <1>1, <2>1 DEF HistoryOK, n
<1>5. OneClass(old, state.class) => OneClass(new, state.class)
  <2>1. (\A k \in 1 .. o : old[k].class = state.class)
           => \A k \in 1 .. n : new[k].class = state.class
    BY <1>3
  <2>2. QED BY <1>1, <2>1 DEF OneClass
<1>6. InStep(new, 1)
  <2>1. \A k \in 2 .. n : ~(k > n - 1 + 1)
    BY <1>1
  <2>2. QED BY <2>1 DEF InStep, n
<1>7. ASSUME InStep(old, m), o # 0, old[o].timestamp < state.timestamp
      PROVE  InStep(new, m + 1)
  <2> SUFFICES ASSUME NEW k \in 2 .. n, k > n - (m + 1) + 1
               PROVE  new[k - 1].timestamp < new[k].timestamp
    BY DEF InStep, n
  <2>1. k - 1 \in 1 .. n - 1
    BY <1>1
  <2>2. new[k - 1] = old[k + (o - n)] /\ k + (o - n) \in 1 .. o
    <3>1. (k - 1) + (o - n) + 1 = k + (o - n)
      BY <1>1
    <3>2. QED BY <1>2, <2>1, <3>1
  <2>3. CASE k = n
    <3>1. k + (o - n) = o /\ new[k] = state
      BY <1>1, <2>3
    <3>2. QED BY <1>7, <2>2, <3>1
  <2>4. CASE k \in 1 .. n - 1
    <3> DEFINE j == k + (o - n) + 1
    <3>1. new[k] = old[j] /\ j \in 1 .. o
      BY <1>2, <2>4
    <3>2. j \in 2 .. o /\ j - 1 = k + (o - n) /\ j > o - m + 1
      BY <1>1, <2>2, <3>1
    <3> HIDE DEF j
    <3>3. old[j - 1].timestamp < old[j].timestamp
      BY <1>7, <3>2 DEF InStep, o
    <3>4. QED BY <2>2, <3>1, <3>2, <3>3
  <2>5. QED BY <1>1, <2>3, <2>4
<1>8. QED BY <1>4, <1>5, <1>6, <1>7 DEF o

\* The only state of an identity in a frame.
LEMMA PickedAlone ==
    ASSUME NEW S, NEW list \in Seq(S), NEW k \in DOMAIN list
    PROVE  Picked(list, {k}) = <<list[k]>>
<1> DEFINE one == Picked(list, {k})
<1>1. Cardinality({k}) = 1 /\ 1 \in 1 .. 1
  <2>1. Cardinality({k}) = 1
    BY FS_Singleton, Zenon
  <2>2. QED BY <2>1
<1>2. /\ one \in Seq(S) /\ PicksFrom(one, list, {k})
      /\ InOrder(Upwards({k}), {k}, Ascending({k}))
  BY PickedElements
<1>3. Upwards({k})[1] = k
  BY <1>1, <1>2 DEF InOrder
<1>4. Len(one) = 1 /\ one[1] = list[k]
  BY <1>1, <1>2, <1>3 DEF PicksFrom
<1> HIDE DEF one
<1>5. one = <<list[k]>>
  BY <1>2, <1>4
<1>6. QED BY <1>5 DEF one

Histories(histories) == \A id \in DOMAIN histories : HistoryOK(histories[id], id)

LEMMA AppendedSound ==
    ASSUME NEW histories, Histories(histories),
           NEW states, NEW timestamp, StatesAt(states, timestamp)
    PROVE  LET after == Appended(histories, states)
           IN /\ DOMAIN after
                   = {states[k].id : k \in DOMAIN states} \cup DOMAIN histories
              /\ \A id \in DOMAIN histories :
                    (\A k \in DOMAIN states : states[k].id # id) => after[id] = histories[id]
              /\ \A k \in DOMAIN states :
                    Longer(after[states[k].id], Past(histories, states[k].id), states[k])
<1> DEFINE ids == {states[k].id : k \in DOMAIN states}
           of(id) == {k \in DOMAIN states : states[k].id = id}
           new == [id \in ids |-> Kept(Past(histories, id) \o Picked(states, of(id)))]
           after == Appended(histories, states)
<1>1. after = Over(new, histories)
  BY DEF Appended
<1>2. /\ DOMAIN after = ids \cup DOMAIN histories
      /\ \A id \in ids : after[id] = Kept(Past(histories, id) \o Picked(states, of(id)))
      /\ \A id \in (DOMAIN histories) \ ids : after[id] = histories[id]
  BY <1>1 DEF Over
<1> HIDE DEF after
<1>3. ASSUME NEW k \in DOMAIN states
      PROVE  Longer(after[states[k].id], Past(histories, states[k].id), states[k])
  <2> DEFINE id == states[k].id
             old == Past(histories, id)
  <2>1. states \in Seq(States) /\ states[k] \in States
    BY ElementOfSeq DEF StatesAt
  <2>2. of(id) = {k}
    BY DEF StatesAt
  <2>3. Picked(states, of(id)) = <<states[k]>>
    BY <2>1, <2>2, PickedAlone
  <2>4. id \in DOMAIN histories => HistoryOK(histories[id], id)
    BY DEF Histories
  <2>5. old \in Seq(States) /\ Len(old) <= HistoryLen
    <3>1. CASE id \in DOMAIN histories
      <4>1. old = histories[id] /\ old \in Seq(States) /\ Len(old) \in 1 .. HistoryLen
        BY <2>4, <3>1 DEF Past, HistoryOK
      <4>2. QED BY <4>1, ProcessorAssumption
    <3>2. CASE id \notin DOMAIN histories
      <4>1. old = <<>> /\ <<>> \in Seq(States) /\ Len(<<>>) = 0
        BY <3>2, EmptySeq DEF Past
      <4>2. QED BY <4>1, ProcessorAssumption
    <3>3. QED BY <3>1, <3>2
  <2>6. after[id] = Kept(old \o <<states[k]>>)
    BY <1>2, <2>3
  <2> HIDE DEF old
  <2>7. old \o <<states[k]>> = Append(old, states[k])
    BY <2>1, <2>5
  <2>8. Longer(Kept(Append(old, states[k])), old, states[k])
    BY <2>1, <2>5, KeptIsLonger
  <2>9. QED BY <2>6, <2>7, <2>8 DEF old
<1>4. QED BY <1>2, <1>3 DEF after

-----------------------------------------------------------------------------
(* Predictions *)

LEMMA RecentStates ==
    ASSUME NEW list \in Seq(States), Len(list) >= PredictHistoryLen
    PROVE  /\ Recent(list) \in Seq(States) /\ Len(Recent(list)) = PredictHistoryLen
           /\ \A k \in 1 .. PredictHistoryLen :
                 /\ Len(list) - PredictHistoryLen + k \in 1 .. Len(list)
                 /\ Recent(list)[k] = list[Len(list) - PredictHistoryLen + k]
<1> DEFINE n == Len(list)
           p == PredictHistoryLen
           first == n - p + 1
<1>1. n \in Nat /\ p \in Nat \ {0} /\ n >= p
  BY LenProperties, PredictorAssumption
<1>2. first \in 1 .. n + 1 /\ first \in 1 .. n /\ n \in first - 1 .. n
  BY <1>1
<1>3. Recent(list) = SubSeq(list, first, n)
  BY DEF Recent
<1> HIDE DEF n, p
<1>4. /\ SubSeq(list, first, n) \in Seq(States)
      /\ Len(SubSeq(list, first, n)) = IF first <= n THEN n - first + 1 ELSE 0
      /\ \A k \in 1 .. n - first + 1 : SubSeq(list, first, n)[k] = list[first + k - 1]
  BY <1>2, SubSeqProperties DEF n
<1>5. n - first + 1 = p /\ first <= n
  BY <1>1, <1>2
<1>6. \A k \in 1 .. p : n - p + k \in 1 .. n /\ first + k - 1 = n - p + k
  BY <1>1
<1> HIDE DEF first
<1>7. QED BY <1>3, <1>4, <1>5, <1>6 DEF n, p

\* Enough states in order are predicted from.
LEMMA InStepIsPredictable ==
    ASSUME NEW list \in Seq(States), Len(list) >= PredictHistoryLen,
           NEW m \in Nat, m >= PredictHistoryLen, InStep(list, m)
    PROVE  Predictable(list)
<1> DEFINE n == Len(list)
           p == PredictHistoryLen
           recent == Recent(list)
<1>1. n \in Nat /\ p \in Nat \ {0} /\ n >= p /\ m \in Nat /\ m >= p
  BY LenProperties, PredictorAssumption
<1>2. Len(recent) = p /\ \A k \in 1 .. p : recent[k] = list[n - p + k]
  BY RecentStates
<1> HIDE DEF n, p, recent
<1>3. ASSUME NEW k \in 2 .. p PROVE recent[k - 1].timestamp < recent[k].timestamp
  <2> DEFINE j == n - p + k
  <2>1. /\ j \in 2 .. n /\ j > n - m + 1 /\ j - 1 = n - p + (k - 1)
        /\ k \in 1 .. p /\ k - 1 \in 1 .. p
    BY <1>1
  <2>2. recent[k] = list[j] /\ recent[k - 1] = list[j - 1]
    BY <1>2, <2>1
  <2> HIDE DEF j
  <2>3. list[j - 1].timestamp < list[j].timestamp
    BY <2>1 DEF InStep, n
  <2>4. QED BY <2>2, <2>3
<1>4. Increasing(recent)
  BY <1>2, <1>3 DEF Increasing
<1>5. QED BY <1>4 DEF Predictable, recent

\* What is asked of a prediction: whose it is, when its points are, and where.
PointsFollow(points, timestamp) ==
    \A k \in DOMAIN points :
       points[k].timestamp > (IF k = 1 THEN timestamp ELSE points[k - 1].timestamp)
PointsWhereItLooked(prediction, list) ==
    LocatedAlike(Recent(list)) =>
       \A k \in DOMAIN prediction.points :
          (prediction.points[k].world # NoWorld) <=> prediction.readsWorld

LEMMA PredictSound ==
    ASSUME NEW list, NEW id, HistoryOK(list, id), Predictable(list),
           NEW timestamp \in Int, NEW future \in Seq(Place)
    PROVE  /\ Predict(list, timestamp, future).id = id
           /\ PointsFollow(Predict(list, timestamp, future).points, timestamp)
           /\ PointsWhereItLooked(Predict(list, timestamp, future), list)
<1> DEFINE recent == Recent(list)
           p == PredictHistoryLen
           n == Len(list)
           final == recent[Len(recent)]
           step == InferStep(recent)
           made == Predict(list, timestamp, future)
           points == [k \in DOMAIN future |->
                        PredictedPoint(final, PointTime(timestamp, step, k), future[k])]
<1>1. list \in Seq(States) /\ n >= p /\ p \in Nat \ {0} /\ DefaultStep \in Nat \ {0}
      /\ \A k \in 1 .. n : list[k].id = id
  BY PredictorAssumption DEF HistoryOK, Predictable
<1>2. /\ recent \in Seq(States) /\ Len(recent) = p
      /\ \A k \in 1 .. p : n - p + k \in 1 .. n /\ recent[k] = list[n - p + k]
  BY <1>1, RecentStates
<1>3. /\ made.id = final.id /\ made.points = points
      /\ (made.readsWorld <=> ReadsWorld(recent))
  BY DEF Predict
<1> HIDE DEF recent, p, n, made
<1>4. /\ DOMAIN recent = 1 .. p /\ p \in DOMAIN recent
      /\ \A k \in 1 .. p : recent[k] \in States
  BY <1>1, <1>2, LenProperties, ElementOfSeq
<1>5. \A k \in 1 .. p : recent[k].timestamp \in Int
  BY <1>4 DEF States
<1>6. final = recent[p] /\ final.id = id
  BY <1>1, <1>2, <1>4
<1>7. step \in Nat \ {0}
  <2>1. step = IF p >= 2 /\ recent[p].timestamp > recent[p - 1].timestamp
               THEN recent[p].timestamp - recent[p - 1].timestamp
               ELSE DefaultStep
    BY <1>2 DEF InferStep
  <2>2. CASE p >= 2
    <3>1. recent[p].timestamp \in Int /\ recent[p - 1].timestamp \in Int
      BY <1>1, <1>5, <2>2
    <3>2. QED BY <1>1, <2>1, <3>1
  <2>3. CASE ~(p >= 2)
    BY <1>1, <2>1, <2>3
  <2>4. QED BY <2>2, <2>3
<1> HIDE DEF step, final
<1>8. DOMAIN future = 1 .. Len(future) /\ Len(future) \in Nat
      /\ \A k \in 1 .. Len(future) : future[k] \in Place
  BY LenProperties, ElementOfSeq
<1>9. \A k \in 1 .. Len(future) :
         /\ points[k].timestamp = timestamp + step * k
         /\ points[k].world = IF LabelsWorld(final) THEN future[k] ELSE <<>>
  BY <1>8 DEF PredictedPoint, PointTime
<1> HIDE DEF points
<1>10. DOMAIN points = 1 .. Len(future)
  BY <1>8 DEF points
<1>11. PointsFollow(points, timestamp)
  <2> SUFFICES ASSUME NEW k \in 1 .. Len(future)
               PROVE  points[k].timestamp > (IF k = 1 THEN timestamp
                                             ELSE points[k - 1].timestamp)
    BY <1>10 DEF PointsFollow
  <2>1. points[k].timestamp = timestamp + step * k
    BY <1>9
  <2>2. CASE k = 1
    <3>1. step * 1 = step
      BY <1>7
    <3>2. QED BY <1>7, <2>1, <2>2, <3>1
  <2>3. CASE k # 1
    <3>1. k - 1 \in 1 .. Len(future)
      BY <1>8, <2>3
    <3>2. points[k - 1].timestamp = timestamp + step * (k - 1)
      BY <1>9, <3>1
    <3>3. \A s \in Nat \ {0}, j \in Nat : s * j > s * (j - 1)
      OBVIOUS
    <3>4. step * k > step * (k - 1) /\ step * k \in Int /\ step * (k - 1) \in Int
      BY <1>7, <1>8, <3>3
    <3>5. QED BY <2>1, <2>3, <3>2, <3>4
  <2>4. QED BY <2>2, <2>3
<1>12. ASSUME LocatedAlike(recent), NEW k \in 1 .. Len(future)
       PROVE  (points[k].world # NoWorld) <=> ReadsWorld(recent)
  <2>1. \A place \in Place : place # <<>>
    <3>1. \A place \in Place : place = <<place[1], place[2]>>
      BY DEF Place
    <3>2. QED BY <3>1, NotEmpty, Zenon
  <2>2. (points[k].world # <<>>) <=> LabelsWorld(final)
    BY <1>8, <1>9, <2>1
  <2>3. \A j \in DOMAIN recent : (recent[j].world = NoWorld) <=> (recent[p].world = NoWorld)
    BY <1>4, <1>12 DEF LocatedAlike
  <2>4. LabelsWorld(final) <=> ReadsWorld(recent)
    BY <1>4, <1>6, <2>3 DEF LabelsWorld, ReadsWorld, NoWorld
  <2>5. QED BY <2>2, <2>4 DEF NoWorld
<1>13. PointsWhereItLooked(made, list)
  BY <1>3, <1>10, <1>12 DEF PointsWhereItLooked, recent
<1>14. QED BY <1>3, <1>6, <1>11, <1>13 DEF made

\* The predictions of a frame.
LEMMA PredictionsSound ==
    ASSUME NEW states, NEW timestamp \in Int, StatesAt(states, timestamp),
           NEW histories, \A k \in DOMAIN states :
                             HistoryOK(histories[states[k].id], states[k].id),
           NEW faults, NEW future \in Seq(Place)
    PROVE  LET list == Predictions(states, histories, faults, timestamp, future)
               made == Made(list)
           IN /\ DOMAIN list = DOMAIN states
              /\ \A j \in DOMAIN made :
                    /\ \E k \in DOMAIN states : made[j].id = states[k].id
                    /\ PointsFollow(made[j].points, timestamp)
                    /\ PointsWhereItLooked(made[j], histories[made[j].id])
              /\ \A k \in DOMAIN states :
                    /\ Full(histories[states[k].id]) /\ Predictable(histories[states[k].id])
                    /\ <<"predict", k>> \notin faults
                    => \E j \in DOMAIN made : made[j].id = states[k].id
<1> DEFINE n == Len(states)
           h(k) == histories[states[k].id]
           one(k) == MaybePredict(h(k), <<"predict", k>> \in faults, timestamp, future)
           list == [k \in 1 .. n |-> one(k)]
           made == Made(list)
<1>1. n \in Nat /\ DOMAIN states = 1 .. n
  BY LenProperties DEF StatesAt
<1>2. \A k \in 1 .. n : HistoryOK(h(k), states[k].id)
  BY <1>1
<1>3. Predictions(states, histories, faults, timestamp, future) = Listed(list)
  BY <1>1 DEF Predictions
<1>4. \A k \in 1 .. n :
         list[k] = IF /\ Full(h(k)) /\ Predictable(h(k)) /\ <<"predict", k>> \notin faults
                   THEN <<Predict(h(k), timestamp, future)>> ELSE <<>>
  BY DEF MaybePredict, NoPrediction
<1> HIDE DEF n, h, one
<1>5. list = [k \in 1 .. n |-> list[k]]
  OBVIOUS
<1> HIDE DEF list
<1>6. /\ Listed(list) = list /\ list \in Seq({list[k] : k \in 1 .. n})
      /\ DOMAIN list = 1 .. n
  BY <1>1, <1>5, ListedAgain
<1>7. /\ \A j \in DOMAIN made : \E k \in Filled(list) : made[j] = list[k][1]
      /\ \A k \in Filled(list) : \E j \in DOMAIN made : made[j] = list[k][1]
  <2>1. /\ \A j \in DOMAIN made :
              /\ Upwards(Filled(list))[j] \in Filled(list)
              /\ made[j] = list[Upwards(Filled(list))[j]][1]
        /\ \A k \in Filled(list) : \E j \in DOMAIN made : Upwards(Filled(list))[j] = k
    BY <1>6, MadePlaces
  <2> HIDE DEF made
  <2>2. QED BY <2>1
<1>8. \A k \in Filled(list) :
         /\ k \in 1 .. n /\ Predictable(h(k))
         /\ list[k][1] = Predict(h(k), timestamp, future)
  <2> SUFFICES ASSUME NEW k \in Filled(list)
               PROVE  /\ k \in 1 .. n /\ Predictable(h(k))
                      /\ list[k][1] = Predict(h(k), timestamp, future)
    OBVIOUS
  <2>1. k \in 1 .. n /\ list[k] # <<>>
    BY <1>6 DEF Filled
  <2>2. Predictable(h(k)) /\ list[k] = <<Predict(h(k), timestamp, future)>>
    BY <1>4, <2>1
  <2>3. QED BY <2>1, <2>2
<1> HIDE DEF made
<1>9. ASSUME NEW j \in DOMAIN made
      PROVE  /\ \E k \in 1 .. n : made[j].id = states[k].id
             /\ PointsFollow(made[j].points, timestamp)
             /\ PointsWhereItLooked(made[j], histories[made[j].id])
  <2>1. PICK k \in Filled(list) : made[j] = list[k][1]
    BY <1>7
  <2>2. k \in 1 .. n /\ Predictable(h(k)) /\ made[j] = Predict(h(k), timestamp, future)
    BY <1>8, <2>1
  <2>3. HistoryOK(h(k), states[k].id)
    BY <1>2, <2>2
  <2>4. /\ made[j].id = states[k].id /\ PointsFollow(made[j].points, timestamp)
        /\ PointsWhereItLooked(made[j], h(k))
    BY <2>2, <2>3, PredictSound
  <2>5. QED BY <2>2, <2>4 DEF h
<1>10. ASSUME NEW k \in 1 .. n, Full(h(k)), Predictable(h(k)), <<"predict", k>> \notin faults
       PROVE  \E j \in DOMAIN made : made[j].id = states[k].id
  <2>1. list[k] = <<Predict(h(k), timestamp, future)>>
    BY <1>4, <1>10
  <2>2. k \in Filled(list)
    <3>1. list[k] # <<>>
      BY <2>1, NotEmpty, Zenon
    <3>2. QED BY <1>6, <3>1 DEF Filled
  <2>3. PICK j \in DOMAIN made : made[j] = list[k][1]
    BY <1>7, <2>2
  <2>4. made[j].id = states[k].id
    BY <1>2, <1>8, <2>2, <2>3, PredictSound
  <2>5. QED BY <2>4
<1>11. Predictions(states, histories, faults, timestamp, future) = list
  BY <1>3, <1>6
<1>12. DOMAIN list = DOMAIN states /\ Made(list) = made
  BY <1>1, <1>6 DEF made
<1>13. QED BY <1>1, <1>9, <1>10, <1>11, <1>12 DEF h

-----------------------------------------------------------------------------
(* Alarms *)

Levels == {"none", "critical", "high", "low", "medium"}
Alarms == [seq : Nat, id : Nat, level : Levels, alert : BOOLEAN, timestamp : Int]

LEMMA LevelType ==
    ASSUME NEW t, NEW c, NEW limits
    PROVE  /\ ClassifyRiskLevel(t, c, limits) \in Levels
           /\ ShouldAlert(t, c, limits) \in BOOLEAN
<1>1. ClassifyRiskLevel(t, c, limits) \in Levels
  BY Zenon DEF ClassifyRiskLevel, Levels
<1>2. ShouldAlert(t, c, limits) \in BOOLEAN
  BY Zenon DEF ShouldAlert
<1>3. QED BY <1>1, <1>2

LEMMA RiskType ==
    ASSUME NEW target \in States, NEW prediction
    PROVE  /\ EvaluateTrackRisk(target, prediction).id = target.id
           /\ EvaluateTrackRisk(target, prediction).timestamp = target.timestamp
           /\ EvaluateTrackRisk(target, prediction).level \in Levels
           /\ EvaluateTrackRisk(target, prediction).alert \in BOOLEAN
<1> DEFINE points == IF prediction = NoPrediction THEN <<>> ELSE prediction[1].points
           a == Assess(Position(target), target.velocity, target.timestamp, points)
           limits == AtScale(Thresholds, a.scale)
           level == ClassifyRiskLevel(a.tcpa, a.cpa2, limits)
           alert == ShouldAlert(a.tcpa, a.cpa2, limits)
<1>1. EvaluateTrackRisk(target, prediction)
        = [device |-> target.device, id |-> target.id, timestamp |-> target.timestamp,
           level |-> level, alert |-> alert]
  BY Zenon DEF EvaluateTrackRisk
<1>2. level \in Levels /\ alert \in BOOLEAN
  <2> HIDE DEF a, limits
  <2>1. QED BY LevelType
<1> HIDE DEF level, alert
<1>3. /\ EvaluateTrackRisk(target, prediction).id = target.id
      /\ EvaluateTrackRisk(target, prediction).timestamp = target.timestamp
      /\ EvaluateTrackRisk(target, prediction).level = level
  BY <1>1
<1>4. EvaluateTrackRisk(target, prediction).alert \in BOOLEAN
  <2>1. EvaluateTrackRisk(target, prediction).alert <=> alert
    BY <1>1, <1>2
  <2>2. (EvaluateTrackRisk(target, prediction).alert = TRUE)
          \/ EvaluateTrackRisk(target, prediction).alert = FALSE
    BY <1>1, <1>2, <2>1
  <2>3. QED BY <2>2
<1>5. QED BY <1>2, <1>3, <1>4

\* The events of a frame.
EventsOf(risks, number) == [j \in DOMAIN risks |-> AlarmOf(risks[j], number + j - 1)]

\* Each target that is assessed has its alarm, and only those have one.
OneAlarmEach(events, states, risks) ==
    \A k \in DOMAIN states :
       Cardinality({j \in DOMAIN events : events[j].id = states[k].id})
         = IF risks[k] = <<>> THEN 0 ELSE 1

LEMMA AlarmsSound ==
    ASSUME NEW states, NEW timestamp \in Int, StatesAt(states, timestamp),
           NEW predictions, NEW faults, NEW number \in Nat
    PROVE  LET risks  == Risks(states, predictions, faults)
               made   == Made(risks)
               events == EventsOf(made, number)
           IN /\ DOMAIN risks = DOMAIN states
              /\ events \in Seq(Alarms)
              /\ \A j \in DOMAIN events : events[j].seq = number + j - 1
              /\ OneAlarmEach(events, states, risks)
<1> DEFINE n == Len(states)
           assessed(k) == Evaluable(states[k], predictions[k]) /\ <<"risk", k>> \notin faults
           one(k) == IF assessed(k) THEN <<EvaluateTrackRisk(states[k], predictions[k])>>
                     ELSE <<>>
           list == [k \in 1 .. n |-> one(k)]
           made == Made(list)
           at == Upwards(Filled(list))
           events == [j \in DOMAIN made |-> AlarmOf(made[j], number + j - 1)]
<1>1. /\ n \in Nat /\ DOMAIN states = 1 .. n /\ \A k \in 1 .. n : states[k] \in States
      /\ \A j, k \in 1 .. n : states[j].id = states[k].id => j = k
  BY LenProperties, ElementOfSeq DEF StatesAt
<1>2. Risks(states, predictions, faults) = Listed(list)
  BY <1>1 DEF Risks
<1>3. \A k \in 1 .. n :
         list[k] = <<EvaluateTrackRisk(states[k], predictions[k])>> \/ list[k] = <<>>
  OBVIOUS
<1> HIDE DEF one, n
<1>4. list = [k \in 1 .. n |-> list[k]]
  OBVIOUS
<1> HIDE DEF list
<1>5. /\ Listed(list) = list /\ list \in Seq({list[k] : k \in 1 .. n})
      /\ DOMAIN list = 1 .. n
  BY <1>1, <1>4, ListedAgain
<1>6. Risks(states, predictions, faults) = list /\ DOMAIN list = DOMAIN states
  BY <1>1, <1>2, <1>5
<1>7. /\ made \in Seq({list[k][1] : k \in Filled(list)})
      /\ \A j \in DOMAIN made : at[j] \in Filled(list) /\ made[j] = list[at[j]][1]
      /\ \A k \in Filled(list) : \E j \in DOMAIN made : at[j] = k
      /\ \A i, j \in DOMAIN made : at[i] = at[j] => i = j
  BY <1>5, MadePlaces
<1>8. DOMAIN made = 1 .. Len(made) /\ Len(made) \in Nat
  BY <1>7, LenProperties
<1>9. ASSUME NEW k \in Filled(list)
      PROVE  /\ k \in 1 .. n
             /\ list[k][1] = EvaluateTrackRisk(states[k], predictions[k])
  <2>1. k \in 1 .. n /\ list[k] # <<>>
    BY <1>5 DEF Filled
  <2>2. list[k] = <<EvaluateTrackRisk(states[k], predictions[k])>>
    BY <1>3, <2>1
  <2>3. QED BY <2>1, <2>2
<1> HIDE DEF made, at
<1>10. ASSUME NEW j \in DOMAIN made
       PROVE  /\ at[j] \in 1 .. n /\ made[j].id = states[at[j]].id
              /\ made[j].timestamp \in Int /\ made[j].level \in Levels
              /\ made[j].alert \in BOOLEAN /\ made[j].id \in Nat
  <2>1. /\ at[j] \in 1 .. n /\ states[at[j]] \in States
        /\ made[j] = EvaluateTrackRisk(states[at[j]], predictions[at[j]])
    BY <1>1, <1>7, <1>9
  <2>2. states[at[j]].id \in Nat /\ states[at[j]].timestamp \in Int
    BY <2>1 DEF States
  <2>3. QED BY <2>1, <2>2, RiskType
<1>11. ASSUME NEW j \in DOMAIN made
       PROVE  AlarmOf(made[j], number + j - 1) \in Alarms
  <2>1. number + j - 1 \in Nat
    BY <1>8
  <2>2. QED BY <1>10, <2>1, Zenon DEF AlarmOf, Alarms
<1>12. ASSUME NEW j \in DOMAIN made
       PROVE  events[j].seq = number + j - 1 /\ events[j].id = states[at[j]].id
  BY <1>10 DEF AlarmOf
<1>13. events \in Seq(Alarms) /\ DOMAIN events = DOMAIN made
  <2>1. events \in [1 .. Len(made) -> Alarms]
    BY <1>8, <1>11
  <2> HIDE DEF events
  <2>2. QED BY <1>8, <2>1, ListedIsSame
<1> HIDE DEF events
<1>14. ASSUME NEW k \in 1 .. n
       PROVE  Cardinality({j \in DOMAIN events : events[j].id = states[k].id})
                = IF list[k] = <<>> THEN 0 ELSE 1
  <2> DEFINE his == {j \in DOMAIN events : events[j].id = states[k].id}
  <2>1. \A j \in DOMAIN made : events[j].id = states[k].id <=> at[j] = k
    BY <1>1, <1>10, <1>12
  <2>2. CASE list[k] = <<>>
    <3>1. k \notin Filled(list)
      BY <2>2 DEF Filled
    <3>2. his = {}
      BY <1>7, <1>13, <2>1, <3>1
    <3>3. Cardinality(his) = 0
      <4> HIDE DEF his
      <4>1. QED BY <3>2, FS_EmptySet, Zenon
    <3>4. QED BY <2>2, <3>3
  <2>3. CASE list[k] # <<>>
    <3>1. k \in Filled(list)
      BY <1>5, <2>3 DEF Filled
    <3>2. PICK j \in DOMAIN made : at[j] = k
      BY <1>7, <3>1
    <3>3. his = {j}
      BY <1>7, <1>13, <2>1, <3>2
    <3>4. Cardinality(his) = 1
      <4> HIDE DEF his
      <4>1. QED BY <3>3, FS_Singleton, Zenon
    <3>5. QED BY <2>3, <3>4
  <2>4. QED BY <2>2, <2>3
<1>15. /\ \A j \in DOMAIN events : events[j].seq = number + j - 1
       /\ OneAlarmEach(events, states, list)
  <2>1. \A j \in DOMAIN events : events[j].seq = number + j - 1
    BY <1>12, <1>13
  <2>2. \A k \in DOMAIN states :
           Cardinality({j \in DOMAIN events : events[j].id = states[k].id})
             = IF list[k] = <<>> THEN 0 ELSE 1
    BY <1>1, <1>14, Zenon
  <2>3. QED BY <2>1, <2>2, Zenon DEF OneAlarmEach
<1>16. EventsOf(made, number) = events
  BY DEF events, EventsOf
<1>17. QED BY <1>6, <1>13, <1>15, <1>16 DEF made

LEMMA RiskErrors ==
    ASSUME NEW faults, NEW update, NEW histories, NEW predictions, NEW risks,
           NEW k \in DOMAIN risks
    PROVE  <<"risk", k>> \in Errors(faults, update, histories, predictions, risks)
             <=> risks[k] = <<>>
BY DEF Errors

\* The numbers of what was published are in order and below the next one.
Numbered(alarms, next) ==
    /\ alarms \in Seq(Alarms)
    /\ \A k \in DOMAIN alarms : alarms[k].seq < next
    /\ \A k \in 2 .. Len(alarms) : alarms[k - 1].seq < alarms[k].seq

LEMMA PublishedSound ==
    ASSUME NEW before, NEW number \in Nat, Numbered(before, number),
           NEW events \in Seq(Alarms),
           \A j \in DOMAIN events : events[j].seq = number + j - 1,
           NEW refused, refused \subseteq DOMAIN events
    PROVE  LET sent == Picked(events, (DOMAIN events) \ refused)
           IN /\ Numbered(before, number + Len(events))
              /\ Numbered(before \o sent, number + Len(events))
              /\ Cardinality(refused) \in Nat
              /\ Len(before \o sent) + Cardinality(refused) = Len(before) + Len(events)
<1> DEFINE n == Len(events)
           m == Len(before)
           P == (DOMAIN events) \ refused
           sent == Picked(events, P)
           all == before \o sent
<1>1. n \in Nat /\ DOMAIN events = 1 .. n /\ P \subseteq DOMAIN events
  BY LenProperties
<1>2. /\ before \in Seq(Alarms) /\ m \in Nat /\ DOMAIN before = 1 .. m
      /\ \A k \in 1 .. m : before[k] \in Alarms
  BY LenProperties, ElementOfSeq DEF Numbered
<1>3. \A k \in 1 .. m : before[k].seq \in Nat /\ before[k].seq < number
  <2>1. \A k \in 1 .. m : before[k].seq \in Nat
    BY <1>2 DEF Alarms
  <2>2. QED BY <1>2, <2>1 DEF Numbered
<1>4. /\ sent \in Seq(Alarms) /\ PicksFrom(sent, events, P) /\ Cardinality(P) \in Nat
      /\ IsFiniteSet(P)
  BY <1>1, PickedElements
<1>5. /\ \A j \in DOMAIN sent : \E p \in P : sent[j] = events[p] /\ p = Upwards(P)[j]
      /\ \A i, j \in DOMAIN sent : i < j <=> Upwards(P)[i] < Upwards(P)[j]
  <2>1. P \subseteq DOMAIN events
    BY <1>1
  <2> HIDE DEF P
  <2>2. events \in Seq(Alarms)
    OBVIOUS
  <2>3. /\ \A k \in DOMAIN Picked(events, P) :
              \E p \in P : Picked(events, P)[k] = events[p] /\ p = Upwards(P)[k]
        /\ \A p \in P :
              \E k \in DOMAIN Picked(events, P) :
                 Picked(events, P)[k] = events[p] /\ p = Upwards(P)[k]
        /\ \A j, k \in DOMAIN Picked(events, P) :
              j < k <=> Upwards(P)[j] < Upwards(P)[k]
    BY <2>1, <2>2, PickedPlaces
  <2>4. QED BY <2>3
<1> DEFINE s == Cardinality(P)
<1>6. Len(sent) = s /\ DOMAIN sent = 1 .. s
  BY <1>4 DEF PicksFrom
<1>7. IsFiniteSet(refused) /\ Cardinality(refused) \in Nat /\ s + Cardinality(refused) = n
  <2>1. IsFiniteSet(1 .. n) /\ Cardinality(1 .. n) = n /\ refused \subseteq 1 .. n
    BY <1>1, FirstNumbers
  <2>2. IsFiniteSet(refused)
    BY <2>1, FS_Subset
  <2>3. Cardinality(refused) \in Nat
    BY <2>2, FS_CardinalityType
  <2>4. P \cup refused = 1 .. n /\ P \cap refused = {}
    BY <1>1
  <2>5. Cardinality(P \cup refused)
          = Cardinality(P) + Cardinality(refused) - Cardinality(P \cap refused)
    BY <1>4, <2>2, FS_Union
  <2>6. Cardinality(P \cap refused) = 0
    BY <2>4, FS_EmptySet, Zenon
  <2> HIDE DEF P
  <2>7. Cardinality(1 .. n) = Cardinality(P) + Cardinality(refused) - 0
    BY <2>4, <2>5, <2>6, Zenon
  <2> HIDE DEF n
  <2>8. s + Cardinality(refused) = n
    BY <1>4, <2>1, <2>3, <2>7
  <2>9. QED BY <2>2, <2>3, <2>8
<1> HIDE DEF n, m, P, sent, s
<1>8. \A j \in 1 .. s : /\ sent[j].seq = number + Upwards(P)[j] - 1
                        /\ Upwards(P)[j] \in 1 .. n
  <2> SUFFICES ASSUME NEW j \in 1 .. s
               PROVE  /\ sent[j].seq = number + Upwards(P)[j] - 1
                      /\ Upwards(P)[j] \in 1 .. n
    OBVIOUS
  <2>1. PICK p \in P : sent[j] = events[p] /\ p = Upwards(P)[j]
    BY <1>5, <1>6
  <2>2. p \in 1 .. n /\ events[p].seq = number + p - 1
    BY <1>1
  <2>3. QED BY <2>1, <2>2
<1>9. /\ all \in Seq(Alarms) /\ Len(all) = m + s
      /\ \A k \in 1 .. m + s : all[k] = IF k <= m THEN before[k] ELSE sent[k - m]
  BY <1>2, <1>4, <1>6, ConcatProperties DEF m
<1> HIDE DEF all
<1>10. ASSUME NEW k \in 1 .. m + s
       PROVE  /\ all[k].seq \in Nat /\ all[k].seq < number + n
              /\ k <= m => all[k].seq < number
              /\ k > m => k - m \in 1 .. s /\ all[k].seq = number + Upwards(P)[k - m] - 1
                          /\ Upwards(P)[k - m] \in 1 .. n
  <2>1. CASE k <= m
    <3>1. k \in 1 .. m /\ all[k] = before[k]
      BY <1>2, <1>9, <2>1
    <3>2. QED BY <1>1, <1>2, <1>3, <2>1, <3>1
  <2>2. CASE k > m
    <3>1. k - m \in 1 .. s /\ all[k] = sent[k - m]
      BY <1>2, <1>4, <1>9, <2>2 DEF s
    <3>2. all[k].seq = number + Upwards(P)[k - m] - 1 /\ Upwards(P)[k - m] \in 1 .. n
      BY <1>8, <3>1
    <3>3. QED BY <1>1, <1>2, <2>2, <3>1, <3>2
  <2>3. QED BY <1>2, <1>4, <2>1, <2>2 DEF s
<1>11. ASSUME NEW k \in 2 .. m + s PROVE all[k - 1].seq < all[k].seq
  <2>0. k \in 1 .. m + s /\ k - 1 \in 1 .. m + s /\ s \in Nat
    BY <1>2, <1>4 DEF s
  <2>1. CASE k <= m
    <3>1. k \in 2 .. Len(before) /\ all[k] = before[k] /\ all[k - 1] = before[k - 1]
      BY <1>2, <1>9, <2>0, <2>1 DEF m
    <3>2. QED BY <3>1 DEF Numbered
  <2>2. CASE k = m + 1
    <3>1. all[k - 1].seq < number
      BY <1>2, <1>10, <2>0, <2>2
    <3>2. all[k].seq >= number
      BY <1>1, <1>2, <1>10, <2>0, <2>2
    <3>3. QED BY <1>10, <2>0, <3>1, <3>2
  <2>3. CASE k > m + 1
    <3> DEFINE j == k - m
    <3>1. j \in 1 .. s /\ j - 1 \in 1 .. s /\ j - 1 < j /\ (k - 1) - m = j - 1
      BY <1>2, <2>0, <2>3
    <3>2. Upwards(P)[j - 1] < Upwards(P)[j]
      BY <1>5, <1>6, <3>1
    <3>3. /\ all[k].seq = number + Upwards(P)[j] - 1
          /\ all[k - 1].seq = number + Upwards(P)[j - 1] - 1
          /\ Upwards(P)[j] \in Int /\ Upwards(P)[j - 1] \in Int
      BY <1>2, <1>8, <1>10, <2>0, <2>3, <3>1
    <3>4. QED BY <3>2, <3>3
  <2>4. QED BY <1>2, <2>0, <2>1, <2>2, <2>3
<1>12. DOMAIN all = 1 .. m + s
  BY <1>9, LenProperties
<1>13. Numbered(all, number + n)
  BY <1>9, <1>10, <1>11, <1>12 DEF Numbered
<1>14. Numbered(before, number + n)
  BY <1>1, <1>2, <1>3 DEF Numbered, m
<1>15. Len(all) + Cardinality(refused) = m + n
  BY <1>1, <1>2, <1>4, <1>7, <1>9 DEF s
<1>16. QED BY <1>7, <1>13, <1>14, <1>15 DEF all, sent, P, n, m

-----------------------------------------------------------------------------
(* The inductive invariant of the frame loop *)

TypesHold ==
    /\ simple \in BOOLEAN /\ paced \in BOOLEAN
    /\ TrackerOK(tracker) /\ tracker.fallback \in BOOLEAN
    /\ simple => tracker.next = 1
    /\ seq \in Nat /\ now \in Nat
    /\ last \in Seq(Nat) /\ Len(last) <= 1
    /\ frame \in Nat /\ faulty \in Nat /\ back \in Nat /\ raises \in Nat /\ unsent \in Nat

\* The deques, and what is remembered of the order in their ends.
DequesHold(histories, counts) ==
    /\ DOMAIN histories \subseteq Identities /\ Histories(histories)
    /\ DOMAIN counts = DOMAIN histories
    /\ \A id \in DOMAIN histories :
          counts[id] \in Nat \ {0} /\ InStep(histories[id], counts[id])
HistoriesHold == DequesHold(history, steady)

\* Everything that has a track or a history was seen once, under a name that was
\* given to it and will not be given again.
Remembered(tracks, next, seen, n) ==
    /\ DOMAIN seen \subseteq 1 .. next - 1
    /\ \A id \in DOMAIN seen : seen[id] \in 1 .. n
    /\ DOMAIN tracks \subseteq DOMAIN seen

\* MissedCountsFrames, of the n-th frame.
MissedCounted(tracks, seen, n, raised) ==
    /\ \A id \in DOMAIN tracks :
          tracks[id].missed \in (n - seen[id]) - raised .. n - seen[id]
    /\ \A id \in DOMAIN seen : n - seen[id] <= MaxMissed => id \in DOMAIN tracks

\* One target for each identity, and for a track the one of its history.
OneTarget(tracks, histories) ==
    /\ \A id \in DOMAIN histories :
          \A j, k \in DOMAIN histories[id] : histories[id][j].class = histories[id][k].class
    /\ \A id \in (DOMAIN histories) \cap DOMAIN tracks :
          OneClass(histories[id], tracks[id].state.class)

IdentitiesHold ==
    ~simple =>
       /\ Remembered(tracker.tracks, tracker.next, lastSeen, frame)
       /\ DOMAIN history \subseteq DOMAIN lastSeen
       /\ MissedCounted(tracker.tracks, lastSeen, frame, raises)
       /\ OneTarget(tracker.tracks, history)

NumbersHold ==
    /\ Numbered(published, seq)
    /\ Publisher # "none" => seq = Len(published) + unsent

FrameInv == TypesHold /\ HistoriesHold /\ IdentitiesHold /\ NumbersHold

\* SimpleTracker names the detections by their positions.
LEMMA SimpleSound ==
    ASSUME NEW detections \in Seq(DetectionsOf(Device)), NEW timestamp \in Int
    PROVE  LET u == SimpleUpdate(detections, timestamp)
           IN /\ u.tracker = tracker /\ u.raised = FALSE
              /\ StatesAt(u.states, timestamp)
              /\ \A k \in DOMAIN u.states :
                    u.states[k].id \in Nat /\ u.states[k].id < Len(detections)
<1> DEFINE n == Len(detections)
           states == [k \in 1 .. n |-> StateFrom(detections[k], k - 1, Still, timestamp)]
           u == SimpleUpdate(detections, timestamp)
<1>1. /\ n \in Nat /\ DOMAIN detections = 1 .. n
      /\ \A k \in 1 .. n : detections[k] \in DetectionsOf(Device)
  BY LenProperties, ElementOfSeq
<1>2. u = [tracker |-> tracker, states |-> Listed(states), raised |-> FALSE]
  BY <1>1 DEF SimpleUpdate
<1> HIDE DEF n
<1>3. ASSUME NEW k \in 1 .. n
      PROVE  /\ states[k] \in States /\ states[k].id = k - 1
             /\ states[k].timestamp = timestamp
  <2>1. k - 1 \in Nat /\ detections[k] \in DetectionsOf(Device)
    BY <1>1
  <2>2. Still \in Velocities
    BY StillType
  <2>3. QED BY <2>1, <2>2, StateFromType
<1>4. /\ Listed(states) = states /\ states \in Seq(States)
      /\ Len(states) = n /\ DOMAIN states = 1 .. n
  <2>1. states \in [1 .. n -> States]
    BY <1>3
  <2> HIDE DEF states
  <2>2. QED BY <1>1, <2>1, ListedIsSame
<1> HIDE DEF states
<1>5. u.tracker = tracker /\ u.states = states /\ u.raised = FALSE
  BY <1>2, <1>4
<1> HIDE DEF u
<1>6. StatesAt(states, timestamp)
  BY <1>3, <1>4 DEF StatesAt
<1>7. \A k \in DOMAIN states : states[k].id \in Nat /\ states[k].id < n
  BY <1>1, <1>3, <1>4
<1>8. QED BY <1>5, <1>6, <1>7 DEF u, n

\* IoUTracker.update.
LEMMA UpdateSound ==
    ASSUME NEW t, TrackerOK(t), t.fallback \in BOOLEAN,
           NEW detections \in Seq(DetectionsOf(Device)), NEW timestamp \in Int
    PROVE  LET u == Update(t, detections, timestamp)
           IN /\ u.raised \in BOOLEAN
              /\ Follows(u, t, timestamp) /\ Counts(u, t, detections)
              /\ u.tracker.next <= t.next + Len(detections)
              /\ detections # <<>> => NoneBlocks(u.states, t.tracks, detections)
<1>1. CASE detections = <<>>
  <2> DEFINE u == HandleMissingFrame(t, timestamp)
  <2>1. /\ u.raised \in BOOLEAN /\ Follows(u, t, timestamp)
        /\ u.tracker.next = t.next /\ Counts(u, t, <<>>)
    BY MissingSound
  <2>2. Update(t, detections, timestamp) = u
    BY <1>1 DEF Update
  <2>3. t.next \in Nat /\ Len(<<>>) = 0
    BY EmptySeq DEF TrackerOK
  <2> HIDE DEF u
  <2>4. Counts(u, t, detections) /\ u.tracker.next <= t.next + Len(detections)
    BY <1>1, <2>1, <2>3
  <2>5. QED BY <1>1, <2>1, <2>2, <2>4
<1>2. CASE detections # <<>>
  <2> DEFINE u == Associate(t, detections, timestamp)
  <2>1. /\ u.raised = FALSE /\ Follows(u, t, timestamp)
        /\ u.tracker.next <= t.next + Len(detections)
        /\ NoneBlocks(u.states, t.tracks, detections)
        /\ Counts(u, t, detections)
    BY <1>2, AssociateSound
  <2>2. Update(t, detections, timestamp) = u
    BY <1>2 DEF Update
  <2> HIDE DEF u
  <2>3. QED BY <2>1, <2>2
<1>3. QED BY <1>1, <1>2

\* The stage of the tracker, of either kind.
TrackedOK(u, detections, timestamp) ==
    /\ u.raised \in BOOLEAN
    /\ TrackerOK(u.tracker) /\ u.tracker.fallback \in BOOLEAN
    /\ StatesAt(u.states, timestamp)
    /\ \A k \in DOMAIN u.states : u.states[k].id \in Identities
    /\ simple => u.tracker = tracker
    /\ ~simple => /\ Follows(u, tracker, timestamp) /\ Counts(u, tracker, detections)
                  /\ detections # <<>>
                       => NoneBlocks(u.states, tracker.tracks, detections)

LEMMA TrackedSound ==
    ASSUME TypesHold, NEW detections \in Seq(DetectionsOf(Device)), NEW timestamp \in Int,
           tracker.next + Len(detections) <= MaxTrackId + 1
    PROVE  TrackedOK(Tracked(detections, timestamp), detections, timestamp)
<1> DEFINE u == Tracked(detections, timestamp)
<1>1. /\ simple \in BOOLEAN /\ TrackerOK(tracker) /\ tracker.fallback \in BOOLEAN
      /\ tracker.next \in Nat /\ Len(detections) \in Nat /\ MaxTrackId \in Nat
  BY TrackerAssumption DEF TypesHold, TrackerOK
<1>2. CASE simple
  <2>1. u = SimpleUpdate(detections, timestamp) /\ tracker.next = 1
    BY <1>2 DEF Tracked, TypesHold
  <2>2. /\ u.tracker = tracker /\ u.raised = FALSE /\ StatesAt(u.states, timestamp)
        /\ \A k \in DOMAIN u.states :
              u.states[k].id \in Nat /\ u.states[k].id < Len(detections)
    BY <2>1, SimpleSound
  <2> HIDE DEF u
  <2>3. \A k \in DOMAIN u.states : u.states[k].id \in Identities
    BY <1>1, <2>1, <2>2 DEF Identities
  <2>4. u.raised \in BOOLEAN
    BY <2>2
  <2>5. TrackerOK(u.tracker) /\ u.tracker.fallback \in BOOLEAN
    BY <1>1, <2>2
  <2>6. QED BY <1>2, <2>2, <2>3, <2>4, <2>5 DEF TrackedOK, u
<1>3. CASE ~simple
  <2>1. u = Update(tracker, detections, timestamp)
    BY <1>3 DEF Tracked
  <2>2. /\ u.raised \in BOOLEAN
        /\ Follows(u, tracker, timestamp) /\ Counts(u, tracker, detections)
        /\ u.tracker.next <= tracker.next + Len(detections)
        /\ detections # <<>> => NoneBlocks(u.states, tracker.tracks, detections)
    BY <1>1, <2>1, UpdateSound
  <2> HIDE DEF u
  <2>3. /\ u.tracker.next \in Nat /\ tracker.next <= u.tracker.next
        /\ TracksOK(u.tracker.tracks, u.tracker.next)
        /\ StatesAt(u.states, timestamp)
        /\ \A k \in DOMAIN u.states : u.states[k].id \in DOMAIN u.tracker.tracks
    BY <2>2 DEF Follows
  <2>4. tracker.next \in Nat \ {0}
    BY <1>1 DEF TrackerOK
  <2>5. u.tracker.next \in Nat \ {0} /\ u.tracker.next <= MaxTrackId + 1
    BY <1>1, <2>2, <2>3, <2>4
  <2>6. TrackerOK(u.tracker)
    BY <2>3, <2>5 DEF TrackerOK
  <2>7. \A k \in DOMAIN u.states : u.states[k].id \in Identities
    <3>1. DOMAIN u.tracker.tracks \subseteq 1 .. u.tracker.next - 1
      BY <2>3 DEF TracksOK
    <3>2. QED BY <1>1, <2>3, <2>5, <3>1 DEF Identities
  <2>8. u.tracker.fallback \in BOOLEAN
    <3>1. u.tracker.fallback = tracker.fallback
      BY <2>2 DEF Follows
    <3>2. QED BY <1>1, <3>1, Zenon
  <2>9. QED BY <1>3, <2>2, <2>3, <2>6, <2>7, <2>8 DEF TrackedOK, u
<1>4. QED BY <1>1, <1>2, <1>3

\* The deques after a frame, and what is remembered of them.
CountsAfter(states, timestamp) ==
    Over([id \in {states[k].id : k \in DOMAIN states} |->
             IF Grows(id, timestamp) THEN steady[id] + 1 ELSE 1],
         steady)

LEMMA DequesStay ==
    ASSUME HistoriesHold, NEW states, NEW timestamp \in Int, StatesAt(states, timestamp),
           \A k \in DOMAIN states : states[k].id \in Identities
    PROVE  DequesHold(Appended(history, states), CountsAfter(states, timestamp))
<1> DEFINE ids == {states[k].id : k \in DOMAIN states}
           after == Appended(history, states)
           counts == CountsAfter(states, timestamp)
<1>1. /\ DOMAIN history \subseteq Identities /\ Histories(history)
      /\ DOMAIN steady = DOMAIN history
      /\ \A id \in DOMAIN history :
            steady[id] \in Nat \ {0} /\ InStep(history[id], steady[id])
  BY DEF HistoriesHold, DequesHold
<1>2. /\ DOMAIN after = ids \cup DOMAIN history
      /\ \A id \in DOMAIN history :
            (\A k \in DOMAIN states : states[k].id # id) => after[id] = history[id]
      /\ \A k \in DOMAIN states :
            Longer(after[states[k].id], Past(history, states[k].id), states[k])
  BY <1>1, AppendedSound
<1>3. /\ DOMAIN counts = ids \cup DOMAIN steady
      /\ \A id \in ids : counts[id] = IF Grows(id, timestamp) THEN steady[id] + 1 ELSE 1
      /\ \A id \in (DOMAIN steady) \ ids : counts[id] = steady[id]
  BY DEF CountsAfter, Over
<1> HIDE DEF after, counts
<1>4. ASSUME NEW k \in DOMAIN states
      PROVE  /\ HistoryOK(after[states[k].id], states[k].id)
             /\ counts[states[k].id] \in Nat \ {0}
             /\ InStep(after[states[k].id], counts[states[k].id])
  <2> DEFINE id == states[k].id
             old == Past(history, id)
             new == after[id]
  <2>1. states[k] \in States /\ states[k].timestamp = timestamp
    BY ElementOfSeq DEF StatesAt
  <2>2. Longer(new, old, states[k])
    BY <1>2
  <2>3. old \in Seq(States) /\ \A i \in DOMAIN old : old[i].id = id
    <3>1. CASE id \in DOMAIN history
      <4>1. HistoryOK(history[id], id) /\ old = history[id]
        BY <1>1, <3>1 DEF Histories, Past
      <4>2. QED BY <4>1 DEF HistoryOK
    <3>2. CASE id \notin DOMAIN history
      <4>1. old = <<>> /\ <<>> \in Seq(States) /\ DOMAIN <<>> = {}
        BY <3>2, EmptySeq DEF Past
      <4>2. QED BY <4>1
    <3>3. QED BY <3>1, <3>2
  <2>4. counts[id] = IF Grows(id, timestamp) THEN steady[id] + 1 ELSE 1
    BY <1>3
  <2> HIDE DEF id, old, new
  <2>5. HistoryOK(new, id)
    <3>1. (\A i \in DOMAIN old : old[i].id = states[k].id) => HistoryOK(new, states[k].id)
      BY <2>1, <2>2, <2>3, LongerIsSound
    <3>2. QED BY <2>3, <3>1 DEF id
  <2>6. counts[id] \in Nat \ {0} /\ InStep(new, counts[id])
    <3>1. CASE Grows(id, timestamp)
      <4>1. id \in DOMAIN history /\ history[id][Len(history[id])].timestamp < timestamp
        BY <3>1 DEF Grows
      <4>2. old = history[id] /\ steady[id] \in Nat \ {0} /\ InStep(old, steady[id])
        BY <1>1, <4>1 DEF Past, old
      <4>3. Len(old) # 0 /\ old[Len(old)].timestamp < states[k].timestamp
        BY <1>1, <2>1, <4>1, <4>2, ProcessorAssumption DEF Histories, HistoryOK
      <4>4. InStep(new, steady[id] + 1)
        BY <2>1, <2>2, <2>3, <4>2, <4>3, LongerIsSound
      <4>5. counts[id] = steady[id] + 1
        BY <2>4, <3>1
      <4>6. QED BY <4>2, <4>4, <4>5
    <3>2. CASE ~Grows(id, timestamp)
      <4>1. counts[id] = 1 /\ 1 \in Nat \ {0}
        BY <2>4, <3>2
      <4>2. InStep(new, 1)
        BY <2>1, <2>2, <2>3, <4>1, LongerIsSound
      <4>3. QED BY <4>1, <4>2
    <3>3. QED BY <3>1, <3>2
  <2>7. QED BY <2>5, <2>6 DEF id, new
<1>5. ASSUME NEW id \in DOMAIN after
      PROVE  /\ HistoryOK(after[id], id) /\ id \in Identities
             /\ counts[id] \in Nat \ {0} /\ InStep(after[id], counts[id])
  <2>1. CASE id \in ids
    BY <1>4, <2>1
  <2>2. CASE id \notin ids
    <3>1. id \in DOMAIN history /\ after[id] = history[id] /\ counts[id] = steady[id]
      BY <1>1, <1>2, <1>3, <2>2
    <3>2. QED BY <1>1, <3>1 DEF Histories
  <2>3. QED BY <2>1, <2>2
<1>6. DOMAIN counts = DOMAIN after
  BY <1>1, <1>2, <1>3
<1>7. QED BY <1>5, <1>6 DEF DequesHold, Histories, after, counts

\* What is remembered of the identities after a frame.
SeenAfter(states, detections) ==
    IF detections = <<>> THEN lastSeen
    ELSE Over([id \in {states[k].id : k \in DOMAIN states} |-> frame + 1], lastSeen)

LEMMA SeenStay ==
    ASSUME TypesHold, IdentitiesHold, ~simple,
           NEW detections, NEW timestamp, NEW u, TrackedOK(u, detections, timestamp)
    PROVE  LET seen == SeenAfter(u.states, detections)
               tracks == u.tracker.tracks
           IN /\ DOMAIN lastSeen \subseteq DOMAIN seen
              /\ Remembered(tracks, u.tracker.next, seen, frame + 1)
              /\ MissedCounted(tracks, seen, frame + 1,
                               IF u.raised THEN raises + 1 ELSE raises)
              /\ \A id \in DOMAIN tracks :
                    id \notin DOMAIN tracker.tracks => id \notin DOMAIN lastSeen
<1> DEFINE seen == SeenAfter(u.states, detections)
           ids == {u.states[k].id : k \in DOMAIN u.states}
           old == tracker.tracks
           tracks == u.tracker.tracks
           r == IF u.raised THEN raises + 1 ELSE raises
<1>1. /\ frame \in Nat /\ raises \in Nat /\ MaxMissed \in Nat
      /\ tracker.next \in Nat /\ TracksOK(old, tracker.next) /\ u.raised \in BOOLEAN
  BY TrackerAssumption DEF TypesHold, TrackerOK, TrackedOK
<1>2. /\ DOMAIN lastSeen \subseteq 1 .. tracker.next - 1
      /\ \A id \in DOMAIN lastSeen : lastSeen[id] \in 1 .. frame
      /\ DOMAIN old \subseteq DOMAIN lastSeen
  BY DEF IdentitiesHold, Remembered
<1>3. /\ \A id \in DOMAIN old :
            old[id].missed \in (frame - lastSeen[id]) - raises .. frame - lastSeen[id]
      /\ \A id \in DOMAIN lastSeen : frame - lastSeen[id] <= MaxMissed => id \in DOMAIN old
  BY DEF IdentitiesHold, MissedCounted
<1>4. Follows(u, tracker, timestamp) /\ Counts(u, tracker, detections)
  BY DEF TrackedOK
<1>5. /\ u.tracker.next \in Nat /\ tracker.next <= u.tracker.next
      /\ DOMAIN tracks \subseteq 1 .. u.tracker.next - 1
      /\ \A id \in DOMAIN tracks : id \in DOMAIN old \/ id >= tracker.next
      /\ ids \subseteq DOMAIN tracks
  BY <1>4 DEF Follows, TracksOK
<1>6. /\ \A id \in DOMAIN old : id \notin DOMAIN tracks => old[id].missed + 1 > MaxMissed
      /\ detections # <<>> =>
            \A id \in DOMAIN tracks :
               \/ id \in ids /\ tracks[id].missed = 0
               \/ id \notin ids /\ id \in DOMAIN old
                  /\ tracks[id].missed = old[id].missed + 1
      /\ detections # <<>> => ~u.raised
      /\ detections = <<>> =>
            \A id \in DOMAIN tracks :
               /\ id \in DOMAIN old
               /\ \/ tracks[id].missed = old[id].missed + 1
                  \/ u.raised /\ tracks[id].missed = old[id].missed
  BY <1>4 DEF Counts
<1>7. /\ detections = <<>> => seen = lastSeen
      /\ detections # <<>> =>
            /\ DOMAIN seen = ids \cup DOMAIN lastSeen
            /\ \A id \in ids : seen[id] = frame + 1
            /\ \A id \in (DOMAIN lastSeen) \ ids : seen[id] = lastSeen[id]
  BY DEF SeenAfter, Over
<1>8. r \in Nat /\ (u.raised => r = raises + 1) /\ (~u.raised => r = raises)
  BY <1>1
<1> HIDE DEF seen, ids, old, tracks, r
<1>9. DOMAIN lastSeen \subseteq DOMAIN seen
  BY <1>7
<1>10. ASSUME NEW id \in DOMAIN tracks PROVE id \in DOMAIN seen
  <2>1. CASE detections = <<>>
    BY <1>2, <1>6, <1>7, <2>1
  <2>2. CASE detections # <<>>
    BY <1>2, <1>6, <1>7, <2>2
  <2>3. QED BY <2>1, <2>2
<1>11. ASSUME NEW id \in DOMAIN seen
       PROVE  id \in 1 .. u.tracker.next - 1 /\ seen[id] \in 1 .. frame + 1
  <2>1. CASE detections = <<>>
    BY <1>1, <1>2, <1>5, <1>7, <2>1
  <2>2. CASE detections # <<>>
    BY <1>1, <1>2, <1>5, <1>7, <2>2
  <2>3. QED BY <2>1, <2>2
<1>12. ASSUME NEW id \in DOMAIN tracks
       PROVE  tracks[id].missed \in ((frame + 1) - seen[id]) - r .. (frame + 1) - seen[id]
  <2>1. CASE detections # <<>> /\ id \in ids
    <3>1. tracks[id].missed = 0 /\ seen[id] = frame + 1
      BY <1>6, <1>7, <2>1
    <3>2. QED BY <1>1, <1>8, <3>1
  <2>2. CASE detections # <<>> /\ id \notin ids
    <3>1. id \in DOMAIN old /\ tracks[id].missed = old[id].missed + 1
      BY <1>6, <2>2
    <3>2. seen[id] = lastSeen[id] /\ lastSeen[id] \in 1 .. frame
      BY <1>2, <1>7, <2>2, <3>1
    <3>3. old[id].missed \in (frame - lastSeen[id]) - raises .. frame - lastSeen[id]
      BY <1>3, <3>1
    <3>4. r = raises
      BY <1>6, <1>8, <2>2
    <3>5. QED BY <1>1, <3>1, <3>2, <3>3, <3>4
  <2>3. CASE detections = <<>>
    <3>1. /\ id \in DOMAIN old
          /\ \/ tracks[id].missed = old[id].missed + 1
             \/ u.raised /\ tracks[id].missed = old[id].missed
      BY <1>6, <2>3
    <3>2. seen[id] = lastSeen[id] /\ lastSeen[id] \in 1 .. frame
      BY <1>2, <1>7, <2>3, <3>1
    <3>3. old[id].missed \in (frame - lastSeen[id]) - raises .. frame - lastSeen[id]
      BY <1>3, <3>1
    <3>4. CASE tracks[id].missed = old[id].missed + 1
      <4>1. r = raises \/ r = raises + 1
        BY <1>1, <1>8
      <4>2. QED BY <1>1, <3>2, <3>3, <3>4, <4>1
    <3>5. CASE u.raised /\ tracks[id].missed = old[id].missed
      <4>1. r = raises + 1
        BY <1>8, <3>5
      <4>2. QED BY <1>1, <3>2, <3>3, <3>5, <4>1
    <3>6. QED BY <3>1, <3>4, <3>5
  <2>4. QED BY <2>1, <2>2, <2>3
<1>13. ASSUME NEW id \in DOMAIN seen, (frame + 1) - seen[id] <= MaxMissed
       PROVE  id \in DOMAIN tracks
  <2>1. CASE detections # <<>> /\ id \in ids
    BY <1>5, <2>1 DEF ids, tracks
  <2>2. CASE ~(detections # <<>> /\ id \in ids)
    <3>1. id \in DOMAIN lastSeen /\ seen[id] = lastSeen[id] /\ lastSeen[id] \in 1 .. frame
      BY <1>2, <1>7, <2>2
    <3>2. frame - lastSeen[id] <= MaxMissed - 1
      BY <1>1, <1>13, <3>1
    <3>3. id \in DOMAIN old
      BY <1>1, <1>3, <3>1, <3>2
    <3>4. old[id].missed + 1 <= MaxMissed
      <4>1. old[id].missed \in (frame - lastSeen[id]) - raises .. frame - lastSeen[id]
        BY <1>3, <3>3
      <4>2. QED BY <1>1, <3>1, <3>2, <4>1
    <3>5. old[id].missed \in Int
      BY <1>1, <1>3, <3>1, <3>3
    <3>6. QED BY <1>1, <1>6, <3>3, <3>4, <3>5
  <2>3. QED BY <2>1, <2>2
<1>14. ASSUME NEW id \in DOMAIN tracks, id \notin DOMAIN old
       PROVE  id \notin DOMAIN lastSeen
  <2>1. id >= tracker.next
    BY <1>5, <1>14 DEF old, tracks
  <2>2. QED BY <1>1, <1>2, <2>1
<1>15. Remembered(tracks, u.tracker.next, seen, frame + 1)
  BY <1>10, <1>11 DEF Remembered
<1>16. MissedCounted(tracks, seen, frame + 1, r)
  BY <1>12, <1>13 DEF MissedCounted
<1>17. QED BY <1>9, <1>14, <1>15, <1>16 DEF seen, tracks, old, r

LEMMA TargetsStay ==
    ASSUME HistoriesHold, IdentitiesHold, TypesHold, ~simple,
           NEW detections, NEW timestamp \in Int, NEW u, TrackedOK(u, detections, timestamp)
    PROVE  LET seen == SeenAfter(u.states, detections)
               histories == Appended(history, u.states)
           IN DOMAIN histories \subseteq DOMAIN seen /\ OneTarget(u.tracker.tracks, histories)
<1> DEFINE seen == SeenAfter(u.states, detections)
           states == u.states
           ids == {states[k].id : k \in DOMAIN states}
           old == tracker.tracks
           tracks == u.tracker.tracks
           after == Appended(history, states)
<1>1. /\ DOMAIN lastSeen \subseteq 1 .. tracker.next - 1
      /\ DOMAIN history \subseteq DOMAIN lastSeen /\ OneTarget(old, history)
      /\ Histories(history) /\ tracker.next \in Nat
  BY DEF IdentitiesHold, Remembered, HistoriesHold, DequesHold, TypesHold, TrackerOK
<1>2. /\ StatesAt(states, timestamp)
      /\ \A id \in DOMAIN tracks : id \in DOMAIN old \/ id >= tracker.next
      /\ \A id \in (DOMAIN tracks) \cap DOMAIN old :
            tracks[id].state.class = old[id].state.class
      /\ \A k \in DOMAIN states :
            /\ states[k].id \in DOMAIN tracks
            /\ states[k].class = tracks[states[k].id].state.class
  BY DEF TrackedOK, Follows
<1>3. DOMAIN lastSeen \subseteq DOMAIN seen /\ DOMAIN tracks \subseteq DOMAIN seen
  BY SeenStay DEF Remembered
<1> HIDE DEF seen, states, old, tracks
<1>4. /\ DOMAIN after = ids \cup DOMAIN history
      /\ \A id \in DOMAIN history :
            (\A k \in DOMAIN states : states[k].id # id) => after[id] = history[id]
      /\ \A k \in DOMAIN states :
            Longer(after[states[k].id], Past(history, states[k].id), states[k])
  BY <1>1, <1>2, AppendedSound
<1> HIDE DEF after
<1>5. DOMAIN after \subseteq DOMAIN seen
  BY <1>1, <1>2, <1>3, <1>4
\* A track that has a history is not new.
<1>6. ASSUME NEW id \in (DOMAIN history) \cap DOMAIN tracks
      PROVE  OneClass(history[id], tracks[id].state.class)
  <2>1. id \in DOMAIN old
    BY <1>1, <1>2
  <2>2. OneClass(history[id], old[id].state.class)
    BY <1>1, <2>1 DEF OneTarget
  <2>3. QED BY <1>2, <2>1, <2>2
<1>7. ASSUME NEW k \in DOMAIN states
      PROVE  OneClass(after[states[k].id], tracks[states[k].id].state.class)
  <2> DEFINE id == states[k].id
             past_ == Past(history, id)
  <2>1. states[k] \in States /\ id \in DOMAIN tracks
        /\ states[k].class = tracks[id].state.class
    BY <1>2, ElementOfSeq DEF StatesAt
  <2>2. past_ \in Seq(States) /\ OneClass(past_, states[k].class)
    <3>1. CASE id \in DOMAIN history
      <4>1. HistoryOK(history[id], id) /\ past_ = history[id]
        BY <1>1, <3>1 DEF Histories, Past
      <4>2. OneClass(history[id], tracks[id].state.class)
        BY <1>6, <2>1, <3>1
      <4>3. QED BY <2>1, <4>1, <4>2 DEF HistoryOK
    <3>2. CASE id \notin DOMAIN history
      <4>1. past_ = <<>> /\ <<>> \in Seq(States) /\ DOMAIN <<>> = {}
        BY <3>2, EmptySeq DEF Past
      <4>2. QED BY <4>1 DEF OneClass
    <3>3. QED BY <3>1, <3>2
  <2>3. Longer(after[id], past_, states[k])
    BY <1>4
  <2> HIDE DEF past_
  <2>4. OneClass(after[id], states[k].class)
    <3>1. 1 \in Nat \ {0}
      OBVIOUS
    <3>2. QED BY <2>1, <2>2, <2>3, <3>1, LongerIsSound
  <2>5. QED BY <2>1, <2>4
<1>8. ASSUME NEW id \in DOMAIN after
      PROVE  /\ \A i, j \in DOMAIN after[id] : after[id][i].class = after[id][j].class
             /\ id \in DOMAIN tracks => OneClass(after[id], tracks[id].state.class)
  <2>1. CASE id \in ids
    BY <1>7, <2>1 DEF OneClass
  <2>2. CASE id \notin ids
    <3>1. id \in DOMAIN history /\ after[id] = history[id]
      BY <1>4, <2>2
    <3>2. QED BY <1>1, <1>6, <3>1 DEF OneTarget
  <2>3. QED BY <2>1, <2>2
<1>9. OneTarget(tracks, after)
  BY <1>8 DEF OneTarget
<1>10. QED BY <1>5, <1>9 DEF seen, tracks, after, states

-----------------------------------------------------------------------------
(* A frame *)

\* What a frame is made of, and what it leaves behind.
Processed(input, faults, timestamp, future, detections, u, predictions, risks) ==
    /\ timestamp \in Nat
    /\ detections = Detected(input, faults, timestamp)
    /\ detections \in Seq(DetectionsOf(Device))
    /\ TrackedOK(u, detections, timestamp)
    /\ predictions = Predictions(u.states, Appended(history, u.states), faults, timestamp,
                                 future)
    /\ risks = Risks(u.states, predictions, faults)
    /\ tracker' = u.tracker
    /\ history' = Appended(history, u.states)
    /\ steady' = CountsAfter(u.states, timestamp)
    /\ lastSeen' = SeenAfter(u.states, detections)
    /\ raises' = IF u.raised THEN raises + 1 ELSE raises
    /\ result'.timestamp = timestamp /\ result'.faults = faults
    /\ result'.rows = input.rows /\ result'.before = tracker.tracks
    /\ result'.detections = detections /\ result'.tracks = u.states
    /\ result'.predictions = Made(predictions)
    /\ result'.events = EventsOf(Made(risks), seq)
    /\ \A k \in DOMAIN risks : <<"risk", k>> \in result'.errors <=> risks[k] = <<>>

\* What becomes of the alarms of a frame.
PublishedBy(events, refused) ==
    /\ refused \subseteq DOMAIN events
    /\ seq' = seq + Len(events)
    /\ unsent' = unsent + Cardinality(refused)
    /\ published' = IF Publisher = "none" THEN published
                    ELSE published \o Picked(events, (DOMAIN events) \ refused)

LEMMA FrameIsProcessed ==
    ASSUME FrameInv, Next
    PROVE  \E input, faults, timestamp, future, detections, u, predictions, risks, refused :
              /\ input \in Frames /\ future \in Seq(Place)
              /\ Processed(input, faults, timestamp, future, detections, u, predictions,
                           risks)
              /\ PublishedBy(result'.events, refused)
              /\ frame' = frame + 1 /\ last' = <<timestamp>> /\ now' = timestamp
              /\ faulty' \in Nat /\ back' \in Nat
              /\ UNCHANGED <<simple, paced>>
<1>1. PICK input \in Frames, faults \in Faults, step \in ClockSteps, future \in Futures :
         /\ tracker.next + Len(input.rows) <= MaxTrackId + 1
         /\ now + step >= 0
         /\ faulty' = IF faults = {} THEN faulty ELSE faulty + 1
         /\ back' = IF step < 0 THEN back + 1 ELSE back
         /\ ProcessFrame(input, faults, step, future)
  BY Zenon DEF Next
<1>2. \E timestamp, detections, u, histories, predictions, risks, alarms, r :
         /\ timestamp = StartOfFrame(now + step)
         /\ detections = Detected(input, faults, timestamp)
         /\ u = Tracked(detections, timestamp)
         /\ histories = Appended(history, u.states)
         /\ predictions = Predictions(u.states, histories, faults, timestamp, future)
         /\ risks = Risks(u.states, predictions, faults)
         /\ alarms = Made(risks)
         /\ r = [timestamp |-> timestamp, rows |-> input.rows, before |-> tracker.tracks,
                 detections |-> detections, tracks |-> u.states,
                 predictions |-> Made(predictions), risks |-> alarms,
                 events |-> [j \in DOMAIN alarms |-> AlarmOf(alarms[j], seq + j - 1)],
                 errors |-> Errors(faults, u, histories, predictions, risks),
                 faults |-> faults]
         /\ Finish(u, histories, r)
  BY <1>1 DEF ProcessFrame
<1>3. PICK timestamp, detections, u, histories, predictions, risks, alarms, r :
         /\ timestamp = StartOfFrame(now + step)
         /\ detections = Detected(input, faults, timestamp)
         /\ u = Tracked(detections, timestamp)
         /\ histories = Appended(history, u.states)
         /\ predictions = Predictions(u.states, histories, faults, timestamp, future)
         /\ risks = Risks(u.states, predictions, faults)
         /\ alarms = Made(risks)
         /\ r = [timestamp |-> timestamp, rows |-> input.rows, before |-> tracker.tracks,
                 detections |-> detections, tracks |-> u.states,
                 predictions |-> Made(predictions), risks |-> alarms,
                 events |-> [j \in DOMAIN alarms |-> AlarmOf(alarms[j], seq + j - 1)],
                 errors |-> Errors(faults, u, histories, predictions, risks),
                 faults |-> faults]
         /\ Finish(u, histories, r)
  BY <1>2, Zenon
<1>4. /\ r.timestamp = timestamp /\ r.rows = input.rows /\ r.before = tracker.tracks
      /\ r.detections = detections /\ r.tracks = u.states
      /\ r.predictions = Made(predictions) /\ r.faults = faults
      /\ r.errors = Errors(faults, u, histories, predictions, risks)
  BY <1>3
<1>5. r.events = EventsOf(Made(risks), seq)
  <2>1. r.events = EventsOf(alarms, seq)
    BY <1>3 DEF EventsOf
  <2>2. QED BY <1>3, <2>1
<1>6. TypesHold
  BY DEF FrameInv
<1>7. timestamp \in Nat
  <2>1. /\ now + step \in Nat /\ MinInterval \in Nat
        /\ last \in Seq(Nat) /\ Len(last) <= 1
    BY <1>1, <1>6, ProcessorAssumption DEF TypesHold
  <2>2. last # <<>> => last[1] \in Nat
    <3>1. last # <<>> => 1 \in 1 .. Len(last)
      BY <2>1
    <3>2. QED BY <2>1, <3>1, ElementOfSeq
  <2>3. timestamp = StartOfFrame(now + step)
    BY <1>3
  <2>4. StartOfFrame(now + step) \in {last[1] + MinInterval, now + step}
    BY Zenon DEF StartOfFrame
  <2>5. CASE last = <<>>
    BY <2>1, <2>3, <2>5 DEF StartOfFrame
  <2>6. CASE last # <<>>
    BY <2>1, <2>2, <2>3, <2>4, <2>6
  <2>7. QED BY <2>5, <2>6
<1>8. /\ detections \in Seq(DetectionsOf(Device))
      /\ Len(detections) <= Len(input.rows)
  BY <1>3, <1>7, DetectedSound
<1>9. input.rows \in Seq(Rows) /\ future \in Seq(Place)
  BY ProcessorAssumption
<1>10. TrackedOK(u, detections, timestamp)
  <2>1. tracker.next \in Nat /\ Len(detections) \in Nat /\ Len(input.rows) \in Nat
        /\ MaxTrackId \in Nat
    BY <1>6, <1>8, <1>9, LenProperties, TrackerAssumption DEF TypesHold, TrackerOK
  <2>2. tracker.next + Len(detections) <= MaxTrackId + 1
    BY <1>1, <1>8, <2>1
  <2>3. QED BY <1>3, <1>6, <1>7, <1>8, <2>2, TrackedSound
<1>11. \A k \in DOMAIN risks : <<"risk", k>> \in r.errors <=> risks[k] = <<>>
  <2>1. \A k \in DOMAIN risks :
           <<"risk", k>> \in Errors(faults, u, histories, predictions, risks)
             <=> risks[k] = <<>>
    BY RiskErrors
  <2>2. QED BY <1>4, <2>1, Zenon
<1> DEFINE refused == {j \in DOMAIN r.events : <<"mqtt_publish", j>> \in r.errors}
           sent == Picked(r.events, (DOMAIN r.events) \ refused)
<1>12. /\ tracker' = u.tracker /\ history' = histories
       /\ last' = <<r.timestamp>> /\ now' = r.timestamp /\ result' = r
       /\ raises' = IF u.raised THEN raises + 1 ELSE raises
       /\ frame' = frame + 1
       /\ UNCHANGED <<simple, paced>>
  BY <1>3, Zenon DEF Finish, Remember
<1>13. PublishedBy(r.events, refused)
  <2>1. refused \subseteq DOMAIN r.events
    OBVIOUS
  <2>2. /\ seq' = seq + Len(r.events)
        /\ unsent' = unsent + Cardinality(refused)
        /\ published' = IF Publisher = "none" THEN published ELSE published \o sent
    BY <1>3, Zenon DEF Finish, Counted
  <2>3. QED BY <2>1, <2>2, Zenon DEF PublishedBy
<1>14. lastSeen' = SeenAfter(r.tracks, r.detections)
  BY <1>3, Zenon DEF Finish, Remember, SeenAfter
<1>15. steady' = CountsAfter(r.tracks, r.timestamp)
  BY <1>3, Zenon DEF Finish, Remember, CountsAfter
<1>16. faulty' \in Nat /\ back' \in Nat
  BY <1>1, <1>6 DEF TypesHold
<1> HIDE DEF refused, sent
<1>17. Processed(input, faults, timestamp, future, detections, u, predictions, risks)
  <2>1. /\ result'.timestamp = timestamp /\ result'.faults = faults
        /\ result'.rows = input.rows /\ result'.before = tracker.tracks
        /\ result'.detections = detections /\ result'.tracks = u.states
        /\ result'.predictions = Made(predictions)
        /\ result'.events = EventsOf(Made(risks), seq)
        /\ \A k \in DOMAIN risks : <<"risk", k>> \in result'.errors <=> risks[k] = <<>>
    BY <1>4, <1>5, <1>11, <1>12, Zenon
  <2>2. /\ steady' = CountsAfter(u.states, timestamp)
        /\ lastSeen' = SeenAfter(u.states, detections)
    BY <1>4, <1>14, <1>15, Zenon
  <2>3. /\ detections = Detected(input, faults, timestamp)
        /\ predictions = Predictions(u.states, Appended(history, u.states), faults,
                                     timestamp, future)
        /\ risks = Risks(u.states, predictions, faults)
        /\ history' = Appended(history, u.states)
    BY <1>3, <1>12, Zenon
  <2>4. QED BY <1>7, <1>8, <1>10, <1>12, <2>1, <2>2, <2>3, Zenon DEF Processed
<1>18. PublishedBy(result'.events, refused)
  BY <1>12, <1>13
<1>19. last' = <<timestamp>> /\ now' = timestamp
  BY <1>4, <1>12
<1>20. input \in Frames /\ future \in Seq(Place) /\ UNCHANGED <<simple, paced>>
  BY <1>9, <1>12
<1>21. WITNESS input, faults, timestamp, future, detections, u, predictions, risks, refused
<1>22. QED BY <1>12, <1>16, <1>17, <1>18, <1>19, <1>20

\* The alarms of the frame have numbers of their own, and all are accounted for.
LEMMA NumbersStay ==
    ASSUME TypesHold, NumbersHold, NEW events \in Seq(Alarms),
           \A j \in DOMAIN events : events[j].seq = seq + j - 1,
           NEW refused, PublishedBy(events, refused)
    PROVE  NumbersHold' /\ seq' \in Nat /\ unsent' \in Nat
<1> DEFINE sent == Picked(events, (DOMAIN events) \ refused)
<1>1. /\ seq \in Nat /\ unsent \in Nat /\ Numbered(published, seq)
      /\ Publisher # "none" => seq = Len(published) + unsent
  BY DEF TypesHold, NumbersHold
<1>2. /\ refused \subseteq DOMAIN events
      /\ seq' = seq + Len(events)
      /\ unsent' = unsent + Cardinality(refused)
      /\ published' = IF Publisher = "none" THEN published ELSE published \o sent
  BY DEF PublishedBy
<1>3. /\ Numbered(published, seq + Len(events))
      /\ Numbered(published \o sent, seq + Len(events))
      /\ Cardinality(refused) \in Nat
      /\ Len(published \o sent) + Cardinality(refused) = Len(published) + Len(events)
  BY <1>1, <1>2, PublishedSound
<1>4. /\ Len(events) \in Nat /\ Len(published) \in Nat /\ Len(published \o sent) \in Nat
  BY <1>1, <1>3, LenProperties DEF Numbered
<1> HIDE DEF sent
<1>5. seq' \in Nat /\ unsent' \in Nat
  BY <1>1, <1>2, <1>3, <1>4
<1>6. CASE Publisher = "none"
  <2>1. published' = published
    BY <1>2, <1>6
  <2>2. Numbered(published', seq')
    BY <1>2, <1>3, <2>1
  <2>3. QED BY <1>5, <1>6, <2>2 DEF NumbersHold
<1>7. CASE Publisher # "none"
  <2>1. published' = published \o sent
    BY <1>2, <1>7
  <2>2. Numbered(published', seq')
    BY <1>2, <1>3, <2>1
  <2>3. seq' = Len(published') + unsent'
    BY <1>1, <1>2, <1>3, <1>4, <1>7, <2>1
  <2>4. QED BY <1>5, <2>2, <2>3 DEF NumbersHold
<1>8. QED BY <1>6, <1>7

\* KeptCoverSuppressed of the frame.
LEMMA FrameSuppresses ==
    ASSUME NEW input \in Frames, NEW faults, NEW timestamp, NEW future, NEW detections,
           NEW u, NEW predictions, NEW risks,
           Processed(input, faults, timestamp, future, detections, u, predictions, risks)
    PROVE  KeptCoverSuppressed'
<1>1. /\ timestamp \in Nat /\ detections = Detected(input, faults, timestamp)
      /\ result'.detections = detections /\ result'.rows = input.rows
      /\ result'.faults = faults
  BY DEF Processed
<1>2. /\ Apart(detections)
      /\ <<"detect", 0>> \notin faults =>
            \A n \in DOMAIN input.rows :
               Confident(input.rows[n]) => Represents(detections, input.rows[n])
  BY <1>1, DetectedSound
<1>3. /\ Apart(result'.detections)
      /\ <<"detect", 0>> \notin result'.faults =>
            \A n \in DOMAIN result'.rows :
               Confident(result'.rows[n]) => Represents(result'.detections, result'.rows[n])
  BY <1>1, <1>2
<1>4. QED BY <1>3 DEF KeptCoverSuppressed, Apart, Represents

\* NoBlockingPair of the frame.
LEMMA FrameMatches ==
    ASSUME NEW input, NEW faults, NEW timestamp, NEW future, NEW detections,
           NEW u, NEW predictions, NEW risks, UNCHANGED simple,
           Processed(input, faults, timestamp, future, detections, u, predictions, risks)
    PROVE  NoBlockingPair'
<1>1. /\ TrackedOK(u, detections, timestamp)
      /\ result'.detections = detections /\ result'.before = tracker.tracks
      /\ result'.tracks = u.states
  BY DEF Processed
<1>2. ASSUME ~simple, detections # <<>>
      PROVE  /\ \A i, j \in DOMAIN u.states : u.states[i].id = u.states[j].id => i = j
             /\ NoneBlocks(u.states, tracker.tracks, detections)
  BY <1>1, <1>2 DEF TrackedOK, StatesAt
<1>3. ASSUME ~simple', result'.detections # <<>>
      PROVE  /\ \A i, j \in DOMAIN result'.tracks :
                   result'.tracks[i].id = result'.tracks[j].id => i = j
             /\ NoneBlocks(result'.tracks, result'.before, result'.detections)
  BY <1>1, <1>2, <1>3
<1>4. \A p : Overlap(result'.before, result'.detections, <<p[1], p[2]>>)
              = Overlap(result'.before, result'.detections, p)
  BY DEF Overlap
<1>5. QED BY <1>3, <1>4 DEF NoBlockingPair, NoneBlocks

\* PredictionsAreSound of the frame.
LEMMA FramePredicts ==
    ASSUME NEW input, NEW faults, NEW timestamp, NEW future \in Seq(Place),
           NEW detections, NEW u, NEW predictions, NEW risks, HistoriesHold,
           Processed(input, faults, timestamp, future, detections, u, predictions, risks)
    PROVE  PredictionsAreSound'
<1> DEFINE histories == Appended(history, u.states)
           counts == CountsAfter(u.states, timestamp)
           states == u.states
           made == Made(predictions)
<1>1. /\ timestamp \in Nat /\ timestamp \in Int
      /\ predictions = Predictions(states, histories, faults, timestamp, future)
      /\ history' = histories /\ steady' = counts
      /\ result'.timestamp = timestamp /\ result'.faults = faults
      /\ result'.tracks = states /\ result'.predictions = made
      /\ StatesAt(states, timestamp)
      /\ \A k \in DOMAIN states : states[k].id \in Identities
  BY DEF Processed, TrackedOK
<1>2. DequesHold(histories, counts)
  BY <1>1, DequesStay
<1>3. /\ Histories(histories)
      /\ \A id \in DOMAIN histories : counts[id] \in Nat /\ InStep(histories[id], counts[id])
  BY <1>2 DEF DequesHold
<1>4. \A k \in DOMAIN states : states[k].id \in DOMAIN histories
  <2>1. Histories(history)
    BY DEF HistoriesHold, DequesHold
  <2>2. DOMAIN histories = {states[k].id : k \in DOMAIN states} \cup DOMAIN history
    BY <1>1, <2>1, AppendedSound
  <2> HIDE DEF histories
  <2>3. QED BY <2>2
<1> HIDE DEF histories, counts, states, made
<1>5. \A k \in DOMAIN states : HistoryOK(histories[states[k].id], states[k].id)
  BY <1>3, <1>4 DEF Histories
<1>6. /\ \A j \in DOMAIN made :
            /\ \E k \in DOMAIN states : made[j].id = states[k].id
            /\ PointsFollow(made[j].points, timestamp)
            /\ PointsWhereItLooked(made[j], histories[made[j].id])
      /\ \A k \in DOMAIN states :
            /\ Full(histories[states[k].id]) /\ Predictable(histories[states[k].id])
            /\ <<"predict", k>> \notin faults
            => \E j \in DOMAIN made : made[j].id = states[k].id
  BY <1>1, <1>5, PredictionsSound DEF made
<1>7. ASSUME NEW k \in DOMAIN states,
             Len(histories[states[k].id]) >= Larger(HistoryLen, PredictHistoryLen),
             counts[states[k].id] >= PredictHistoryLen
      PROVE  Full(histories[states[k].id]) /\ Predictable(histories[states[k].id])
  <2> DEFINE list == histories[states[k].id]
             m == counts[states[k].id]
  <2>1. list \in Seq(States) /\ Len(list) \in Nat /\ m \in Nat /\ InStep(list, m)
    BY <1>3, <1>4, <1>5, LenProperties DEF HistoryOK
  <2>2. Len(list) >= HistoryLen /\ Len(list) >= PredictHistoryLen
    BY <1>7, <2>1, ProcessorAssumption, PredictorAssumption DEF Larger
  <2>3. m >= PredictHistoryLen
    BY <1>7
  <2> HIDE DEF list, m
  <2>4. Full(list)
    BY <2>2 DEF Full
  <2>5. Predictable(list)
    BY <2>1, <2>2, <2>3, InStepIsPredictable
  <2>6. QED BY <2>4, <2>5 DEF list
<1>8. PredictionRecovers'
  <2>1. ASSUME NEW k \in DOMAIN result'.tracks,
               Len(history'[result'.tracks[k].id]) >= Larger(HistoryLen, PredictHistoryLen),
               steady'[result'.tracks[k].id] >= PredictHistoryLen,
               <<"predict", k>> \notin result'.faults
        PROVE  \E j \in DOMAIN result'.predictions :
                  result'.predictions[j].id = result'.tracks[k].id
    BY <1>1, <1>6, <1>7, <2>1
  <2>2. QED BY <2>1 DEF PredictionRecovers
<1>9. PredictedPointsFollow'
  <2>1. \A j \in DOMAIN result'.predictions :
           PointsFollow(result'.predictions[j].points, result'.timestamp)
    BY <1>1, <1>6
  <2>2. QED BY <2>1 DEF PredictedPointsFollow, PointsFollow
<1>10. PredictedWhereItLooked'
  <2>1. \A j \in DOMAIN result'.predictions :
           PointsWhereItLooked(result'.predictions[j],
                               history'[result'.predictions[j].id])
    BY <1>1, <1>6
  <2>2. QED BY <2>1 DEF PredictedWhereItLooked, PointsWhereItLooked
<1>11. QED BY <1>8, <1>9, <1>10 DEF PredictionsAreSound

\* EveryTrackIsAssessed of the frame.
LEMMA FrameAssesses ==
    ASSUME TypesHold, NEW input, NEW faults, NEW timestamp, NEW future,
           NEW detections, NEW u, NEW predictions, NEW risks,
           Processed(input, faults, timestamp, future, detections, u, predictions, risks)
    PROVE  /\ EveryTrackIsAssessed'
           /\ result'.events \in Seq(Alarms)
           /\ \A j \in DOMAIN result'.events : result'.events[j].seq = seq + j - 1
<1> DEFINE states == u.states
           assessed == Risks(states, predictions, faults)
           events == EventsOf(Made(assessed), seq)
<1>1. /\ timestamp \in Int /\ seq \in Nat
      /\ risks = assessed
      /\ result'.tracks = states /\ result'.events = events
      /\ \A k \in DOMAIN risks : <<"risk", k>> \in result'.errors <=> risks[k] = <<>>
      /\ StatesAt(states, timestamp)
  BY DEF Processed, TrackedOK, TypesHold
<1> HIDE DEF states
<1>2. /\ DOMAIN assessed = DOMAIN states
      /\ events \in Seq(Alarms)
      /\ \A j \in DOMAIN events : events[j].seq = seq + j - 1
      /\ OneAlarmEach(events, states, assessed)
  BY <1>1, AlarmsSound
<1> HIDE DEF assessed, events
<1>3. ASSUME NEW k \in DOMAIN states
      PROVE  Cardinality({j \in DOMAIN result'.events :
                             result'.events[j].id = result'.tracks[k].id})
               = (IF <<"risk", k>> \in result'.errors THEN 0 ELSE 1)
  <2>1. {j \in DOMAIN result'.events : result'.events[j].id = result'.tracks[k].id}
          = {j \in DOMAIN events : events[j].id = states[k].id}
    BY <1>1
  <2>2. Cardinality({j \in DOMAIN events : events[j].id = states[k].id})
          = IF risks[k] = <<>> THEN 0 ELSE 1
    BY <1>1, <1>2 DEF OneAlarmEach
  <2>3. <<"risk", k>> \in result'.errors <=> risks[k] = <<>>
    BY <1>1, <1>2
  <2>4. QED BY <2>1, <2>2, <2>3, Zenon
<1>4. EveryTrackIsAssessed'
  BY <1>1, <1>3 DEF EveryTrackIsAssessed
<1>5. QED BY <1>1, <1>2, <1>4

-----------------------------------------------------------------------------
(* The theorems *)

\* What the properties say of the last frame.
ResultHolds ==
    KeptCoverSuppressed /\ NoBlockingPair /\ PredictionsAreSound /\ EveryTrackIsAssessed

LEMMA FrameInvStarts == Init => FrameInv /\ ResultHolds
<1> SUFFICES ASSUME Init PROVE FrameInv /\ ResultHolds
  OBVIOUS
<1>1. /\ simple \in BOOLEAN /\ paced \in BOOLEAN
      /\ history = <<>> /\ seq = 0 /\ last = <<>> /\ now = 1
      /\ result = NoResult /\ published = <<>>
      /\ frame = 0 /\ faulty = 0 /\ back = 0 /\ raises = 0 /\ unsent = 0
      /\ lastSeen = <<>> /\ steady = <<>>
  BY DEF Init
<1>2. DOMAIN <<>> = {} /\ Len(<<>>) = 0 /\ \A S : <<>> \in Seq(S)
  BY EmptySeq
<1>3. PICK fallback \in BOOLEAN : tracker = NewTracker(fallback)
  BY DEF Init
<1>4. tracker.tracks = <<>> /\ tracker.next = 1
  BY <1>3 DEF NewTracker
<1>5. tracker.fallback \in BOOLEAN
  <2>1. CASE fallback = TRUE
    <3>1. tracker.fallback = TRUE
      BY <1>3, <2>1 DEF NewTracker
    <3>2. QED BY <3>1
  <2>2. CASE fallback = FALSE
    <3>1. tracker.fallback = FALSE
      BY <1>3, <2>2 DEF NewTracker
    <3>2. QED BY <3>1
  <2>3. QED BY <2>1, <2>2
<1>6. TrackerOK(tracker)
  <2>1. tracker.next \in Nat \ {0} /\ tracker.next <= MaxTrackId + 1
    BY <1>4, TrackerAssumption
  <2>2. TracksOK(<<>>, 1)
    BY <1>2 DEF TracksOK
  <2>3. QED BY <1>4, <2>1, <2>2 DEF TrackerOK
<1>7. TypesHold
  <2>1. last \in Seq(Nat) /\ Len(last) <= 1
    BY <1>1, <1>2
  <2>2. QED BY <1>1, <1>4, <1>5, <1>6, <2>1 DEF TypesHold
<1>8. HistoriesHold
  BY <1>1, <1>2 DEF HistoriesHold, DequesHold, Histories
<1>9. IdentitiesHold
  BY <1>1, <1>2, <1>4 DEF IdentitiesHold, Remembered, MissedCounted, OneTarget
<1>10. NumbersHold
  BY <1>1, <1>2 DEF NumbersHold, Numbered
<1>11. /\ result.rows = <<>> /\ result.before = <<>> /\ result.detections = <<>>
       /\ result.tracks = <<>> /\ result.predictions = <<>>
  BY <1>1 DEF NoResult
<1>12. KeptCoverSuppressed /\ NoBlockingPair /\ EveryTrackIsAssessed
  BY <1>2, <1>11 DEF KeptCoverSuppressed, NoBlockingPair, EveryTrackIsAssessed
<1>13. PredictionsAreSound
  BY <1>2, <1>11
  DEF PredictionsAreSound, PredictionRecovers, PredictedPointsFollow,
      PredictedWhereItLooked
<1>14. QED BY <1>7, <1>8, <1>9, <1>10, <1>12, <1>13 DEF FrameInv, ResultHolds

\* IdentitiesNeverReused, of one frame.
NewIsNew == \A id \in DOMAIN tracker'.tracks :
               id \notin DOMAIN tracker.tracks => id \notin DOMAIN lastSeen

LEMMA FrameKeepsInv == FrameInv /\ Next => FrameInv' /\ ResultHolds' /\ NewIsNew
<1> SUFFICES ASSUME FrameInv, Next PROVE FrameInv' /\ ResultHolds' /\ NewIsNew
  OBVIOUS
<1>1. PICK input, faults, timestamp, future, detections, u, predictions, risks, refused :
         /\ input \in Frames /\ future \in Seq(Place)
         /\ Processed(input, faults, timestamp, future, detections, u, predictions, risks)
         /\ PublishedBy(result'.events, refused)
         /\ frame' = frame + 1 /\ last' = <<timestamp>> /\ now' = timestamp
         /\ faulty' \in Nat /\ back' \in Nat
         /\ UNCHANGED <<simple, paced>>
  BY FrameIsProcessed
<1>2. TypesHold /\ HistoriesHold /\ IdentitiesHold /\ NumbersHold
  BY DEF FrameInv
<1>3. /\ timestamp \in Nat /\ TrackedOK(u, detections, timestamp)
      /\ tracker' = u.tracker /\ history' = Appended(history, u.states)
      /\ steady' = CountsAfter(u.states, timestamp)
      /\ lastSeen' = SeenAfter(u.states, detections)
      /\ raises' = IF u.raised THEN raises + 1 ELSE raises
  BY <1>1 DEF Processed
<1>4. /\ EveryTrackIsAssessed'
      /\ result'.events \in Seq(Alarms)
      /\ \A j \in DOMAIN result'.events : result'.events[j].seq = seq + j - 1
  BY <1>1, <1>2, FrameAssesses
<1>5. ResultHolds'
  <2>1. KeptCoverSuppressed'
    BY <1>1, FrameSuppresses
  <2>2. NoBlockingPair'
    BY <1>1, FrameMatches
  <2>3. PredictionsAreSound'
    BY <1>1, <1>2, FramePredicts
  <2>4. QED BY <1>4, <2>1, <2>2, <2>3 DEF ResultHolds
<1>6. NumbersHold' /\ seq' \in Nat /\ unsent' \in Nat
  BY <1>1, <1>2, <1>4, NumbersStay
<1>7. TypesHold'
  <2>1. simple' = simple /\ paced' = paced /\ simple \in BOOLEAN /\ paced \in BOOLEAN
    BY <1>1, <1>2 DEF TypesHold
  <2>2. simple' \in BOOLEAN /\ paced' \in BOOLEAN
    BY <2>1, Zenon
  <2>3. TrackerOK(tracker') /\ tracker'.fallback \in BOOLEAN
    BY <1>3, Zenon DEF TrackedOK
  <2>4. simple' => tracker'.next = 1
    BY <1>2, <1>3, <2>1 DEF TrackedOK, TypesHold
  <2>5. frame' \in Nat /\ raises' \in Nat
    BY <1>1, <1>2, <1>3 DEF TypesHold, TrackedOK
  <2>6. last' \in Seq(Nat) /\ Len(last') <= 1 /\ now' \in Nat
    BY <1>1, <1>3
  <2>7. QED BY <1>1, <1>6, <2>2, <2>3, <2>4, <2>5, <2>6 DEF TypesHold, TrackerOK
<1>8. HistoriesHold'
  <2>1. \A k \in DOMAIN u.states : u.states[k].id \in Identities
    BY <1>3 DEF TrackedOK
  <2>2. timestamp \in Int /\ StatesAt(u.states, timestamp)
    BY <1>3 DEF TrackedOK
  <2>3. DequesHold(Appended(history, u.states), CountsAfter(u.states, timestamp))
    BY <1>2, <2>1, <2>2, DequesStay
  <2>4. DequesHold(history', steady')
    BY <1>3, <2>3
  <2>5. QED BY <2>4 DEF HistoriesHold, DequesHold
<1>9. ASSUME ~simple
      PROVE  /\ Remembered(tracker'.tracks, tracker'.next, lastSeen', frame')
             /\ DOMAIN history' \subseteq DOMAIN lastSeen'
             /\ MissedCounted(tracker'.tracks, lastSeen', frame', raises')
             /\ OneTarget(tracker'.tracks, history')
             /\ NewIsNew
  <2>1. /\ Remembered(u.tracker.tracks, u.tracker.next, lastSeen', frame + 1)
        /\ MissedCounted(u.tracker.tracks, lastSeen', frame + 1, raises')
        /\ \A id \in DOMAIN u.tracker.tracks :
              id \notin DOMAIN tracker.tracks => id \notin DOMAIN lastSeen
    BY <1>2, <1>3, <1>9, SeenStay
  <2>2. DOMAIN history' \subseteq DOMAIN lastSeen' /\ OneTarget(u.tracker.tracks, history')
    BY <1>2, <1>3, <1>9, TargetsStay
  <2>3. QED BY <1>1, <1>3, <2>1, <2>2 DEF NewIsNew
<1>10. IdentitiesHold'
  BY <1>1, <1>9 DEF IdentitiesHold, Remembered, MissedCounted, OneTarget, OneClass
<1>11. NewIsNew
  <2>1. CASE simple
    <3>1. tracker' = tracker
      BY <1>3, <2>1 DEF TrackedOK
    <3>2. QED BY <3>1 DEF NewIsNew
  <2>2. CASE ~simple
    BY <1>9, <2>2
  <2>3. QED BY <2>1, <2>2
<1>12. QED BY <1>5, <1>6, <1>7, <1>8, <1>10, <1>11 DEF FrameInv

\* Every frame leaves the invariant and the result as they should be.
THEOREM FrameInvariant == Spec => [](FrameInv /\ ResultHolds)
<1>1. Init => FrameInv /\ ResultHolds
  BY FrameInvStarts
<1>2. (FrameInv /\ ResultHolds) /\ [Next]_vars => (FrameInv /\ ResultHolds)'
  <2>1. FrameInv /\ Next => (FrameInv /\ ResultHolds)'
    BY FrameKeepsInv
  <2>2. (FrameInv /\ ResultHolds) /\ UNCHANGED vars => (FrameInv /\ ResultHolds)'
    <3> SUFFICES ASSUME FrameInv, ResultHolds, UNCHANGED vars
                 PROVE  FrameInv' /\ ResultHolds'
      OBVIOUS
    <3>1. UNCHANGED <<simple, paced, tracker, history, seq, last, now, result, published,
                      frame, faulty, back, raises, unsent, lastSeen, steady>>
      BY DEF vars, code, past
    <3>2. FrameInv'
      BY <3>1
      DEF FrameInv, TypesHold, TrackerOK, TracksOK, HistoriesHold, DequesHold, Histories,
          HistoryOK, InStep, IdentitiesHold, Remembered, MissedCounted, OneTarget,
          OneClass, NumbersHold, Numbered
    <3>3. ResultHolds'
      BY <3>1
      DEF ResultHolds, KeptCoverSuppressed, NoBlockingPair, PredictionsAreSound,
          PredictionRecovers, PredictedPointsFollow, PredictedWhereItLooked,
          EveryTrackIsAssessed, LocatedAlike
    <3>4. QED BY <3>2, <3>3
  <2>3. QED BY <2>1, <2>2
<1>3. QED BY <1>1, <1>2, PTL DEF Spec

\* The types of TypeOK, which every state has.
THEOREM FrameTypes == Spec => []TypeOK
<1>1. FrameInv => TypeOK
  <2> SUFFICES ASSUME FrameInv PROVE TypeOK
    OBVIOUS
  <2>1. /\ simple \in BOOLEAN /\ paced \in BOOLEAN
        /\ tracker.next \in Nat \ {0} /\ tracker.next <= MaxTrackId + 1
        /\ tracker.fallback \in BOOLEAN
        /\ TracksOK(tracker.tracks, tracker.next)
        /\ seq \in Nat /\ now \in Nat /\ Len(last) <= 1
        /\ {frame, faulty, back, raises, unsent} \subseteq Nat
    BY DEF FrameInv, TypesHold, TrackerOK
  <2>2. /\ DOMAIN history \subseteq Identities
        /\ \A id \in DOMAIN history : Len(history[id]) \in 1 .. HistoryLen
    BY DEF FrameInv, HistoriesHold, DequesHold, Histories, HistoryOK
  <2>3. DOMAIN tracker.tracks \subseteq Identities
    BY <2>1, TrackerAssumption DEF TracksOK, Identities
  <2>4. \A id \in DOMAIN tracker.tracks :
           tracker.tracks[id].state.id = id /\ tracker.tracks[id].missed \in 0 .. MaxMissed
    BY <2>1 DEF TracksOK, ActiveTracks
  <2>5. QED BY <2>1, <2>2, <2>3, <2>4 DEF TypeOK
<1>2. QED BY <1>1, FrameInvariant, PTL

\* No row that is confident enough goes without a detection that stands for it, and
\* no two that are kept stand for the same (non_max_suppression).
THEOREM SuppressionIsSound == Spec => []KeptCoverSuppressed
<1>1. ResultHolds => KeptCoverSuppressed
  BY DEF ResultHolds
<1>2. QED BY <1>1, FrameInvariant, PTL

\* Through every frame, failure and clock a track stands for one target, the one it
\* is matched with as well as possible, and has missed the frames that it was not
\* seen in (IoUTracker.update).
THEOREM TracksStayOnTarget == Spec => []TracksFollowTargets
<1>1. FrameInv /\ ResultHolds => TracksFollowTargets
  <2>1. FrameInv => MissedCountsFrames
    BY DEF FrameInv, IdentitiesHold, MissedCounted, MissedCountsFrames
  <2>2. FrameInv => OneTargetPerIdentity
    BY DEF FrameInv, IdentitiesHold, OneTarget, OneTargetPerIdentity
  <2>3. ResultHolds => NoBlockingPair
    BY DEF ResultHolds
  <2>4. QED BY <2>1, <2>2, <2>3 DEF TracksFollowTargets
<1>2. QED BY <1>1, FrameInvariant, PTL

\* No identity is given twice (_allocate_track_id).
THEOREM IdentitiesAreNew == Spec => IdentitiesNeverReused
<1>1. FrameInv /\ [Next]_vars => [NewIsNew]_vars
  BY FrameKeepsInv
<1>2. [NewIsNew]_vars
        => [\A id \in DOMAIN tracker'.tracks :
               id \notin DOMAIN tracker.tracks => id \notin DOMAIN lastSeen]_vars
  BY DEF NewIsNew
<1>3. QED BY <1>1, <1>2, FrameInvariant, PTL DEF Spec, IdentitiesNeverReused

\* A clock that was set back spoils no more than the window that it is in, and what
\* is predicted lies ahead, in the coordinates that were read (_maybe_predict).
THEOREM PredictionsHold == Spec => []PredictionsAreSound
<1>1. ResultHolds => PredictionsAreSound
  BY DEF ResultHolds
<1>2. QED BY <1>1, FrameInvariant, PTL

\* Whichever stages fail, each track that is assessed has its one alarm, and each
\* alarm a number of its own that is accounted for (process_frame).
THEOREM AlarmsAreAccounted == Spec => []AlarmsAreComplete
<1>1. FrameInv /\ ResultHolds => AlarmsAreComplete
  <2>1. FrameInv => SequenceAccountsForAlarms
    BY DEF FrameInv, NumbersHold, Numbered, SequenceAccountsForAlarms
  <2>2. ResultHolds => EveryTrackIsAssessed
    BY DEF ResultHolds
  <2>3. QED BY <2>1, <2>2 DEF AlarmsAreComplete
<1>2. QED BY <1>1, FrameInvariant, PTL

-----------------------------------------------------------------------------
(* The encounter of RiskEncounter *)

Assessments == [tcpa : Int, cpa2 : Nat, scale : Nat \ {0}]

\* Where the target is, how it moves, and what RiskThresholds holds.
EncounterInv ==
    /\ position \in Places
    /\ velocity \in Velocities

-----------------------------------------------------------------------------
(* Geometry. *)

\* The identity of Lagrange: what the distance has beyond the cross product.
LEMMA Lagrange ==
    ASSUME NEW p \in Places, NEW v \in Velocities
    PROVE  Square(p) * (v.dx * v.dx + v.dy * v.dy)
             = Dot(p, v) * Dot(p, v) + Cross(p, v) * Cross(p, v)
<1>1. \A a, b, c, d \in Int :
         (a * a + b * b) * (c * c + d * d)
           = (a * c + b * d) * (a * c + b * d) + (a * d - b * c) * (a * d - b * c)
  OBVIOUS
<1>2. p[1] \in Int /\ p[2] \in Int /\ v.dx \in Int /\ v.dy \in Int
  BY DEF Places, Velocities
<1> QED  BY <1>1, <1>2 DEF Square, Dot, Cross

\* After n steps the product along the course has grown by n times the square of
\* the speed, and the one across it is what it was.
LEMMA AlongTheTrack ==
    ASSUME NEW p \in Places, NEW v \in Velocities, NEW n \in Int
    PROVE  /\ After(p, v, n) \in Places
           /\ Cross(After(p, v, n), v) = Cross(p, v)
           /\ Dot(After(p, v, n), v) = Dot(p, v) + n * (v.dx * v.dx + v.dy * v.dy)
<1>1. p[1] \in Int /\ p[2] \in Int /\ v.dx \in Int /\ v.dy \in Int
  BY DEF Places, Velocities
<1>2. \A a, b, c, d \in Int :
         /\ (a + n * c) * d - (b + n * d) * c = a * d - b * c
         /\ (a + n * c) * c + (b + n * d) * d = (a * c + b * d) + n * (c * c + d * d)
  OBVIOUS
<1>3. /\ After(p, v, n)[1] = p[1] + n * v.dx
      /\ After(p, v, n)[2] = p[2] + n * v.dy
      /\ After(p, v, n) \in Places
  BY <1>1 DEF After, Places
<1> QED  BY <1>1, <1>2, <1>3 DEF Cross, Dot

\* The square of a speed is positive unless the target stands still.
LEMMA SpeedPositive ==
    ASSUME NEW v \in Velocities
    PROVE  /\ v.dx * v.dx + v.dy * v.dy \in Nat
           /\ v.dx * v.dx + v.dy * v.dy = 0 <=> (v.dx = 0 /\ v.dy = 0)
<1>1. v.dx \in Int /\ v.dy \in Int
  BY DEF Velocities
<1>2. \A a \in Int : a * a >= 0 /\ (a * a = 0 <=> a = 0)
  OBVIOUS
<1>3. \A m, n \in Int : m >= 0 /\ n >= 0
                         => m + n \in Nat /\ (m + n = 0 <=> (m = 0 /\ n = 0))
  OBVIOUS
<1>4. v.dx * v.dx \in Int /\ v.dy * v.dy \in Int
  BY <1>1
<1> QED  BY <1>1, <1>2, <1>3, <1>4

\* What an assessment of the straight track holds.
LEMMA LineType ==
    ASSUME NEW p \in Places, NEW v \in Velocities
    PROVE  CalculateTcpaCpa(p, v) \in Assessments
<1>1. /\ p[1] \in Int /\ p[2] \in Int /\ v.dx \in Int /\ v.dy \in Int /\ v.dt \in Nat
  BY DEF Places, Velocities
<1>2. \A a \in Int : a * a \in Nat
  OBVIOUS
<1>3. Dot(p, v) \in Int /\ Cross(p, v) \in Int /\ Square(p) \in Nat
  BY <1>1, <1>2 DEF Dot, Cross, Square
<1>4. Dot(p, v) * v.dt \in Int /\ Cross(p, v) * Cross(p, v) \in Nat
  BY <1>1, <1>2, <1>3
<1>5. v.dx * v.dx + v.dy * v.dy \in Nat
  BY SpeedPositive
<1> QED  BY <1>3, <1>4, <1>5 DEF CalculateTcpaCpa, Assessments

-----------------------------------------------------------------------------
(* The closest approach. *)

\* No step of the straight track comes nearer than its assessment says, and the
\* one at the time of the assessment, where there is one, is as near.
LEMMA LineIsClosest ==
    ASSUME NEW p \in Places, NEW v \in Velocities, NEW n \in Int
    PROVE  LET a == CalculateTcpaCpa(p, v)
               distance2 == Square(After(p, v, n)) * a.scale
           IN /\ a.cpa2 <= distance2
              /\ a.tcpa = n * v.dt * a.scale => a.cpa2 = distance2
<1> DEFINE s == v.dx * v.dx + v.dy * v.dy
           q == After(p, v, n)
           a == CalculateTcpaCpa(p, v)
<1>1. /\ v.dx \in Int /\ v.dy \in Int /\ v.dt \in Nat \ {0} /\ p[1] \in Int /\ p[2] \in Int
      /\ p = <<p[1], p[2]>>
  BY DEF Velocities, Places
<1>2. CASE s = 0
  <2>1. v.dx = 0 /\ v.dy = 0
    BY <1>2, SpeedPositive
  <2>2. q = p
    BY <2>1, <1>1 DEF After
  <2>3. a.cpa2 = Square(p) /\ a.scale = 1
    BY <1>2 DEF CalculateTcpaCpa
  <2>4. Square(p) \in Int
    BY <1>1 DEF Square
  <2> QED  BY <2>2, <2>3, <2>4
<1>3. CASE s # 0
  <2>1. /\ a.tcpa = -(Dot(p, v) * v.dt)
        /\ a.cpa2 = Cross(p, v) * Cross(p, v)
        /\ a.scale = s
    BY <1>3 DEF CalculateTcpaCpa
  <2>2. /\ q \in Places
        /\ Cross(q, v) = Cross(p, v)
        /\ Dot(q, v) = Dot(p, v) + n * s
    BY AlongTheTrack
  <2>3. Square(q) * s = Dot(q, v) * Dot(q, v) + Cross(p, v) * Cross(p, v)
    BY <2>2, Lagrange
  <2>4. Dot(p, v) \in Int /\ Dot(q, v) \in Int /\ Cross(p, v) \in Int /\ s \in Int
    <3>1. q[1] \in Int /\ q[2] \in Int
      BY <2>2 DEF Places
    <3> QED  BY <1>1, <3>1 DEF Dot, Cross
  <2>5. a.cpa2 <= Square(q) * a.scale
    <3>1. \A i, j \in Int : j * j <= i * i + j * j
      OBVIOUS
    <3> QED  BY <2>1, <2>3, <2>4, <3>1
  <2>6. ASSUME a.tcpa = n * v.dt * a.scale
        PROVE  a.cpa2 = Square(q) * a.scale
    <3>1. \A d, t, m, u \in Int : t # 0 /\ -(d * t) = m * t * u => d + m * u = 0
      <4> SUFFICES ASSUME NEW d \in Int, NEW t \in Int, NEW m \in Int, NEW u \in Int,
                          t # 0, -(d * t) = m * t * u
                   PROVE  d + m * u = 0
        OBVIOUS
      <4>1. t * (d + m * u) = 0
        OBVIOUS
      <4>2. \A x, y \in Int : x * y = 0 => x = 0 \/ y = 0
        OBVIOUS
      <4>3. d + m * u \in Int
        OBVIOUS
      <4> QED  BY <4>1, <4>2, <4>3
    <3>2. Dot(q, v) = 0
      BY <3>1, <1>1, <2>1, <2>2, <2>4, <2>6
    <3>3. \A j \in Int : 0 * 0 + j * j = j * j
      OBVIOUS
    <3> QED  BY <2>1, <2>3, <2>4, <3>2, <3>3
  <2> QED  BY <2>5, <2>6
<1> QED  BY <1>2, <1>3

-----------------------------------------------------------------------------
(* Levels. *)

\* Thresholds at a scale are numbers.
LEMMA LimitsType ==
    ASSUME NEW scale \in Nat \ {0}
    PROVE  AtScale(Thresholds, scale) \in [ThresholdNames -> Nat]
<1>1. \A name \in ThresholdNames : Thresholds[name] \in Nat
  BY RiskAssumption DEF RiskThresholds
<1>2. \A m, n \in Nat : m * n \in Nat /\ m * m * n \in Nat
  OBVIOUS
<1> QED  BY <1>1, <1>2 DEF AtScale

\* A target that is expected earlier and no less near, but not in the past, is no
\* less urgent.
LEMMA SoonerIsNoLessUrgent ==
    ASSUME NEW limits \in [ThresholdNames -> Nat],
           NEW t \in Int, NEW d \in Int, NEW t1 \in Int, NEW d1 \in Int,
           t >= 0 => 0 <= t1 /\ t1 <= t,
           d1 <= d
    PROVE  Urgency[ClassifyRiskLevel(t, d, limits)]
              <= Urgency[ClassifyRiskLevel(t1, d1, limits)]
<1>1. \A name \in ThresholdNames : limits[name] \in Int
  OBVIOUS
<1>2. /\ limits.tcpaAlert \in Int /\ limits.cpaAlert \in Int
      /\ limits.tcpaCritical \in Int /\ limits.cpaCritical \in Int
      /\ limits.tcpaHigh \in Int /\ limits.cpaHigh \in Int
      /\ limits.tcpaLow \in Int /\ limits.cpaLow \in Int
  BY <1>1 DEF ThresholdNames
<1>3. /\ Urgency["none"] = 0 /\ Urgency["low"] = 1 /\ Urgency["medium"] = 2
      /\ Urgency["high"] = 3 /\ Urgency["critical"] = 4
  BY DEF Urgency
<1>4. ClassifyRiskLevel(t1, d1, limits) \in {"none", "low", "medium", "high", "critical"}
  BY DEF ClassifyRiskLevel
<1>5. CASE ~ShouldAlert(t, d, limits)
  BY <1>3, <1>4, <1>5 DEF ClassifyRiskLevel
<1>6. CASE ShouldAlert(t, d, limits)
  <2>1. 0 <= t /\ t < limits.tcpaAlert /\ d < limits.cpaAlert
    BY <1>6 DEF ShouldAlert
  <2>2. 0 <= t1 /\ t1 <= t
    BY <2>1
  <2>3. ShouldAlert(t1, d1, limits)
    BY <1>2, <2>1, <2>2 DEF ShouldAlert
  <2> QED  BY <1>2, <1>3, <1>6, <2>2, <2>3 DEF ClassifyRiskLevel
<1> QED  BY <1>5, <1>6

-----------------------------------------------------------------------------
(* Predictions. *)

LEMMA PositionType ==
    ASSUME NEW point \in Points
    PROVE  Position(point) \in Places /\ Square(Position(point)) \in Nat
<1>1. Position(point) \in Places
  BY DEF Position, Points
<1>2. \A a, b \in Int : a * a + b * b \in Nat
  <2>1. \A a \in Int : a * a \in Nat
    OBVIOUS
  <2> QED  BY <2>1
<1>3. Position(point)[1] \in Int /\ Position(point)[2] \in Int
  BY <1>1 DEF Places
<1> QED  BY <1>1, <1>2, <1>3 DEF Square

\* Of the points that are not in the past there is a first one among the nearest.
LEMMA FirstNearestExists ==
    ASSUME NEW points \in Seq(Points), NEW others, others \subseteq DOMAIN points,
           others # {}
    PROVE  \E k \in others : FirstNearest(points, k, others)
<1> DEFINE distance2(j) == Square(Position(points[j]))
           distances == {distance2(j) : j \in others}
<1>1. \A j \in others : points[j] \in Points /\ j \in Nat
  OBVIOUS
<1>2. \A j \in others : distance2(j) \in Nat
  BY <1>1, PositionType
<1>3. distances \subseteq Nat /\ distances # {}
  BY <1>2
<1>4. PICK least \in distances : \A d \in distances : least <= d
  BY <1>3, LeastNumber
<1> DEFINE nearest == {j \in others : distance2(j) = least}
<1>5. nearest \subseteq Nat /\ nearest # {}
  BY <1>1, <1>4
<1>6. PICK k \in nearest : \A j \in nearest : k <= j
  BY <1>5, LeastNumber
<1>7. \A j \in others : distance2(k) < distance2(j) \/ (distance2(k) = distance2(j) /\ k <= j)
  <2> SUFFICES ASSUME NEW j \in others
               PROVE  distance2(k) < distance2(j) \/ (distance2(k) = distance2(j) /\ k <= j)
    OBVIOUS
  <2>1. distance2(k) = least /\ least <= distance2(j)
    BY <1>4, <1>6
  <2>2. distance2(k) \in Nat /\ distance2(j) \in Nat
    BY <1>2, <1>6
  <2>3. distance2(j) = least => k <= j
    BY <1>6
  <2> HIDE DEF distance2
  <2> QED  BY <2>1, <2>2, <2>3
<1> QED  BY <1>6, <1>7 DEF FirstNearest

\* A future is none, or a time that is not past and a distance.
LEMMA FutureType ==
    ASSUME NEW points \in Seq(Points), NEW timestamp \in Int,
           MinFutureDistance(timestamp, points) # <<>>
    PROVE  MinFutureDistance(timestamp, points)[1] \in [time : Nat, distance2 : Nat]
<1> DEFINE ahead == NotPast(timestamp, points)
           k     == CHOOSE k \in ahead : FirstNearest(points, k, ahead)
<1>1. ahead # {} /\ ahead \subseteq DOMAIN points
  BY DEF MinFutureDistance, NotPast
<1>2. k \in ahead
  BY <1>1, FirstNearestExists
<1>3. points[k] \in Points /\ points[k].timestamp >= timestamp
  BY <1>2 DEF NotPast
<1>4. points[k].timestamp - timestamp \in Nat
  BY <1>3 DEF Points
<1>5. Square(Position(points[k])) \in Nat
  BY <1>3, PositionType
<1>6. MinFutureDistance(timestamp, points)
        = <<[time |-> points[k].timestamp - timestamp,
             distance2 |-> Square(Position(points[k]))]>>
  BY <1>1 DEF MinFutureDistance
<1> QED  BY <1>4, <1>5, <1>6

\* What the prediction makes of the straight track: nothing, or an approach that is
\* nearer, no later, and not in the past if the other was not.
LEMMA PredictionOnlyBringsNearer ==
    ASSUME NEW p \in Places, NEW v \in Velocities, NEW points \in Seq(Points)
    PROVE  LET line == CalculateTcpaCpa(p, v)
               with == Assess(p, v, 0, points)
           IN /\ with.scale = line.scale
              /\ with.tcpa \in Int /\ with.cpa2 \in Int
              /\ with.cpa2 <= line.cpa2
              /\ line.tcpa >= 0 => 0 <= with.tcpa /\ with.tcpa <= line.tcpa
<1> DEFINE line   == CalculateTcpaCpa(p, v)
           future == MinFutureDistance(0, points)
           nearer == future # <<>> /\ future[1].distance2 * line.scale < line.cpa2
           time   == future[1].time * line.scale
<1>1. line \in Assessments
  BY LineType
<1> HIDE DEF line
<1>2. CASE ~nearer
  <2>1. Assess(p, v, 0, points) = line
    BY <1>2 DEF Assess, line
  <2> QED  BY <1>1, <2>1 DEF Assessments, line
<1>3. CASE nearer
  <2>1. future[1] \in [time : Nat, distance2 : Nat]
    BY <1>3, FutureType
  <2>2. time \in Nat /\ future[1].distance2 * line.scale \in Nat
    <3>1. \A m, n \in Nat : m * n \in Nat
      OBVIOUS
    <3> QED  BY <1>1, <2>1, <3>1 DEF Assessments
  <2>3. Assess(p, v, 0, points)
          = [line EXCEPT !.cpa2 = future[1].distance2 * line.scale,
                         !.tcpa = IF time < line.tcpa THEN time ELSE line.tcpa]
    BY <1>3 DEF Assess, line
  <2> HIDE DEF time, future
  <2>4. /\ Assess(p, v, 0, points).scale = line.scale
        /\ Assess(p, v, 0, points).cpa2 = future[1].distance2 * line.scale
        /\ Assess(p, v, 0, points).tcpa = IF time < line.tcpa THEN time ELSE line.tcpa
    BY <1>1, <2>3 DEF Assessments
  <2>5. line.tcpa \in Int /\ line.cpa2 \in Nat
    BY <1>1 DEF Assessments
  <2> QED  BY <1>3, <2>2, <2>4, <2>5 DEF line
<1> QED  BY <1>2, <1>3

-----------------------------------------------------------------------------
(* The encounter. *)

LEMMA EncounterInvHolds == EncounterSpec => []EncounterInv
<1>1. EncounterInit => EncounterInv
  BY EncounterAssumption DEF EncounterInit, EncounterInv, Velocities
<1>2. EncounterInv /\ [EncounterNext]_encounter => EncounterInv'
  <2> SUFFICES ASSUME EncounterInv, [EncounterNext]_encounter
               PROVE  EncounterInv'
    OBVIOUS
  <2> USE DEF EncounterInv
  <2>1. CASE Move
    BY <2>1, AlongTheTrack DEF Move
  <2>2. CASE Turn
    BY <2>2, EncounterAssumption DEF Turn, Velocities
  <2>3. CASE UNCHANGED encounter
    BY <2>3 DEF encounter
  <2> QED  BY <2>1, <2>2, <2>3 DEF EncounterNext
<1> QED  BY <1>1, <1>2, PTL DEF EncounterSpec

\* An assessment of a straight track is its closest approach, and no prediction
\* makes a target less urgent than that (calculate_tcpa_cpa, evaluate_risk).
THEOREM AssessmentIsSoundHolds == EncounterSpec => []AssessmentIsSound
<1>1. EncounterInv => ClosestIsClosest
  <2> SUFFICES ASSUME EncounterInv, NEW n \in -MaxMoves .. MaxMoves
               PROVE  LET distance2 == Square(After(position, velocity, n)) * Line.scale
                      IN /\ Line.cpa2 <= distance2
                         /\ Line.tcpa = n * velocity.dt * Line.scale
                              => Line.cpa2 = distance2
    BY DEF ClosestIsClosest
  <2>1. n \in Int
    BY EncounterAssumption
  <2> QED  BY <2>1, LineIsClosest DEF EncounterInv, Line
<1>2. EncounterInv => PredictionNeverLowersRisk
  <2> SUFFICES ASSUME EncounterInv, NEW points \in Expectations
               PROVE  Urgency[Level(Line)] <= Urgency[Level(With(points))]
    BY DEF PredictionNeverLowersRisk
  <2> DEFINE with == With(points)
  <2>1. points \in Seq(Points)
    BY EncounterAssumption
  <2>2. Line \in Assessments
    BY LineType DEF EncounterInv, Line
  <2>3. /\ with.scale = Line.scale
        /\ with.tcpa \in Int /\ with.cpa2 \in Int
        /\ with.cpa2 <= Line.cpa2
        /\ Line.tcpa >= 0 => 0 <= with.tcpa /\ with.tcpa <= Line.tcpa
    BY <2>1, PredictionOnlyBringsNearer DEF EncounterInv, Line, With
  <2> HIDE DEF with
  <2>4. AtScale(Thresholds, Line.scale) \in [ThresholdNames -> Nat]
    BY <2>2, LimitsType DEF Assessments
  <2>5. Line.tcpa \in Int /\ Line.cpa2 \in Int
    BY <2>2 DEF Assessments
  <2>6. Urgency[ClassifyRiskLevel(Line.tcpa, Line.cpa2, AtScale(Thresholds, Line.scale))]
          <= Urgency[ClassifyRiskLevel(with.tcpa, with.cpa2, AtScale(Thresholds, Line.scale))]
    BY <2>3, <2>4, <2>5, SoonerIsNoLessUrgent
  <2> QED  BY <2>3, <2>6 DEF Level, with
<1> QED  BY <1>1, <1>2, EncounterInvHolds, PTL DEF AssessmentIsSound

\* While the course is kept each assessment agrees with the one before, and a
\* target that has not passed becomes no less urgent (classify_risk_level).
THEOREM ApproachIsConsistentHolds == EncounterSpec => ApproachIsConsistent
<1> DEFINE Agrees == (velocity' = velocity /\ Moving) =>
              /\ Line'.cpa2 = Line.cpa2
              /\ Line'.tcpa = Line.tcpa - velocity.dt * Line.scale
              /\ Line'.tcpa >= 0 => Urgency[Level(Line)] <= Urgency[Level(Line')]
<1>1. EncounterInv /\ EncounterInv' /\ [EncounterNext]_encounter => [Agrees]_encounter
  <2> SUFFICES ASSUME EncounterInv, EncounterInv', EncounterNext,
                      velocity' = velocity, Moving
               PROVE  Agrees
    OBVIOUS
  <2> DEFINE s == velocity.dx * velocity.dx + velocity.dy * velocity.dy
             d == Dot(position, velocity)
  <2>1. position' = After(position, velocity, 1)
    BY DEF EncounterNext, Move, Turn
  <2>2. /\ velocity.dt \in Nat \ {0}
        /\ s \in Nat /\ s # 0
    BY SpeedPositive DEF EncounterInv, Moving, Velocities
  <2>3. /\ Cross(position', velocity) = Cross(position, velocity)
        /\ Dot(position', velocity) = d + 1 * s
    BY <2>1, AlongTheTrack DEF EncounterInv
  <2>4. d \in Int
    BY DEF EncounterInv, Places, Velocities, Dot
  <2>5. /\ Line.tcpa = -(d * velocity.dt) /\ Line'.tcpa = -((d + 1 * s) * velocity.dt)
        /\ Line.scale = s /\ Line'.scale = s
        /\ Line'.cpa2 = Line.cpa2
    BY <2>2, <2>3 DEF Line, CalculateTcpaCpa
  <2> HIDE DEF s, d
  <2>6. Line'.tcpa = Line.tcpa - velocity.dt * Line.scale
    <3>1. \A i, j, t \in Int : -((i + 1 * j) * t) = -(i * t) - t * j
      OBVIOUS
    <3> QED  BY <2>2, <2>4, <2>5, <3>1
  <2>7. Line \in Assessments /\ Line' \in Assessments
    BY LineType DEF EncounterInv, Line
  <2>8. ASSUME Line'.tcpa >= 0
        PROVE  Urgency[Level(Line)] <= Urgency[Level(Line')]
    <3>1. velocity.dt * s \in Nat
      <4>1. \A m, n \in Nat : m * n \in Nat
        OBVIOUS
      <4> QED  BY <2>2, <4>1
    <3>2. /\ Line.tcpa \in Int /\ Line'.tcpa \in Int /\ Line.cpa2 \in Int
          /\ Line'.tcpa <= Line.tcpa
      BY <2>5, <2>6, <2>7, <3>1 DEF Assessments
    <3>3. AtScale(Thresholds, s) \in [ThresholdNames -> Nat]
      BY <2>2, LimitsType
    <3>4. Urgency[ClassifyRiskLevel(Line.tcpa, Line.cpa2, AtScale(Thresholds, s))]
            <= Urgency[ClassifyRiskLevel(Line'.tcpa, Line.cpa2, AtScale(Thresholds, s))]
      BY <2>8, <3>2, <3>3, SoonerIsNoLessUrgent
    <3> QED  BY <2>5, <3>4 DEF Level
  <2> QED  BY <2>5, <2>6, <2>8
<1> QED  BY <1>1, EncounterInvHolds, PTL DEF EncounterSpec, ApproachIsConsistent
=============================================================================
