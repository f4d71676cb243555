---------------------------- MODULE TrainingProofs ----------------------------
(* Proofs about the two training scripts: what happens to the histories and the
   windows of a trajectory predictor, for all batches of states, and to the
   attention blocks of a detector, for all architectures and any number of
   steps. *)
EXTENDS AttentionInjection, TrajectoryData, ListLemmas

-----------------------------------------------------------------------------
(* Histories *)

Tables == UNION {[known -> Seq(TrackStates)] : known \in SUBSET Tracks}

LEMMA TableType ==
    ASSUME NEW table
    PROVE  table \in Tables <=> /\ table = [t \in DOMAIN table |-> table[t]]
                                /\ DOMAIN table \subseteq Tracks
                                /\ \A t \in DOMAIN table : table[t] \in Seq(TrackStates)
BY DEF Tables

LEMMA WithType ==
    ASSUME NEW table \in Tables, NEW t \in Tracks, NEW list \in Seq(TrackStates)
    PROVE  /\ With(table, t, list) \in Tables
           /\ DOMAIN With(table, t, list) = DOMAIN table \cup {t}
           /\ With(table, t, list)[t] = list
           /\ \A u \in DOMAIN table : u # t => With(table, t, list)[u] = table[u]
<1>1. /\ DOMAIN With(table, t, list) = DOMAIN table \cup {t}
      /\ With(table, t, list)[t] = list
      /\ \A u \in DOMAIN table : u # t => With(table, t, list)[u] = table[u]
  BY DEF With
<1>2. With(table, t, list) = [u \in DOMAIN With(table, t, list) |-> With(table, t, list)[u]]
  BY DEF With
<1>3. /\ DOMAIN table \subseteq Tracks
      /\ \A u \in DOMAIN table : table[u] \in Seq(TrackStates)
  BY TableType
<1>4. With(table, t, list) \in Tables
  BY <1>1, <1>2, <1>3, TableType
<1>5. QED BY <1>1, <1>4

LEMMA OfType ==
    ASSUME NEW table \in Tables, NEW t
    PROVE  Of(table, t) \in Seq(TrackStates)
BY TableType, EmptySeq DEF Of

LEMMA AddedType ==
    ASSUME NEW table \in Tables, NEW state \in TrackStates
    PROVE  Added(table, state) \in Tables
<1>1. state.track \in Tracks
  BY DEF TrackStates
<1>2. Append(Of(table, state.track), state) \in Seq(TrackStates)
  BY OfType, AppendProperties
<1>3. QED BY <1>1, <1>2, WithType DEF Added

LEMMA BoundedType ==
    ASSUME NEW list \in Seq(TrackStates)
    PROVE  /\ Bounded(list) \in Seq(TrackStates)
           /\ Len(Bounded(list)) = IF Len(list) > MaxLength THEN MaxLength ELSE Len(list)
           /\ \A k \in 1 .. Len(Bounded(list)) :
                Bounded(list)[k] = list[k + Len(list) - Len(Bounded(list))]
<1>0. Len(list) \in Nat /\ MaxLength \in Nat /\ MaxLength > 0
  BY LenProperties, TrajectoryAssumption
<1>1. CASE Len(list) > MaxLength
  <2> DEFINE m == Len(list) - MaxLength + 1
  <2>0. m \in Int /\ m \in 1 .. Len(list) /\ Len(list) - m + 1 = MaxLength
    BY <1>0, <1>1
  <2>1. \A i \in m .. Len(list) : list[i] \in TrackStates
    BY <1>0, <2>0, ElementOfSeq
  <2>2. Bounded(list) = SubSeq(list, m, Len(list))
    BY <1>1 DEF Bounded
  <2> HIDE DEF m
  <2>3. /\ SubSeq(list, m, Len(list)) \in Seq(TrackStates)
        /\ Len(SubSeq(list, m, Len(list))) = MaxLength
        /\ \A i \in 1 .. MaxLength : SubSeq(list, m, Len(list))[i] = list[m + i - 1]
    BY <1>0, <2>0, <2>1, SubSeqProperties
  <2>4. \A i \in 1 .. MaxLength : i + Len(list) - MaxLength = m + i - 1
    BY <1>0, <2>0
  <2>5. QED BY <1>1, <2>2, <2>3, <2>4
<1>2. CASE ~(Len(list) > MaxLength)
  <2>1. Bounded(list) = list
    BY <1>2 DEF Bounded
  <2>2. \A k \in 1 .. Len(list) : k + Len(list) - Len(list) = k
    BY <1>0
  <2>3. QED BY <1>2, <2>1, <2>2
<1>3. QED BY <1>1, <1>2

LEMMA KeptType ==
    ASSUME NEW table \in Tables, NEW state \in TrackStates
    PROVE  Kept(table, state) \in Tables
<1>1. state.track \in Tracks
  BY DEF TrackStates
<1>2. Bounded(Append(Of(table, state.track), state)) \in Seq(TrackStates)
  BY OfType, AppendProperties, BoundedType
<1>3. QED BY <1>1, <1>2, WithType DEF Kept

\* The two folds of extend, as loops.
LEMMA AddedLoop ==
    ASSUME NEW start \in Tables, NEW list \in Seq(TrackStates)
    PROVE  \E f \in [0 .. Len(list) -> Tables] :
              /\ f[0] = start
              /\ \A k \in 1 .. Len(list) : f[k] = Added(f[k - 1], list[k])
              /\ FoldLeft(Added, start, list) = f[Len(list)]
<1> DEFINE N == Len(list)
           step == [p \in Tables \X (1 .. N) |-> Added(p[1], list[p[2]])]
           Equation(g) == g = [s \in SUBSET DOMAIN list |->
                                 IF s = {} THEN start ELSE Added(g[s \ {Max(s)}], list[Max(s)])]
           table == CHOOSE g : Equation(g)
<1>0. N \in Nat /\ DOMAIN list = 1 .. N /\ \A k \in 1 .. N : list[k] \in TrackStates
  BY LenProperties, ElementOfSeq
<1>1. step \in [Tables \X (1 .. N) -> Tables]
  BY <1>0, AddedType
<1>2. \A s \in SUBSET (1 .. N), t \in Tables :
         s # {} => step[<<t, Max(s)>>] = Added(t, list[Max(s)])
  <2> SUFFICES ASSUME NEW s \in SUBSET (1 .. N), NEW t \in Tables, s # {}
               PROVE  step[<<t, Max(s)>>] = Added(t, list[Max(s)])
    OBVIOUS
  <2>1. s \subseteq 0 .. N
    OBVIOUS
  <2>2. Max(s) \in 1 .. N
    BY <1>0, <2>1, GreatestNumber
  <2>3. QED BY <2>2
<1>3. PICK g \in [SUBSET (1 .. N) -> Tables] : FoldTable(g, N, start, step)
  <2> HIDE DEF step
  <2>1. QED BY <1>0, <1>1, FoldTableExists
<1>4. Equation(g)
  <2> HIDE DEF step
  <2>1. QED BY <1>0, <1>2, <1>3 DEF FoldTable
<1>5. Equation(table)
  BY <1>4
<1>6. FoldLeft(Added, start, list) = table[1 .. N]
  BY <1>0 DEF FoldLeft, MapThenFoldSet
<1> HIDE DEF table, step
<1>7. RunsThrough(table, Tables, N, start, step)
  BY <1>0, <1>1, <1>2, <1>5 DEF RunsThrough
<1>8. PICK f : IsLoop(f, Tables, N, start, step) /\ f[N] = table[1 .. N]
  BY <1>7, LoopOfTable
<1>9. ASSUME NEW k \in 1 .. N PROVE f[k] = Added(f[k - 1], list[k])
  <2>1. k - 1 \in 0 .. N /\ f[k - 1] \in Tables
    BY <1>0, <1>8 DEF IsLoop
  <2>2. QED BY <1>8, <2>1 DEF step, IsLoop
<1>10. f \in [0 .. N -> Tables] /\ f[0] = start
  BY <1>8 DEF IsLoop
<1>11. QED BY <1>6, <1>8, <1>9, <1>10

LEMMA KeptLoop ==
    ASSUME NEW start \in Tables, NEW list \in Seq(TrackStates)
    PROVE  \E f \in [0 .. Len(list) -> Tables] :
              /\ f[0] = start
              /\ \A k \in 1 .. Len(list) : f[k] = Kept(f[k - 1], list[k])
              /\ FoldLeft(Kept, start, list) = f[Len(list)]
<1> DEFINE N == Len(list)
           step == [p \in Tables \X (1 .. N) |-> Kept(p[1], list[p[2]])]
           Equation(g) == g = [s \in SUBSET DOMAIN list |->
                                 IF s = {} THEN start ELSE Kept(g[s \ {Max(s)}], list[Max(s)])]
           table == CHOOSE g : Equation(g)
<1>0. N \in Nat /\ DOMAIN list = 1 .. N /\ \A k \in 1 .. N : list[k] \in TrackStates
  BY LenProperties, ElementOfSeq
<1>1. step \in [Tables \X (1 .. N) -> Tables]
  BY <1>0, KeptType
<1>2. \A s \in SUBSET (1 .. N), t \in Tables :
         s # {} => step[<<t, Max(s)>>] = Kept(t, list[Max(s)])
  <2> SUFFICES ASSUME NEW s \in SUBSET (1 .. N), NEW t \in Tables, s # {}
               PROVE  step[<<t, Max(s)>>] = Kept(t, list[Max(s)])
    OBVIOUS
  <2>1. s \subseteq 0 .. N
    OBVIOUS
  <2>2. Max(s) \in 1 .. N
    BY <1>0, <2>1, GreatestNumber
  <2>3. QED BY <2>2
<1>3. PICK g \in [SUBSET (1 .. N) -> Tables] : FoldTable(g, N, start, step)
  <2> HIDE DEF step
  <2>1. QED BY <1>0, <1>1, FoldTableExists
<1>4. Equation(g)
  <2> HIDE DEF step
  <2>1. QED BY <1>0, <1>2, <1>3 DEF FoldTable
<1>5. Equation(table)
  BY <1>4
<1>6. FoldLeft(Kept, start, list) = table[1 .. N]
  BY <1>0 DEF FoldLeft, MapThenFoldSet
<1> HIDE DEF table, step
<1>7. RunsThrough(table, Tables, N, start, step)
  BY <1>0, <1>1, <1>2, <1>5 DEF RunsThrough
<1>8. PICK f : IsLoop(f, Tables, N, start, step) /\ f[N] = table[1 .. N]
  BY <1>7, LoopOfTable
<1>9. ASSUME NEW k \in 1 .. N PROVE f[k] = Kept(f[k - 1], list[k])
  <2>1. k - 1 \in 0 .. N /\ f[k - 1] \in Tables
    BY <1>0, <1>8 DEF IsLoop
  <2>2. QED BY <1>8, <2>1 DEF step, IsLoop
<1>10. f \in [0 .. N -> Tables] /\ f[0] = start
  BY <1>8 DEF IsLoop
<1>11. QED BY <1>6, <1>8, <1>9, <1>10

\* Bounding twice is bounding once, also with a state appended in between.
LEMMA BoundedAppend ==
    ASSUME NEW list \in Seq(TrackStates), NEW state \in TrackStates
    PROVE  Bounded(Append(Bounded(list), state)) = Bounded(Append(list, state))
<1> DEFINE short == Bounded(list)
           one   == Append(short, state)
           other == Append(list, state)
<1>0. /\ MaxLength \in Nat /\ MaxLength > 0
      /\ Len(list) \in Nat
  BY TrajectoryAssumption, LenProperties
<1>1. /\ short \in Seq(TrackStates)
      /\ Len(short) = IF Len(list) > MaxLength THEN MaxLength ELSE Len(list)
      /\ \A k \in 1 .. Len(short) : short[k] = list[k + Len(list) - Len(short)]
  BY BoundedType
<1> HIDE DEF short
<1>2. /\ one \in Seq(TrackStates) /\ Len(one) = Len(short) + 1 /\ one[Len(short) + 1] = state
      /\ \A k \in 1 .. Len(short) : one[k] = short[k]
      /\ other \in Seq(TrackStates) /\ Len(other) = Len(list) + 1
      /\ other[Len(list) + 1] = state
      /\ \A k \in 1 .. Len(list) : other[k] = list[k]
  BY <1>1, AppendProperties
<1> HIDE DEF one, other
<1>a. Len(short) \in Nat /\ Len(short) <= Len(list)
  BY <1>0, <1>1
<1>3. \A k \in 1 .. Len(one) : one[k] = other[k + Len(list) - Len(short)]
  <2> SUFFICES ASSUME NEW k \in 1 .. Len(one) PROVE one[k] = other[k + Len(list) - Len(short)]
    OBVIOUS
  <2>1. CASE k = Len(short) + 1
    <3>1. k + Len(list) - Len(short) = Len(list) + 1
      BY <1>0, <1>a, <2>1
    <3>2. QED BY <1>2, <2>1, <3>1
  <2>2. CASE k # Len(short) + 1
    <3>1. k \in 1 .. Len(short) /\ k + Len(list) - Len(short) \in 1 .. Len(list)
      BY <1>0, <1>1, <1>2, <2>2
    <3>2. QED BY <1>1, <1>2, <3>1
  <2>3. QED BY <2>1, <2>2
<1>4. /\ Bounded(one) \in Seq(TrackStates)
      /\ Len(Bounded(one)) = IF Len(one) > MaxLength THEN MaxLength ELSE Len(one)
      /\ \A k \in 1 .. Len(Bounded(one)) :
           Bounded(one)[k] = one[k + Len(one) - Len(Bounded(one))]
      /\ Bounded(other) \in Seq(TrackStates)
      /\ Len(Bounded(other)) = IF Len(other) > MaxLength THEN MaxLength ELSE Len(other)
      /\ \A k \in 1 .. Len(Bounded(other)) :
           Bounded(other)[k] = other[k + Len(other) - Len(Bounded(other))]
  BY <1>2, BoundedType
<1>5. Len(Bounded(one)) = Len(Bounded(other)) /\ Len(Bounded(one)) \in Nat
      /\ Len(Bounded(one)) <= Len(one)
  BY <1>0, <1>1, <1>2, <1>4
<1>6. ASSUME NEW k \in 1 .. Len(Bounded(one)) PROVE Bounded(one)[k] = Bounded(other)[k]
  <2> DEFINE i == k + Len(one) - Len(Bounded(one))
  <2>1. i \in 1 .. Len(one)
    BY <1>0, <1>1, <1>2, <1>5
  <2>2. i + Len(list) - Len(short) = k + Len(other) - Len(Bounded(other))
    <3>1. Len(one) = Len(short) + 1 /\ Len(other) = Len(list) + 1 /\ k \in Int
          /\ Len(Bounded(one)) = Len(Bounded(other)) /\ Len(Bounded(one)) \in Nat
      BY <1>2, <1>5
    <3>2. QED BY <1>0, <1>a, <3>1
  <2>3. Bounded(one)[k] = one[i]
    BY <1>4
  <2>4. Bounded(other)[k] = other[i + Len(list) - Len(short)]
    BY <1>4, <1>5, <2>2
  <2> HIDE DEF i
  <2>5. QED BY <1>3, <2>1, <2>3, <2>4
<1>7. QED BY <1>4, <1>5, <1>6, SeqEqual DEF one, other, short

Buffered(table) == [t \in DOMAIN table |-> Bounded(table[t])]

LEMMA BoundedEnds ==
    ASSUME NEW list \in Seq(TrackStates)
    PROVE  /\ list = <<>> <=> Bounded(list) = <<>>
           /\ list # <<>> => Bounded(list)[Len(Bounded(list))] = list[Len(list)]
<1>0. /\ Len(list) \in Nat /\ (list # <<>> => Len(list) > 0)
      /\ MaxLength \in Nat /\ MaxLength > 0
      /\ Len(<<>>) = 0
  BY LenProperties, EmptySeq, TrajectoryAssumption
<1>1. /\ Len(Bounded(list)) = IF Len(list) > MaxLength THEN MaxLength ELSE Len(list)
      /\ \A k \in 1 .. Len(Bounded(list)) :
           Bounded(list)[k] = list[k + Len(list) - Len(Bounded(list))]
  BY BoundedType
<1>2. list = <<>> => Bounded(list) = <<>>
  BY <1>0 DEF Bounded
<1>3. ASSUME list # <<>> PROVE /\ Bounded(list) # <<>>
                               /\ Bounded(list)[Len(Bounded(list))] = list[Len(list)]
  <2>1. Len(Bounded(list)) \in 1 .. Len(Bounded(list))
        /\ Len(Bounded(list)) + Len(list) - Len(Bounded(list)) = Len(list)
        /\ Len(Bounded(list)) # 0
    BY <1>0, <1>1, <1>3
  <2>2. QED BY <1>0, <1>1, <2>1
<1>4. QED BY <1>2, <1>3

LEMMA OfBuffered ==
    ASSUME NEW table \in Tables, NEW t
    PROVE  Of(Buffered(table), t) = Bounded(Of(table, t))
<1>1. Bounded(<<>>) = <<>>
  BY BoundedEnds, EmptySeq
<1>2. QED BY <1>1 DEF Of, Buffered

LEMMA KeptIsBuffered ==
    ASSUME NEW table \in Tables, NEW state \in TrackStates
    PROVE  Kept(Buffered(table), state) = Buffered(Added(table, state))
<1> DEFINE u == state.track
           list == Append(Of(table, u), state)
<1>1. Of(table, u) \in Seq(TrackStates)
  BY OfType
<1>2. Bounded(Append(Bounded(Of(table, u)), state)) = Bounded(list)
  BY <1>1, BoundedAppend
<1>3. Kept(Buffered(table), state) = With(Buffered(table), u, Bounded(list))
  BY <1>2, OfBuffered DEF Kept
<1>4. Added(table, state) = With(table, u, list)
  BY DEF Added
<1> HIDE DEF u, list
<1>5. With(Buffered(table), u, Bounded(list)) = Buffered(With(table, u, list))
  BY DEF With, Buffered
<1>6. QED BY <1>3, <1>4, <1>5

Increasing(list) == \A k \in 2 .. Len(list) : list[k - 1].time < list[k].time

\* What may be in accepted.
Good(table) ==
    /\ table \in Tables /\ IsFiniteSet(DOMAIN table)
    /\ \A t \in DOMAIN table : table[t] # <<>> /\ Increasing(table[t])

\* Two lists between which append does not tell.
EndAlike(one, other) ==
    /\ one = <<>> <=> other = <<>>
    /\ one # <<>> => one[Len(one)] = other[Len(other)]

LEMMA NewerOfAlike ==
    ASSUME NEW state, NEW one, NEW other, EndAlike(one, other), Newer(state, other)
    PROVE  Newer(state, one)
BY DEF EndAlike, Newer

LEMMA AppendIncreasing ==
    ASSUME NEW list \in Seq(TrackStates), NEW state \in TrackStates,
           Increasing(list), Newer(state, list)
    PROVE  Increasing(Append(list, state)) /\ Append(list, state) # <<>>
<1>1. /\ Append(list, state) # <<>>
      /\ Len(list) \in Nat /\ Len(Append(list, state)) = Len(list) + 1
      /\ \A i \in 1 .. Len(list) : Append(list, state)[i] = list[i]
      /\ Append(list, state)[Len(list) + 1] = state
  BY AppendProperties, LenProperties
<1>2. ASSUME NEW k \in 2 .. Len(list) + 1
      PROVE  Append(list, state)[k - 1].time < Append(list, state)[k].time
  <2>1. CASE k = Len(list) + 1
    <3>1. list # <<>> /\ k - 1 = Len(list) /\ k - 1 \in 1 .. Len(list)
      BY <1>1, <2>1, EmptySeq
    <3>2. state.time > list[Len(list)].time
      BY <3>1 DEF Newer
    <3>3. state.time \in Int /\ list[Len(list)].time \in Int
      <4>1. list[Len(list)] \in TrackStates
        BY <3>1, ElementOfSeq
      <4>2. QED BY <4>1 DEF TrackStates
    <3>4. QED BY <1>1, <2>1, <3>1, <3>2, <3>3
  <2>2. CASE k # Len(list) + 1
    <3>1. k \in 2 .. Len(list) /\ k \in 1 .. Len(list) /\ k - 1 \in 1 .. Len(list)
      BY <1>1, <2>2
    <3>2. QED BY <1>1, <3>1 DEF Increasing
  <2>3. QED BY <2>1, <2>2
<1>3. QED BY <1>1, <1>2 DEF Increasing

LEMMA AddedIsGood ==
    ASSUME NEW table, Good(table), NEW state \in TrackStates,
           Newer(state, Of(table, state.track))
    PROVE  /\ Good(Added(table, state))
           /\ Of(Added(table, state), state.track) = Append(Of(table, state.track), state)
           /\ \A t \in Tracks : t # state.track => Of(Added(table, state), t) = Of(table, t)
<1> DEFINE u == state.track
           list == Append(Of(table, u), state)
<1>1. table \in Tables /\ u \in Tracks
  BY DEF Good, TrackStates
<1>2. Of(table, u) \in Seq(TrackStates)
  BY <1>1, OfType
<1>3. Increasing(Of(table, u))
  <2>1. CASE u \in DOMAIN table
    BY <2>1 DEF Good, Of
  <2>2. CASE u \notin DOMAIN table
    <3>1. Of(table, u) = <<>> /\ Len(<<>>) = 0
      BY <2>2, EmptySeq DEF Of
    <3>2. QED BY <3>1 DEF Increasing
  <2>3. QED BY <2>1, <2>2
<1>4. list \in Seq(TrackStates) /\ list # <<>> /\ Increasing(list)
  BY <1>2, <1>3, AppendIncreasing, AppendProperties
<1>5. Added(table, state) = With(table, u, list)
  BY DEF Added
<1> HIDE DEF u, list
<1>6. /\ With(table, u, list) \in Tables
      /\ DOMAIN With(table, u, list) = DOMAIN table \cup {u}
      /\ With(table, u, list)[u] = list
      /\ \A t \in DOMAIN table : t # u => With(table, u, list)[t] = table[t]
  BY <1>1, <1>4, WithType
<1>7. Good(With(table, u, list))
  <2>1. IsFiniteSet(DOMAIN table \cup {u})
    BY FS_AddElement DEF Good
  <2>2. QED BY <1>4, <1>6, <2>1 DEF Good
<1>8. Of(With(table, u, list), u) = list
  BY <1>6 DEF Of
<1>9. \A t \in Tracks : t # u => Of(With(table, u, list), t) = Of(table, t)
  BY <1>6 DEF Of
<1>10. QED BY <1>5, <1>7, <1>8, <1>9 DEF u, list

\* What is buffered is the newest part of what was accepted, which is increasing.
HistoryInv ==
    /\ Good(accepted)
    /\ histories = Buffered(accepted)

\* The state of a batch that extend compares with, one step on.
LEMMA LatestStep ==
    ASSUME NEW batch \in Seq(TrackStates), NEW k \in 0 .. Len(batch) - 1, NEW t
    PROVE  Latest(batch, k + 1, t) =
             IF batch[k + 1].track = t THEN <<batch[k + 1]>> ELSE Latest(batch, k, t)
<1> DEFINE own(n) == {j \in 1 .. n : batch[j].track = t}
<1>0. k \in Nat /\ k + 1 \in Nat
  BY LenProperties
<1>1. CASE batch[k + 1].track = t
  <2>1. k + 1 \in own(k + 1) /\ \A j \in own(k + 1) : j <= k + 1
    BY <1>0, <1>1
  <2>2. Max(own(k + 1)) = k + 1
    <3>1. own(k + 1) \subseteq 0 .. k + 1 /\ own(k + 1) # {}
      BY <1>0, <2>1
    <3> HIDE DEF own
    <3>2. Max(own(k + 1)) \in own(k + 1) /\ k + 1 <= Max(own(k + 1))
      BY <1>0, <2>1, <3>1, GreatestNumber
    <3>3. Max(own(k + 1)) \in 0 .. k + 1
      BY <3>1, <3>2
    <3>4. QED BY <1>0, <3>2, <3>3
  <2>3. QED BY <1>1, <2>1, <2>2 DEF Latest
<1>2. CASE batch[k + 1].track # t
  <2>1. {j \in 1 .. k + 1 : batch[j].track = t} = {j \in 1 .. k : batch[j].track = t}
    BY <1>0, <1>2
  <2>2. Latest(batch, k + 1, t) = Latest(batch, k, t)
    BY <2>1 DEF Latest
  <2>3. QED BY <1>2, <2>2
<1>3. QED BY <1>1, <1>2

\* extend, a loop over the accepted part of the batch: what it adds to a history is
\* newer than what the history ends with.
LEMMA ExtendStep ==
    ASSUME HistoryInv, NEW batch \in Batches, Extend(batch)
    PROVE  HistoryInv'
<1> DEFINE n == Max(Before(batch))
           list == SubSeq(batch, 1, n)
<1>0. batch \in Seq(TrackStates) /\ Len(batch) \in Nat
  BY TrajectoryAssumption, LenProperties
<1>1. n \in Before(batch)
  <2>1. Before(batch) \subseteq 0 .. Len(batch)
    BY DEF Before
  <2>2. 0 \in Before(batch)
    BY <1>0 DEF Before
  <2>3. QED BY <1>0, <2>1, <2>2, GreatestNumber
<1>2. /\ histories' = FoldLeft(Kept, histories, list)
      /\ accepted' = FoldLeft(Added, accepted, list)
  BY DEF Extend
<1> HIDE DEF n
<1>3. /\ n \in 0 .. Len(batch)
      /\ \A k \in 1 .. n : Newer(batch[k], Latest(batch, k - 1, batch[k].track))
  BY <1>1 DEF Before
<1>4. /\ list \in Seq(TrackStates) /\ Len(list) = n
      /\ \A k \in 1 .. n : list[k] = batch[k] /\ batch[k] \in TrackStates
  <2>1. \A k \in 1 .. n : batch[k] \in TrackStates
    BY <1>0, <1>3, ElementOfSeq
  <2>2. /\ list \in Seq(TrackStates)
        /\ Len(list) = IF 1 <= n THEN n - 1 + 1 ELSE 0
        /\ \A k \in 1 .. n - 1 + 1 : list[k] = batch[1 + k - 1]
    BY <1>0, <1>3, <2>1, SubSeqProperties
  <2> HIDE DEF list
  <2>3. Len(list) = n /\ n - 1 + 1 = n /\ \A k \in 1 .. n : 1 + k - 1 = k
    BY <1>3, <2>2
  <2>4. QED BY <2>1, <2>2, <2>3
<1> HIDE DEF list
<1>5. accepted \in Tables /\ histories \in Tables
  <2>1. accepted \in Tables
    BY DEF HistoryInv, Good
  <2>2. \A t \in DOMAIN accepted : Bounded(accepted[t]) \in Seq(TrackStates)
    BY <2>1, TableType, BoundedType
  <2>3. QED BY <2>1, <2>2, TableType DEF HistoryInv, Buffered
<1>6. PICK f \in [0 .. n -> Tables] :
         /\ f[0] = accepted
         /\ \A k \in 1 .. n : f[k] = Added(f[k - 1], list[k])
         /\ accepted' = f[n]
  BY <1>2, <1>4, <1>5, AddedLoop
<1>7. PICK g \in [0 .. n -> Tables] :
         /\ g[0] = histories
         /\ \A k \in 1 .. n : g[k] = Kept(g[k - 1], list[k])
         /\ histories' = g[n]
  BY <1>2, <1>4, <1>5, KeptLoop
<1> DEFINE P == {k \in 0 .. n : /\ Good(f[k]) /\ g[k] = Buffered(f[k])
                                /\ \A t \in Tracks : EndAlike(Of(f[k], t), Latest(batch, k, t))}
<1>8. 0 \in P
  <2>1. Good(f[0]) /\ g[0] = Buffered(f[0])
    BY <1>6, <1>7 DEF HistoryInv
  <2>2. ASSUME NEW t \in Tracks PROVE EndAlike(Of(f[0], t), Latest(batch, 0, t))
    <3>1. Latest(batch, 0, t) = Of(histories, t)
      <4>1. {k \in 1 .. 0 : batch[k].track = t} = {}
        OBVIOUS
      <4>2. QED BY <4>1 DEF Latest
    <3>2. Of(histories, t) = Bounded(Of(accepted, t))
      BY <1>5, OfBuffered DEF HistoryInv
    <3>3. QED BY <1>5, <1>6, <3>1, <3>2, OfType, BoundedEnds DEF EndAlike
  <2>3. QED BY <1>3, <2>1, <2>2
<1>9. ASSUME NEW k \in 0 .. n - 1, k \in P PROVE k + 1 \in P
  <2> DEFINE state == batch[k + 1]
             u == state.track
  <2>1. k + 1 \in 1 .. n /\ (k + 1) - 1 = k /\ k \in 0 .. Len(batch) - 1 /\ k + 1 \in 0 .. n
    BY <1>0, <1>3
  <2>2. state \in TrackStates /\ list[k + 1] = state
    BY <1>4, <2>1
  <2>3. u \in Tracks
    BY <2>2 DEF TrackStates
  <2>4. Newer(state, Of(f[k], u))
    <3>1. Newer(state, Latest(batch, k, u))
      BY <1>3, <2>1
    <3>2. EndAlike(Of(f[k], u), Latest(batch, k, u))
      BY <1>9, <2>3
    <3>3. QED BY <3>1, <3>2, NewerOfAlike
  <2>5. f[k + 1] = Added(f[k], state) /\ g[k + 1] = Kept(g[k], state)
    BY <1>6, <1>7, <2>1, <2>2
  <2>6. f[k] \in Tables /\ Good(f[k]) /\ g[k] = Buffered(f[k])
    BY <1>9 DEF Good
  <2> HIDE DEF state
  <2>7. /\ Good(f[k + 1])
        /\ Of(f[k + 1], u) = Append(Of(f[k], u), state)
        /\ \A t \in Tracks : t # u => Of(f[k + 1], t) = Of(f[k], t)
    BY <2>2, <2>4, <2>5, <2>6, AddedIsGood
  <2>8. g[k + 1] = Buffered(f[k + 1])
    BY <2>2, <2>5, <2>6, KeptIsBuffered
  <2>9. ASSUME NEW t \in Tracks PROVE EndAlike(Of(f[k + 1], t), Latest(batch, k + 1, t))
    <3>0. Latest(batch, k + 1, t) = IF u = t THEN <<state>> ELSE Latest(batch, k, t)
      BY <1>0, <2>1, LatestStep DEF state
    <3>1. CASE t = u
      <4>1. Of(f[k], u) \in Seq(TrackStates)
        BY <2>6, OfType
      <4>2. /\ Of(f[k + 1], u) # <<>>
            /\ Of(f[k + 1], u)[Len(Of(f[k + 1], u))] = state
        BY <2>2, <2>7, <4>1, AppendProperties
      <4>3. <<state>> # <<>> /\ <<state>>[Len(<<state>>)] = state
        OBVIOUS
      <4>4. QED BY <3>0, <3>1, <4>2, <4>3 DEF EndAlike
    <3>2. CASE t # u
      BY <1>9, <2>7, <3>0, <3>2
    <3>3. QED BY <3>1, <3>2
  <2>10. QED BY <2>1, <2>7, <2>8, <2>9
<1>10. n \in P
  <2> HIDE DEF P
  <2>1. n \in Nat
    BY <1>0, <1>3
  <2>2. \A k \in 0 .. n - 1 : k \in P => k + 1 \in P
    BY <1>9
  <2>3. 0 .. n \subseteq P
    BY <1>8, <2>1, <2>2, CountsUp
  <2>4. QED BY <2>1, <2>3
<1>11. QED BY <1>6, <1>7, <1>10 DEF HistoryInv

LEMMA ReverseType ==
    ASSUME NEW list \in Seq(TrackStates)
    PROVE  /\ Reverse(list) \in Seq(TrackStates) /\ Len(Reverse(list)) = Len(list)
           /\ \A i \in 1 .. Len(list) : Reverse(list)[i] = list[Len(list) - i + 1]
<1>1. Len(list) \in Nat /\ \A i \in 1 .. Len(list) : list[i] \in TrackStates
  BY LenProperties, ElementOfSeq
<1>2. \A i \in 1 .. Len(list) : Len(list) - i + 1 \in 1 .. Len(list)
  BY <1>1
<1>3. /\ Reverse(list) \in [1 .. Len(list) -> TrackStates]
      /\ \A i \in 1 .. Len(list) : Reverse(list)[i] = list[Len(list) - i + 1]
  BY <1>1, <1>2 DEF Reverse
<1>4. Reverse(list) \in Seq(TrackStates)
  BY <1>1, <1>3
<1>5. DOMAIN Reverse(list) = 1 .. Len(list)
  BY <1>3
<1>6. Len(Reverse(list)) \in Nat /\ DOMAIN Reverse(list) = 1 .. Len(Reverse(list))
  BY <1>4, LenProperties
<1>7. Len(Reverse(list)) = Len(list)
  BY <1>1, <1>5, <1>6
<1>8. QED BY <1>3, <1>4, <1>7

LEMMA BoundedIsSuffix ==
    ASSUME NEW list \in Seq(TrackStates)
    PROVE  IsSuffix(Bounded(list), list)
<1> DEFINE short == Bounded(list)
           n     == Len(short)
           one   == SubSeq(Reverse(short), 1, n)
           other == SubSeq(Reverse(list), 1, n)
<1>1. /\ short \in Seq(TrackStates) /\ n \in Nat /\ Len(list) \in Nat /\ n <= Len(list)
      /\ \A k \in 1 .. n : short[k] = list[k + Len(list) - n]
  BY BoundedType, LenProperties, TrajectoryAssumption
<1> HIDE DEF short
<1>2. /\ Reverse(short) \in Seq(TrackStates) /\ Len(Reverse(short)) = n
      /\ \A i \in 1 .. n : Reverse(short)[i] = short[n - i + 1]
      /\ Reverse(list) \in Seq(TrackStates) /\ Len(Reverse(list)) = Len(list)
      /\ \A i \in 1 .. Len(list) : Reverse(list)[i] = list[Len(list) - i + 1]
  BY <1>1, ReverseType
<1> HIDE DEF n
<1>3. \A i \in 1 .. n : /\ i \in 1 .. Len(list)
                        /\ Reverse(short)[i] = Reverse(list)[i]
                        /\ Reverse(list)[i] \in TrackStates
  <2> SUFFICES ASSUME NEW i \in 1 .. n
               PROVE  /\ i \in 1 .. Len(list)
                      /\ Reverse(short)[i] = Reverse(list)[i]
                      /\ Reverse(list)[i] \in TrackStates
    OBVIOUS
  <2>1. i \in 1 .. Len(list) /\ n - i + 1 \in 1 .. n
        /\ (n - i + 1) + Len(list) - n = Len(list) - i + 1
    BY <1>1
  <2>2. Reverse(list)[i] \in TrackStates
    BY <1>2, <2>1, ElementOfSeq
  <2>3. QED BY <1>1, <1>2, <2>1, <2>2
<1>4. /\ one \in Seq(TrackStates) /\ other \in Seq(TrackStates) /\ Len(one) = Len(other)
      /\ \A i \in 1 .. n - 1 + 1 : one[i] = Reverse(short)[1 + i - 1]
      /\ \A i \in 1 .. n - 1 + 1 : other[i] = Reverse(list)[1 + i - 1]
      /\ Len(one) = IF 1 <= n THEN n - 1 + 1 ELSE 0
  BY <1>1, <1>3, SubSeqProperties
<1> HIDE DEF one, other
<1>5. Len(one) = n /\ n - 1 + 1 = n /\ \A i \in 1 .. n : 1 + i - 1 = i
  BY <1>1, <1>4
<1>6. \A i \in 1 .. Len(one) : one[i] = other[i]
  BY <1>3, <1>4, <1>5
<1>7. one = other
  BY <1>4, <1>6, SeqEqual
<1>8. QED BY <1>1, <1>2, <1>7 DEF IsSuffix, IsPrefix, one, other, short

LEMMA HistoryFacts ==
    ASSUME HistoryInv, NEW t \in DOMAIN histories
    PROVE  /\ histories[t] \in Seq(TrackStates) /\ Len(histories[t]) <= MaxLength
           /\ t \in Tracks /\ t \in DOMAIN accepted
           /\ Convertible(histories[t])
           /\ IsSuffix(histories[t], accepted[t])
           /\ Len(histories[t]) < MaxLength => histories[t] = accepted[t]
<1> DEFINE list == accepted[t]
           short == histories[t]
           from == Len(list) - Len(short)
<1>1. t \in DOMAIN accepted /\ short = Bounded(list)
  BY DEF HistoryInv, Buffered
<1>2. /\ list \in Seq(TrackStates) /\ t \in Tracks
      /\ list # <<>> /\ Increasing(list)
  BY <1>1, TableType DEF HistoryInv, Good
<1> HIDE DEF list, short
<1>3. /\ short \in Seq(TrackStates) /\ Len(list) \in Nat /\ Len(short) \in Nat
      /\ Len(short) = IF Len(list) > MaxLength THEN MaxLength ELSE Len(list)
      /\ \A k \in 1 .. Len(short) : short[k] = list[k + Len(list) - Len(short)]
      /\ IsSuffix(short, list) /\ short # <<>>
  BY <1>1, <1>2, BoundedType, BoundedIsSuffix, BoundedEnds, LenProperties
<1>4. MaxLength \in Nat
  BY TrajectoryAssumption
<1>5. Len(short) <= MaxLength /\ (Len(short) < MaxLength => short = list)
  <2>1. ~(Len(list) > MaxLength) => Bounded(list) = list
    BY DEF Bounded
  <2>2. QED BY <1>1, <1>3, <1>4, <2>1
<1>6. ASSUME NEW k \in 2 .. Len(short) PROVE FeatureRows(short)[k].dt > 0
  <2>1. /\ k \in 1 .. Len(short) /\ k - 1 \in 1 .. Len(short) /\ k # 1
        /\ k + Len(list) - Len(short) \in 2 .. Len(list)
        /\ (k - 1) + Len(list) - Len(short) = (k + Len(list) - Len(short)) - 1
    BY <1>3, <1>4
  <2>2. short[k - 1].time < short[k].time
    <3>1. short[k] = list[k + Len(list) - Len(short)]
          /\ short[k - 1] = list[(k + Len(list) - Len(short)) - 1]
      BY <1>3, <2>1
    <3>2. QED BY <1>2, <2>1, <3>1 DEF Increasing
  <2>3. short[k] \in TrackStates /\ short[k - 1] \in TrackStates
    BY <1>3, <2>1, ElementOfSeq
  <2>4. short[k].time \in Int /\ short[k - 1].time \in Int
    BY <2>3 DEF TrackStates
  <2>5. k \in DOMAIN short
    BY <1>3, <2>1, LenProperties
  <2>6. FeatureRows(short)[k].dt = short[k].time - short[k - 1].time
    BY <2>1, <2>5 DEF FeatureRows
  <2>7. QED BY <2>2, <2>4, <2>6
<1>7. Convertible(short)
  BY <1>3, <1>6 DEF Convertible
<1>8. QED BY <1>1, <1>2, <1>3, <1>5, <1>7 DEF list, short


\* No track is known.
LEMMA NothingIsGood ==
    /\ DOMAIN <<>> = {} /\ Good(<<>>) /\ Buffered(<<>>) = <<>>
<1>1. DOMAIN <<>> = {} /\ \A f : f = [t \in {} |-> f[t]] => f = <<>>
  OBVIOUS
<1>2. <<>> = [t \in DOMAIN <<>> |-> <<>>[t]]
  BY <1>1
<1>3. <<>> \in Tables
  BY <1>1, <1>2, TableType
<1>4. IsFiniteSet({})
  BY FS_EmptySet
<1>5. Buffered(<<>>) = <<>>
  BY <1>1 DEF Buffered
<1>6. QED BY <1>1, <1>3, <1>4, <1>5 DEF Good

LEMMA HistoryStart == TrajectoryInit => HistoryInv
BY NothingIsGood DEF TrajectoryInit, HistoryInv

LEMMA HistoryStep == HistoryInv /\ [TrajectoryNext]_trajectoryVars => HistoryInv'
<1> SUFFICES ASSUME HistoryInv, [TrajectoryNext]_trajectoryVars PROVE HistoryInv'
  OBVIOUS
<1>0. ASSUME UNCHANGED <<histories, accepted>> PROVE HistoryInv'
  BY <1>0 DEF HistoryInv
<1>1. ASSUME NEW batch \in Batches, Extend(batch) PROVE HistoryInv'
  BY <1>1, ExtendStep
<1>2. CASE Clear
  BY <1>2, NothingIsGood DEF Clear, HistoryInv
<1>3. CASE SplitByTrajectory
  BY <1>0, <1>3 DEF SplitByTrajectory
<1>4. CASE UNCHANGED trajectoryVars
  BY <1>0, <1>4 DEF trajectoryVars
<1>5. QED BY <1>1, <1>2, <1>3, <1>4 DEF TrajectoryNext

\* Whatever batches are given, also some that extend gives up in the middle, every
\* history converts to features and is the newest part of what was accepted.
THEOREM HistoriesConvert == TrajectorySpec => []HistoriesStayUsable
<1>1. HistoryInv => HistoriesStayUsable
  BY HistoryFacts DEF HistoriesStayUsable
<1>2. QED BY <1>1, HistoryStart, HistoryStep, PTL DEF TrajectorySpec

-----------------------------------------------------------------------------
(* Windows *)

LEMMA RowsLength ==
    ASSUME NEW list \in Seq(TrackStates)
    PROVE  Len(FeatureRows(list)) = Len(list)
<1>1. DOMAIN list = 1 .. Len(list) /\ Len(list) \in Nat
  BY LenProperties
<1>2. DOMAIN FeatureRows(list) = 1 .. Len(list)
  BY <1>1 DEF FeatureRows
<1>3. QED BY <1>1, <1>2

LEMMA WindowsOfTrack ==
    ASSUME HistoryInv, NEW t \in DOMAIN histories,
           NEW w \in WindowsOf(t, FeatureRows(histories[t]))
    PROVE  w.track = t /\ Len(w.history) = HistoryLen /\ Len(w.future) = FutureLen
<1> DEFINE rows == FeatureRows(histories[t])
<1>0. HistoryLen \in Nat \ {0} /\ FutureLen \in Nat \ {0}
  BY TrajectoryAssumption
<1>1. Len(rows) \in Nat
  BY HistoryFacts, RowsLength, LenProperties
<1> HIDE DEF rows
<1>2. PICK s \in Starts(rows) :
         w = [track |-> t, start |-> s,
              history |-> Slice(rows, s + 1, s + HistoryLen),
              future  |-> Slice(rows, s + HistoryLen + 1, s + WindowLen)]
  BY DEF WindowsOf, rows
<1>3. s \in Nat /\ s + HistoryLen + FutureLen <= Len(rows)
  BY <1>0, <1>1, <1>2 DEF Starts, WindowLen
<1> DEFINE S == {rows[k] : k \in 1 .. Len(rows)}
<1>4. /\ Slice(rows, s + 1, s + HistoryLen) = SubSeq(rows, s + 1, s + HistoryLen)
      /\ Slice(rows, s + HistoryLen + 1, s + WindowLen)
           = SubSeq(rows, s + HistoryLen + 1, s + WindowLen)
  <2>1. s + HistoryLen < Len(rows)
    BY <1>0, <1>1, <1>3
  <2>2. s + WindowLen < Len(rows) \/ s + WindowLen = Len(rows)
    BY <1>0, <1>1, <1>3 DEF WindowLen
  <2>3. QED BY <2>1, <2>2 DEF Slice
<1>5. Len(SubSeq(rows, s + 1, s + HistoryLen)) = HistoryLen
  <2>1. /\ s + 1 \in Int /\ s + HistoryLen \in Int /\ s + 1 <= s + HistoryLen
        /\ (s + HistoryLen) - (s + 1) + 1 = HistoryLen
        /\ \A i \in s + 1 .. s + HistoryLen : i \in 1 .. Len(rows)
    BY <1>0, <1>1, <1>3
  <2>2. \A i \in s + 1 .. s + HistoryLen : rows[i] \in S
    BY <2>1
  <2> HIDE DEF S
  <2>3. QED BY <2>1, <2>2, SubSeqProperties
<1>6. Len(SubSeq(rows, s + HistoryLen + 1, s + WindowLen)) = FutureLen
  <2>1. /\ s + HistoryLen + 1 \in Int /\ s + WindowLen \in Int
        /\ s + HistoryLen + 1 <= s + WindowLen
        /\ (s + WindowLen) - (s + HistoryLen + 1) + 1 = FutureLen
        /\ \A i \in s + HistoryLen + 1 .. s + WindowLen : i \in 1 .. Len(rows)
    BY <1>0, <1>1, <1>3 DEF WindowLen
  <2>2. \A i \in s + HistoryLen + 1 .. s + WindowLen : rows[i] \in S
    BY <2>1
  <2> HIDE DEF S
  <2>3. QED BY <2>1, <2>2, SubSeqProperties
<1>7. QED BY <1>2, <1>4, <1>5, <1>6

LEMMA WindowsKnowTracks ==
    ASSUME HistoryInv, NEW tracks, tracks \subseteq DOMAIN histories, NEW w \in Windows(tracks)
    PROVE  w.track \in tracks /\ Len(w.history) = HistoryLen /\ Len(w.future) = FutureLen
<1>1. PICK t \in tracks : w \in WindowsOf(t, FeatureRows(histories[t]))
  BY DEF Windows
<1>2. t \in DOMAIN histories
  OBVIOUS
<1>3. QED BY <1>1, <1>2, WindowsOfTrack

\* A long history has a window at its start.
LEMMA WindowsOfLong ==
    ASSUME HistoryInv, LongEnough, NEW tracks, tracks \subseteq DOMAIN histories, tracks # {}
    PROVE  Windows(tracks) # {}
<1>1. PICK t \in tracks : t \in DOMAIN histories
  OBVIOUS
<1> DEFINE rows == FeatureRows(histories[t])
<1>2. Len(rows) \in Nat /\ Len(rows) >= WindowLen
  BY <1>1, HistoryFacts, RowsLength, LenProperties DEF LongEnough
<1>3. 0 \in Starts(rows)
  <2>1. Stride \in Nat \ {0} /\ WindowLen \in Nat
    BY TrajectoryAssumption DEF WindowLen
  <2>2. 0 % Stride = 0
    BY <2>1
  <2> HIDE DEF rows
  <2>3. QED BY <1>2, <2>1, <2>2 DEF Starts
<1> HIDE DEF rows
<1>4. WindowsOf(t, rows) # {}
  BY <1>3 DEF WindowsOf
<1>5. QED BY <1>1, <1>4 DEF Windows, rows

LEMMA SidesOfSplit ==
    ASSUME NEW n \in Nat, n >= 2, NEW ratio \in Ratios
    PROVE  Trained(n, ratio) \in 1 .. n - 1
<1>1. ratio \in 1 .. 4
  BY TrajectoryAssumption
<1>2. n * ratio \in Nat
  BY <1>1
<1>3. (n * ratio) \div 5 \in Nat
  BY <1>2
<1>4. QED BY <1>3 DEF Trained

\* A split lets no trajectory give windows to both sides, makes all of them full,
\* and loses none when every trajectory is long enough.
THEOREM SplitLosesNothing == TrajectorySpec => SplitIsSound
<1>1. HistoryInv /\ [TrajectoryNext]_trajectoryVars =>
        [datasets' # datasets =>
          /\ NoLeak'
          /\ LongEnough => /\ datasets'.made
                           /\ datasets'.train \cup datasets'.val
                                = Windows(DOMAIN histories)]_trajectoryVars
  <2> SUFFICES ASSUME HistoryInv, TrajectoryNext, datasets' # datasets
               PROVE  /\ NoLeak'
                      /\ LongEnough => /\ datasets'.made
                                       /\ datasets'.train \cup datasets'.val
                                            = Windows(DOMAIN histories)
    OBVIOUS
  <2>1. SplitByTrajectory
    BY DEF TrajectoryNext, Extend, Clear
  <2>2. PICK ratio \in Ratios, chosen \in SUBSET DOMAIN histories :
           /\ Cardinality(chosen) = Trained(Cardinality(DOMAIN histories), ratio)
           /\ datasets' = Datasets(chosen)
    BY <2>1 DEF SplitByTrajectory
  <2> DEFINE rest  == DOMAIN histories \ chosen
             train == Windows(chosen)
             val   == Windows(rest)
  <2>3. /\ \A w \in train : /\ w.track \in chosen
                            /\ Len(w.history) = HistoryLen /\ Len(w.future) = FutureLen
        /\ \A w \in val : /\ w.track \in rest
                          /\ Len(w.history) = HistoryLen /\ Len(w.future) = FutureLen
    BY WindowsKnowTracks
  <2>4. datasets' = IF train = {} \/ val = {} THEN NoDatasets
                    ELSE [made |-> TRUE, train |-> train, val |-> val]
    BY <2>2 DEF Datasets
  <2>5. chosen # {} /\ rest # {}
    <3>1. IsFiniteSet(DOMAIN histories) /\ DOMAIN histories = DOMAIN accepted
      BY DEF HistoryInv, Good, Buffered
    <3>2. Cardinality(DOMAIN histories) \in Nat /\ Cardinality(DOMAIN histories) >= 2
      BY <2>1, <3>1, FS_CardinalityType DEF SplitByTrajectory
    <3>3. Cardinality(chosen) \in 1 .. Cardinality(DOMAIN histories) - 1
      BY <2>2, <3>2, SidesOfSplit
    <3>4. Cardinality({}) = 0
      BY FS_EmptySet
    <3>5. chosen # DOMAIN histories
      BY <3>2, <3>3
    <3>6. QED BY <3>2, <3>3, <3>4, <3>5
  <2>6. train \cup val = Windows(DOMAIN histories)
    BY DEF Windows
  <2>7. LongEnough => train # {} /\ val # {}
    BY <2>5, WindowsOfLong
  <2> HIDE DEF train, val
  <2>8. NoLeak'
    <3>1. CASE train = {} \/ val = {}
      BY <2>4, <3>1 DEF NoLeak, NoDatasets
    <3>2. CASE ~(train = {} \/ val = {})
      <4>1. datasets'.train = train /\ datasets'.val = val
        BY <2>4, <3>2
      <4>2. QED BY <2>3, <4>1 DEF NoLeak
    <3>3. QED BY <3>1, <3>2
  <2>9. LongEnough => /\ datasets'.made
                      /\ datasets'.train \cup datasets'.val = Windows(DOMAIN histories)
    <3>1. SUFFICES ASSUME LongEnough
                   PROVE  /\ datasets'.made
                          /\ datasets'.train \cup datasets'.val = Windows(DOMAIN histories)
      OBVIOUS
    <3>2. datasets' = [made |-> TRUE, train |-> train, val |-> val]
      BY <2>4, <2>7, <3>1
    <3>3. QED BY <2>6, <3>2
  <2>10. QED BY <2>8, <2>9
<1>2. QED BY <1>1, HistoryStart, HistoryStep, PTL DEF TrajectorySpec, SplitIsSound

-----------------------------------------------------------------------------
(* Attention blocks *)

USE ArchitectureAssumption

Layers == Seq([channels : Nat, head : BOOLEAN, blocks : Nat])

\* The layers that an injection wraps.
Wraps(layers) == {k \in DOMAIN layers : Heads(layers) # {} /\ k \in NeckScaleOutputs(layers)}

\* The architecture with each of them wrapped so often.
Wrapped(layers, depth) ==
    [k \in DOMAIN layers |->
       IF k \in Wraps(layers) THEN [layers[k] EXCEPT !.blocks = depth] ELSE layers[k]]

\* What a layer is, its blocks apart.
SameLayers(one, other) ==
    /\ DOMAIN one = DOMAIN other
    /\ \A k \in DOMAIN one : /\ one[k].channels = other[k].channels
                             /\ one[k].head <=> other[k].head

\* The probe for channels sees through the blocks: what is found in a model does
\* not depend on how its layers are wrapped.
LEMMA ScalesOfSameLayers ==
    ASSUME NEW one, NEW other, SameLayers(one, other)
    PROVE  /\ Heads(one) = Heads(other)
           /\ NeckScaleOutputs(one) = NeckScaleOutputs(other)
           /\ CanInject(one) <=> CanInject(other)
<1>1. Heads(one) = Heads(other)
  BY DEF SameLayers, Heads
<1>2. HeadOf(one) = HeadOf(other)
  BY <1>1 DEF HeadOf
<1> DEFINE head == HeadOf(one)
           candidates(layers) == {k \in DOMAIN layers :
                         /\ head - NeckWindow <= k /\ k < head
                         /\ layers[k].channels \in MinChannels .. MaxChannels}
           finals(layers) == {k \in candidates(layers) :
                         \A j \in candidates(layers) :
                            layers[j].channels = layers[k].channels => j <= k}
<1>3. candidates(one) = candidates(other)
  BY DEF SameLayers
<1>4. finals(one) = finals(other)
  BY <1>3 DEF SameLayers
<1>5. /\ NeckScaleOutputs(one) = {k \in finals(one) : Cardinality({j \in finals(one) : j > k}) < 3}
      /\ NeckScaleOutputs(other) = {k \in finals(other) : Cardinality({j \in finals(other) : j > k}) < 3}
  BY <1>2 DEF NeckScaleOutputs
<1>6. NeckScaleOutputs(one) = NeckScaleOutputs(other)
  BY <1>4, <1>5
<1>7. QED BY <1>1, <1>6 DEF CanInject

LEMMA LayerType ==
    ASSUME NEW layers \in Architectures, NEW k \in DOMAIN layers
    PROVE  layers[k] \in [channels : Nat, head : BOOLEAN, blocks : {0}]
<1>1. layers \in Seq([channels : Nat, head : BOOLEAN, blocks : {0}])
  OBVIOUS
<1>2. QED BY <1>1, ElementOfSeq, LenProperties

LEMMA WrappedIsSame ==
    ASSUME NEW layers \in Architectures, NEW depth \in Nat
    PROVE  /\ SameLayers(Wrapped(layers, depth), layers)
           /\ \A k \in DOMAIN layers :
                /\ Wrapped(layers, depth)[k] \in [channels : Nat, head : BOOLEAN, blocks : Nat]
                /\ Wrapped(layers, depth)[k].blocks = (IF k \in Wraps(layers) THEN depth ELSE 0)
<1>1. \A k \in DOMAIN layers : layers[k] \in [channels : Nat, head : BOOLEAN, blocks : {0}]
  BY LayerType
<1>2. ASSUME NEW k \in DOMAIN layers
      PROVE  /\ Wrapped(layers, depth)[k].channels = layers[k].channels
             /\ Wrapped(layers, depth)[k].head <=> layers[k].head
             /\ Wrapped(layers, depth)[k].blocks = (IF k \in Wraps(layers) THEN depth ELSE 0)
             /\ Wrapped(layers, depth)[k] \in [channels : Nat, head : BOOLEAN, blocks : Nat]
  <2>1. layers[k] \in [channels : Nat, head : BOOLEAN, blocks : {0}]
    BY <1>1
  <2>2. CASE k \in Wraps(layers)
    <3>1. Wrapped(layers, depth)[k] = [layers[k] EXCEPT !.blocks = depth]
      BY <2>2 DEF Wrapped
    <3>2. QED BY <2>1, <2>2, <3>1
  <2>3. CASE k \notin Wraps(layers)
    <3>1. Wrapped(layers, depth)[k] = layers[k]
      BY <2>3 DEF Wrapped
    <3>2. QED BY <2>1, <2>3, <3>1
  <2>4. QED BY <2>2, <2>3
<1>3. DOMAIN Wrapped(layers, depth) = DOMAIN layers
  BY DEF Wrapped
<1>4. QED BY <1>2, <1>3 DEF SameLayers

\* Injecting adds a block to each of them.
LEMMA InjectedIsDeeper ==
    ASSUME NEW layers \in Architectures, NEW depth \in Nat,
           CanInject(Wrapped(layers, depth))
    PROVE  Injected(Wrapped(layers, depth)) = Wrapped(layers, depth + 1)
<1> DEFINE m == Wrapped(layers, depth)
<1>1. /\ DOMAIN m = DOMAIN layers /\ Heads(layers) # {}
      /\ NeckScaleOutputs(m) = NeckScaleOutputs(layers)
  BY WrappedIsSame, ScalesOfSameLayers DEF CanInject, SameLayers
<1>2. ASSUME NEW k \in DOMAIN layers
      PROVE  Injected(m)[k] = Wrapped(layers, depth + 1)[k]
  <2>1. /\ layers[k] \in [channels : Nat, head : BOOLEAN, blocks : {0}]
        /\ m[k] = IF k \in Wraps(layers) THEN [layers[k] EXCEPT !.blocks = depth] ELSE layers[k]
        /\ k \in NeckScaleOutputs(m) <=> k \in Wraps(layers)
    <3>1. m[k] = IF k \in Wraps(layers) THEN [layers[k] EXCEPT !.blocks = depth] ELSE layers[k]
      BY DEF Wrapped
    <3>2. k \in NeckScaleOutputs(m) <=> k \in Wraps(layers)
      BY <1>1 DEF Wraps
    <3>3. QED BY <3>1, <3>2, LayerType
  <2>2. CASE k \in Wraps(layers)
    <3>1. /\ Injected(m)[k] = [m[k] EXCEPT !.blocks = m[k].blocks + 1]
          /\ m[k] = [layers[k] EXCEPT !.blocks = depth]
          /\ Wrapped(layers, depth + 1)[k] = [layers[k] EXCEPT !.blocks = depth + 1]
      BY <1>1, <2>1, <2>2 DEF Injected, Wrapped
    <3>2. m[k].blocks = depth
      BY <2>1, <3>1
    <3>3. QED BY <2>1, <3>1, <3>2
  <2>3. CASE k \notin Wraps(layers)
    BY <1>1, <2>1, <2>3 DEF Injected, Wrapped
  <2>4. QED BY <2>2, <2>3
<1>3. Injected(m) = [k \in DOMAIN layers |-> Injected(m)[k]]
  BY <1>1 DEF Injected
<1>4. Wrapped(layers, depth + 1) = [k \in DOMAIN layers |-> Wrapped(layers, depth + 1)[k]]
  BY DEF Wrapped
<1>5. QED BY <1>2, <1>3, <1>4

\* Stripping takes one from each that has one.
LEMMA StrippedIsShallower ==
    ASSUME NEW layers \in Architectures, NEW depth \in Nat
    PROVE  Stripped(Wrapped(layers, depth)) =
             Wrapped(layers, IF depth > 0 THEN depth - 1 ELSE 0)
<1> DEFINE m == Wrapped(layers, depth)
           less == IF depth > 0 THEN depth - 1 ELSE 0
<1>1. DOMAIN m = DOMAIN layers
  BY DEF Wrapped
<1>2. ASSUME NEW k \in DOMAIN layers
      PROVE  Stripped(m)[k] = Wrapped(layers, less)[k]
  <2>1. /\ layers[k] \in [channels : Nat, head : BOOLEAN, blocks : {0}]
        /\ m[k] = IF k \in Wraps(layers) THEN [layers[k] EXCEPT !.blocks = depth] ELSE layers[k]
        /\ m[k].blocks = (IF k \in Wraps(layers) THEN depth ELSE 0)
        /\ Stripped(m)[k] = IF m[k].blocks > 0 THEN [m[k] EXCEPT !.blocks = m[k].blocks - 1]
                            ELSE m[k]
    <3>1. m[k] = IF k \in Wraps(layers) THEN [layers[k] EXCEPT !.blocks = depth] ELSE layers[k]
      BY DEF Wrapped
    <3>2. Stripped(m)[k] = IF m[k].blocks > 0 THEN [m[k] EXCEPT !.blocks = m[k].blocks - 1]
                           ELSE m[k]
      BY <1>1 DEF Stripped
    <3>3. QED BY <3>1, <3>2, LayerType, WrappedIsSame
  <2>2. CASE k \in Wraps(layers) /\ depth > 0
    <3>1. /\ Stripped(m)[k] = [m[k] EXCEPT !.blocks = depth - 1]
          /\ m[k] = [layers[k] EXCEPT !.blocks = depth]
          /\ Wrapped(layers, less)[k] = [layers[k] EXCEPT !.blocks = depth - 1]
      BY <2>1, <2>2 DEF Wrapped
    <3>2. QED BY <2>1, <3>1
  <2>3. CASE k \in Wraps(layers) /\ depth = 0
    BY <2>1, <2>3 DEF Wrapped
  <2>4. CASE k \notin Wraps(layers)
    BY <2>1, <2>4 DEF Wrapped
  <2>5. QED BY <2>2, <2>3, <2>4
<1>3. Stripped(m) = [k \in DOMAIN layers |-> Stripped(m)[k]]
  BY <1>1 DEF Stripped
<1>4. Wrapped(layers, less) = [k \in DOMAIN layers |-> Wrapped(layers, less)[k]]
  BY DEF Wrapped
<1>5. QED BY <1>2, <1>3, <1>4

LEMMA BareIsArchitecture ==
    ASSUME NEW layers \in Architectures, NEW depth \in Nat
    PROVE  /\ Bare(Wrapped(layers, depth)) = layers
           /\ Wrapped(layers, 0) = layers
           /\ Bare(layers) = layers
<1>1. layers = [k \in DOMAIN layers |-> layers[k]]
  <2>1. layers \in Seq([channels : Nat, head : BOOLEAN, blocks : {0}])
    OBVIOUS
  <2>2. QED BY <2>1, LenProperties
<1>2. ASSUME NEW k \in DOMAIN layers, NEW d \in Nat
      PROVE  /\ [Wrapped(layers, d)[k] EXCEPT !.blocks = 0] = layers[k]
             /\ d = 0 => Wrapped(layers, d)[k] = layers[k]
             /\ [layers[k] EXCEPT !.blocks = 0] = layers[k]
  <2>1. layers[k] \in [channels : Nat, head : BOOLEAN, blocks : {0}]
    BY LayerType
  <2>2. Wrapped(layers, d)[k] =
          IF k \in Wraps(layers) THEN [layers[k] EXCEPT !.blocks = d] ELSE layers[k]
    BY DEF Wrapped
  <2>3. QED BY <2>1, <2>2
<1>3. /\ DOMAIN Wrapped(layers, depth) = DOMAIN layers
      /\ Bare(Wrapped(layers, depth)) =
           [k \in DOMAIN layers |-> [Wrapped(layers, depth)[k] EXCEPT !.blocks = 0]]
      /\ Wrapped(layers, 0) = [k \in DOMAIN layers |-> Wrapped(layers, 0)[k]]
  BY DEF Wrapped, Bare
<1>4. Bare(layers) = [k \in DOMAIN layers |-> [layers[k] EXCEPT !.blocks = 0]]
  BY DEF Bare
<1>5. Bare(Wrapped(layers, depth)) = layers
  BY <1>1, <1>2, <1>3
<1>6. Wrapped(layers, 0) = layers
  <2>1. \A k \in DOMAIN layers : Wrapped(layers, 0)[k] = layers[k]
    BY <1>2
  <2>2. [k \in DOMAIN layers |-> Wrapped(layers, 0)[k]] = [k \in DOMAIN layers |-> layers[k]]
    BY <2>1
  <2>3. QED BY <1>1, <1>3, <2>2, Zenon
<1>7. Bare(layers) = layers
  BY <1>1, <1>2, <1>4
<1>8. QED BY <1>5, <1>6, <1>7

\* The loaded model, and the one in a checkpoint that holds the module, is the
\* architecture with all scales wrapped equally often.
WrapInv ==
    /\ base \in Architectures /\ steps \in 0 .. MaxSteps
    /\ \E depth \in 0 .. steps : model = Wrapped(base, depth)
    /\ checkpoint.layout \in {"none", "module", "dict"}
    /\ checkpoint.layout = "module" =>
          \E depth \in 0 .. steps : checkpoint.model = Wrapped(base, depth)

LEMMA WrapInit == Init => WrapInv
<1> SUFFICES ASSUME Init PROVE WrapInv
  OBVIOUS
<1>1. base \in Architectures /\ model = base /\ steps = 0 /\ checkpoint.layout = "none"
  BY DEF Init, NoCheckpoint
<1>2. model = Wrapped(base, 0)
  BY <1>1, BareIsArchitecture
<1>3. QED BY <1>1, <1>2 DEF WrapInv

LEMMA WrapStep == WrapInv /\ [Next]_vars => WrapInv'
<1> SUFFICES ASSUME WrapInv, [Next]_vars PROVE WrapInv'
  OBVIOUS
<1>0. PICK depth \in 0 .. steps : model = Wrapped(base, depth)
  BY DEF WrapInv
<1>a. base \in Architectures /\ steps \in 0 .. MaxSteps /\ depth \in Nat
  BY DEF WrapInv
\* A step that leaves the checkpoint alone.
<1>b. ASSUME Step, UNCHANGED <<base, checkpoint>>, NEW d \in 0 .. steps + 1,
             model' = Wrapped(base, d)
      PROVE  WrapInv'
  BY <1>a, <1>b DEF WrapInv, Step
<1>1. CASE Inject
  <2>1. model' = Wrapped(base, depth + 1)
    BY <1>0, <1>a, <1>1, InjectedIsDeeper DEF Inject
  <2>2. QED BY <1>a, <1>b, <1>1, <2>1 DEF Inject
<1>2. PICK less \in 0 .. depth : less = IF depth > 0 THEN depth - 1 ELSE 0
  BY <1>a
<1>3. Stripped(model) = Wrapped(base, less)
  BY <1>0, <1>a, <1>2, StrippedIsShallower
<1>4. CASE Strip
  BY <1>a, <1>b, <1>2, <1>3, <1>4 DEF Strip
<1>5. CASE SaveClean
  <2>1. /\ model' = Wrapped(base, less) /\ base' = base /\ steps' = steps + 1
        /\ steps < MaxSteps /\ checkpoint'.layout = "dict"
    BY <1>3, <1>5 DEF SaveClean, Step, Saved
  <2>2. QED BY <1>a, <1>2, <2>1 DEF WrapInv
<1>6. CASE Load
  <2>1. CASE checkpoint.layout = "module" /\ model' = checkpoint.model
    BY <1>a, <1>b, <1>6, <2>1 DEF Load, WrapInv
  <2>2. CASE model' = base
    <3>1. model' = Wrapped(base, 0)
      BY <1>a, <2>2, BareIsArchitecture
    <3>2. QED BY <1>a, <1>b, <1>6, <3>1 DEF Load
  <2>3. QED BY <1>6, <2>1, <2>2 DEF Load
<1>7. ASSUME NEW attention \in BOOLEAN, NEW layout \in {"module", "dict"},
             Train(attention, layout)
      PROVE  WrapInv'
  <2>1. PICK d \in 0 .. steps + 1 : model' = Wrapped(base, d)
    <3>1. CASE attention
      BY <1>0, <1>a, <1>7, <3>1, InjectedIsDeeper DEF Train
    <3>2. CASE ~attention
      BY <1>0, <1>a, <1>7, <3>2 DEF Train
    <3>3. QED BY <3>1, <3>2
  <2>2. checkpoint'.layout = layout /\ checkpoint'.model = model'
    BY <1>7 DEF Train, Filtered, Saved
  <2>3. base' = base /\ steps < MaxSteps /\ steps' = steps + 1
    BY <1>7 DEF Train, Step
  <2>4. QED BY <1>a, <2>1, <2>2, <2>3 DEF WrapInv
<1>8. CASE UNCHANGED vars
  BY <1>8 DEF vars, WrapInv
<1>9. QED BY <1>1, <1>4, <1>5, <1>6, <1>7, <1>8 DEF Next

\* Whatever is injected, trained, saved, loaded and stripped, the blocks sit on the
\* scale outputs of the neck, equally deep, and strip undoes an injection.
THEOREM BlocksWrapTogether == Spec => []WrappedTogether
<1>1. WrapInv => WrappedTogether
  <2> SUFFICES ASSUME WrapInv PROVE WrappedTogether
    OBVIOUS
  <2>1. PICK depth \in 0 .. steps : model = Wrapped(base, depth)
    BY DEF WrapInv
  <2>2. base \in Architectures /\ steps \in 0 .. MaxSteps /\ depth \in Nat
    BY DEF WrapInv
  <2>3. TypeOK
    BY <2>1, <2>2, BareIsArchitecture DEF TypeOK, WrapInv
  <2>4. CanInject(model) => Stripped(Injected(model)) = model
    <3>1. depth + 1 \in Nat /\ depth + 1 > 0 /\ (depth + 1) - 1 = depth
      BY <2>2
    <3>2. Stripped(Wrapped(base, depth + 1)) = Wrapped(base, depth)
      BY <2>2, <3>1, StrippedIsShallower
    <3>3. QED BY <2>1, <2>2, <3>2, InjectedIsDeeper
  <2>5. \A k \in DOMAIN model :
           model[k].blocks =
             (IF Heads(base) # {} /\ k \in NeckScaleOutputs(base) THEN depth ELSE 0)
    BY <2>1, <2>2, WrappedIsSame DEF SameLayers, Wraps
  <2>6. depth \in 0 .. MaxSteps
    BY <2>2
  <2>7. QED BY <2>3, <2>4, <2>5, <2>6 DEF WrappedTogether
<1>2. QED BY <1>1, WrapInit, WrapStep, PTL DEF Spec

\* A wrapped layer has a parameter deeper than the architecture has any.
LEMMA WrappedKeysDiffer ==
    ASSUME NEW layers \in Architectures, NEW depth \in Nat \ {0}, NEW k \in Wraps(layers),
           NEW keys, [layer |-> k, depth |-> depth, attention |-> FALSE] \in keys
    PROVE  keys # Keys(layers)
<1>1. k \in DOMAIN layers
  BY DEF Wraps
<1>2. \A j \in DOMAIN layers : layers[j].blocks = 0
  BY LayerType
<1>3. \A j \in DOMAIN layers :
         /\ [layer |-> k, depth |-> depth, attention |-> FALSE]
              # [layer |-> j, depth |-> layers[j].blocks, attention |-> FALSE]
         /\ \A d \in 0 .. layers[j].blocks - 1 :
               [layer |-> k, depth |-> depth, attention |-> FALSE]
                 # [layer |-> j, depth |-> d, attention |-> TRUE]
  BY <1>2
<1>4. [layer |-> k, depth |-> depth, attention |-> FALSE] \notin Keys(layers)
  BY <1>3, Zenon DEF Keys
<1>5. QED BY <1>4

LEMMA KeyOfWrapped ==
    ASSUME NEW layers \in Architectures, NEW depth \in Nat, NEW k \in Wraps(layers)
    PROVE  [layer |-> k, depth |-> depth, attention |-> FALSE]
              \in Keys(Wrapped(layers, depth))
<1>1. k \in DOMAIN layers
  BY DEF Wraps
<1>2. k \in DOMAIN Wrapped(layers, depth) /\ Wrapped(layers, depth)[k].blocks = depth
  BY <1>1, WrappedIsSame DEF SameLayers
<1>3. QED BY <1>2 DEF Keys

\* A file that save_clean_checkpoint writes has the keys of the architecture exactly
\* if no layer of the model had more than one block; one that training cleaned never
\* has them (_strip_and_resave_checkpoint).
THEOREM CleanFilesLoad == Spec => SavedCleanUnlessNested
<1>1. ASSUME WrapInv, SaveClean
      PROVE  checkpoint'.keys = Keys(base) <=> \A k \in DOMAIN model : model[k].blocks <= 1
  <2>1. PICK depth \in 0 .. steps : model = Wrapped(base, depth)
    BY <1>1 DEF WrapInv
  <2>2. base \in Architectures /\ depth \in Nat
    BY <1>1 DEF WrapInv
  <2>3. checkpoint'.keys = Keys(Stripped(model))
    BY <1>1 DEF SaveClean, Saved
  <2>4. /\ DOMAIN model = DOMAIN base
        /\ \A k \in DOMAIN base : model[k].blocks = (IF k \in Wraps(base) THEN depth ELSE 0)
    BY <2>1, <2>2, WrappedIsSame DEF SameLayers
  <2>5. CASE depth <= 1
    <3>1. (IF depth > 0 THEN depth - 1 ELSE 0) = 0
      BY <2>2, <2>5
    <3>2. Stripped(model) = Wrapped(base, 0)
      BY <2>1, <2>2, <3>1, StrippedIsShallower
    <3>3. checkpoint'.keys = Keys(base)
      BY <2>2, <2>3, <3>2, BareIsArchitecture
    <3>4. \A k \in DOMAIN model : model[k].blocks <= 1
      BY <2>2, <2>4, <2>5
    <3>5. QED BY <3>3, <3>4
  <2>6. CASE depth > 1 /\ Wraps(base) = {}
    <3>1. \A k \in DOMAIN base : k \notin Wraps(base)
      BY <2>6
    <3>2. \A d \in Nat : Wrapped(base, d) = [k \in DOMAIN base |-> base[k]]
      BY <3>1 DEF Wrapped
    <3>3. Stripped(model) = Wrapped(base, 0)
      BY <2>1, <2>2, <2>6, <3>2, StrippedIsShallower
    <3>4. checkpoint'.keys = Keys(base)
      BY <2>2, <2>3, <3>3, BareIsArchitecture
    <3>5. \A k \in DOMAIN model : model[k].blocks <= 1
      BY <2>4, <3>1
    <3>6. QED BY <3>4, <3>5
  <2>7. CASE depth > 1 /\ Wraps(base) # {}
    <3>1. PICK k \in Wraps(base) : TRUE
      BY <2>7
    <3>2. depth - 1 \in Nat \ {0} /\ (IF depth > 0 THEN depth - 1 ELSE 0) = depth - 1
      BY <2>2, <2>7
    <3>3. Stripped(model) = Wrapped(base, depth - 1)
      BY <2>1, <2>2, <3>2, StrippedIsShallower
    <3>4. checkpoint'.keys # Keys(base)
      BY <2>2, <2>3, <3>2, <3>3, KeyOfWrapped, WrappedKeysDiffer
    <3>5. k \in DOMAIN model /\ ~(model[k].blocks <= 1)
      BY <2>2, <2>4, <2>7 DEF Wraps
    <3>6. QED BY <3>4, <3>5
  <2>8. QED BY <2>2, <2>5, <2>6, <2>7
<1>2. ASSUME WrapInv, NEW layout \in {"module", "dict"}, Train(TRUE, layout)
      PROVE  checkpoint'.keys # Keys(base)
  <2>1. PICK depth \in 0 .. steps : model = Wrapped(base, depth)
    BY <1>2 DEF WrapInv
  <2>2. base \in Architectures /\ depth \in Nat /\ depth + 1 \in Nat \ {0}
    BY <1>2 DEF WrapInv
  <2>3. CanInject(model)
    BY <1>2 DEF Train
  <2>4. Injected(model) = Wrapped(base, depth + 1)
    BY <2>1, <2>2, <2>3, InjectedIsDeeper
  <2>5. PICK k \in Wraps(base) : TRUE
    <3>1. /\ Heads(model) = Heads(base)
          /\ NeckScaleOutputs(model) = NeckScaleOutputs(base)
          /\ DOMAIN model = DOMAIN base
      BY <2>1, <2>2, WrappedIsSame, ScalesOfSameLayers DEF SameLayers
    <3>2. NeckScaleOutputs(base) # {}
      <4>1. Cardinality(NeckScaleOutputs(base)) >= 3
        BY <2>3, <3>1 DEF CanInject
      <4>2. Cardinality({}) = 0
        BY FS_EmptySet
      <4>3. ASSUME NeckScaleOutputs(base) = {} PROVE FALSE
        <5>1. Cardinality(NeckScaleOutputs(base)) = 0
          BY <4>2, <4>3, Zenon
        <5>2. QED BY <4>1, <5>1
      <4>4. QED BY <4>3
    <3>3. NeckScaleOutputs(model) \subseteq DOMAIN model
      BY DEF NeckScaleOutputs
    <3>4. QED BY <2>3, <3>1, <3>2, <3>3 DEF Wraps, CanInject
  <2>6. DEFINE key == [layer |-> k, depth |-> depth + 1, attention |-> FALSE]
  <2>7. key \in Keys(Wrapped(base, depth + 1)) /\ ~key.attention
    BY <2>2, KeyOfWrapped
  <2>8. key \in checkpoint'.keys
    BY <1>2, <2>4, <2>7 DEF Train, Filtered, Saved
  <2>9. QED BY <2>2, <2>8, WrappedKeysDiffer
<1>3. WrapInv /\ [Next]_vars =>
        [/\ SaveClean => ( checkpoint'.keys = Keys(base)
                          <=> \A k \in DOMAIN model : model[k].blocks <= 1 )
         /\ \A layout \in {"module", "dict"} :
               Train(TRUE, layout) => checkpoint'.keys # Keys(base)]_vars
  BY <1>1, <1>2
<1>4. QED
  BY <1>3, WrapInit, WrapStep, PTL DEF Spec, SavedCleanUnlessNested
=============================================================================
