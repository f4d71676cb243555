------------------------ MODULE CloudConsumerProofs ------------------------
(***************************************************************************)
(* Proofs about CloudConsumer, for every set of messages, every window     *)
(* size and every number of deliveries and failed writes: the window's set *)
(* and deque stay in step, duplicates within the window are recognised,    *)
(* nothing is dropped on account of nothing, no message that was           *)
(* acknowledged goes astray before stop, and whoever has heard of an alarm *)
(* is answered with it.  About CloudQueries, for every limit of the        *)
(* answers: the summary counts what the histories answer, a device was     *)
(* last seen at its newest event, and the database finds the rows of the   *)
(* memory.  About ConsumerLifecycle, for any number of reconnecting        *)
(* threads, any delays and any limit of attempts.                          *)
(***************************************************************************)
EXTENDS CloudQueries, ConsumerLifecycle, ListLemmas

USE LimitAssumption

-----------------------------------------------------------------------------
(* Types *)

LEMMA KeyOfType == ASSUME NEW m \in Message PROVE KeyOf(m) \in Key
BY DEF Key, KeysOf

\* Remembering keeps the types of the set and of the deque.
LEMMA RememberType ==
  ASSUME TypeOK, NEW m \in Message, Remember(m)
  PROVE  seen' \in SUBSET Key /\ order' \in Seq(Key)
<1>1. PICK longer \in Seq(Key) : longer = Append(order, KeyOf(m)) /\ longer # <<>>
  BY KeyOfType, AppendProperties DEF TypeOK
<1>2. Tail(longer) \in Seq(Key)
  BY <1>1, HeadTailProperties
<1>3. KeyOf(m) \in Key /\ seen \in SUBSET Key
  BY KeyOfType DEF TypeOK
<1>4. CASE Len(longer) > MaxSeen
  BY <1>1, <1>2, <1>3, <1>4 DEF Remember
<1>5. CASE ~(Len(longer) > MaxSeen)
  BY <1>1, <1>2, <1>3, <1>5 DEF Remember
<1>6. QED BY <1>4, <1>5

\* Only a list that is too long is trimmed.
TrimIsDue == step = "trim" => Len(latest) > MaxAlerts

\* Trimming leaves a part of the list.
LEMMA TrimmedType ==
  ASSUME TypeOK, TrimIsDue, Trim
  PROVE  latest' \in Seq(Nat) /\ trims' \in Nat
<1>1. PICK n \in Nat : n = Len(latest)
  BY LenProperties DEF TypeOK
<1>2. n > MaxAlerts /\ latest' = SubSeq(latest, n - MaxAlerts + 1, n)
  BY <1>1 DEF TrimIsDue, Trim, NewestAlerts
<1>3. \A i \in n - MaxAlerts + 1 .. n : latest[i] \in Nat
  BY <1>1, <1>2, LenProperties, ElementOfSeq DEF TypeOK
<1>4. n - MaxAlerts + 1 \in Int /\ n \in Int
  BY <1>1
<1>5. latest' \in Seq(Nat)
  BY <1>2, <1>3, <1>4, SubSeqProperties
<1>6. trims' \in Nat
  BY <1>1, <1>2 DEF Trim, TypeOK
<1>7. QED BY <1>5, <1>6

LEMMA TypeInductive == Spec => [](TypeOK /\ TrimIsDue)
<1>1. Init => TypeOK /\ TrimIsDue
  <2>1. <<>> \in Seq(Message) /\ <<>> \in Seq(Key) /\ <<>> \in Seq(Nat)
    BY EmptySeq
  <2>2. {} \in SUBSET Message /\ {} \in SUBSET Key /\ {} \in SUBSET Nat /\ 0 \in Nat
    OBVIOUS
  <2>3. QED BY <2>1, <2>2, Zenon DEF Init, TypeOK, TrimIsDue
<1>2. TypeOK /\ TrimIsDue /\ [Next]_vars => TypeOK'
  <2> SUFFICES ASSUME TypeOK, TrimIsDue, [Next]_vars PROVE TypeOK'
    OBVIOUS
  <2> USE DEF memory, output, history, routes
  <2>1. ASSUME NEW m \in Message, OnMessage(m) PROVE TypeOK'
    <3>0. deliveries' = deliveries + 1 /\ deliveries \in Nat
      BY <2>1, Zenon DEF OnMessage, Deliver, TypeOK
    <3>a. acked' = acked \cup {m} /\ acked \in SUBSET Message
      BY <2>1, Zenon DEF OnMessage, TypeOK
    <3>1. deliveries' \in Nat /\ acked' \in SUBSET Message
      BY <3>0, <3>a
    <3>2. pending' \in Seq(Message)
      <4>1. pending \in Seq(Message) /\ Append(pending, m) \in Seq(Message)
        BY AppendProperties DEF TypeOK
      <4>2. QED BY <2>1, <4>1 DEF OnMessage, Submitted
    <3>3. UNCHANGED <<stopped, step, memory, output, remembered, dropped, failed, failures,
                      routes>>
      BY <2>1 DEF OnMessage
    <3>4. stopped' \in BOOLEAN
      BY <3>3, Zenon DEF TypeOK
    <3>5. QED BY <3>1, <3>2, <3>3, <3>4 DEF TypeOK
  <2>2. ASSUME Accept PROVE TypeOK'
    <3>1. PICK m \in Message : m = Head(pending) /\ Tail(pending) \in Seq(Message)
      BY <2>2, HeadTailProperties DEF Accept, TypeOK
    <3>2. CASE Reject(m)
      BY <2>2, <3>1, <3>2 DEF Accept, Reject, TypeOK
    <3>3. CASE Drop(m)
      BY <2>2, <3>1, <3>3 DEF Accept, Drop, TypeOK
    <3>4. CASE FailToStore(m)
      BY <2>2, <3>1, <3>4, RememberType, KeyOfType DEF Accept, FailToStore, TypeOK
    <3>5. CASE Store(m)
      <4>1. stored' \in Seq(Message) /\ UNCHANGED <<latest, dropped, failed, failures>>
        BY <3>5, AppendProperties DEF Store, TypeOK
      <4>2. broadcasts' \in Seq(Nat) /\ step' \in {"idle", "list", "trim"}
        <5>1. PICK n \in Nat : n = Len(stored')
          BY <4>1, LenProperties
        <5>2. broadcasts' = Append(broadcasts, n) \/ broadcasts' = broadcasts
          BY <3>5, <5>1 DEF Store, GoesOn, Announced
        <5>3. broadcasts \in Seq(Nat) /\ Append(broadcasts, n) \in Seq(Nat)
          BY AppendProperties DEF TypeOK
        <5>4. step' = "list" \/ step' = "idle"
          BY <3>5 DEF Store, GoesOn
        <5>5. QED BY <5>2, <5>3, <5>4
      <4>3. /\ seen' \in SUBSET Key /\ order' \in Seq(Key) /\ remembered' \in Seq(Key)
        BY <3>5, RememberType, KeyOfType, AppendProperties DEF Store, TypeOK
      <4>4. UNCHANGED <<stopped, deliveries, acked, routes>> /\ pending' = Tail(pending)
        BY <2>2 DEF Accept
      <4>5. QED BY <3>1, <4>1, <4>2, <4>3, <4>4 DEF TypeOK
    <3>6. QED BY <2>2, <3>1, <3>2, <3>3, <3>4, <3>5 DEF Accept
  <2>3. ASSUME ListAlert PROVE TypeOK'
    <3>1. PICK n \in Nat : n = Len(stored)
      BY LenProperties DEF TypeOK
    <3>2. latest' = <<>> \/ latest' = Append(latest, n)
      BY <2>3, <3>1 DEF ListAlert
    <3>3. broadcasts' = broadcasts \/ broadcasts' = Append(broadcasts, n)
      BY <2>3, <3>1 DEF ListAlert, Announced
    <3>a. /\ latest \in Seq(Nat) /\ broadcasts \in Seq(Nat) /\ <<>> \in Seq(Nat)
          /\ Append(latest, n) \in Seq(Nat) /\ Append(broadcasts, n) \in Seq(Nat)
      BY EmptySeq, AppendProperties DEF TypeOK
    <3>4. latest' \in Seq(Nat) /\ broadcasts' \in Seq(Nat)
      BY <3>2, <3>3, <3>a
    <3>5. QED BY <2>3, <3>4 DEF ListAlert, TypeOK
  <2>4. ASSUME Trim PROVE TypeOK'
    <3>0. Len(stored) \in Nat /\ Len(latest) \in Nat
      BY LenProperties DEF TypeOK
    <3>1. step = "trim" /\ latest' \in Seq(Nat) /\ trims' \in Nat
      BY <2>4, TrimmedType DEF Trim
    <3>2. broadcasts' \in Seq(Nat)
      BY <2>4, <3>0, AppendProperties DEF Trim, Announced, TypeOK
    <3>3. QED BY <2>4, <3>1, <3>2 DEF Trim, TypeOK
  <2>5. ASSUME Ask PROVE TypeOK'
    <3>1. ToSet(broadcasts) \subseteq Nat
      BY LenProperties, ElementOfSeq DEF ToSet, TypeOK
    <3>2. expected' \in SUBSET Nat /\ trims' \in Nat /\ answer' \in Seq(Nat)
      BY <2>5, <3>1, EmptySeq DEF Ask, NewestHeard, Heard
    <3>3. QED BY <2>5, <3>2 DEF Ask, TypeOK
  <2>6. ASSUME ReadAlert PROVE TypeOK'
    <3>1. Len(answer) \in Nat /\ Len(latest) \in Nat /\ Len(answer) < Len(latest)
      BY <2>6, LenProperties DEF ReadAlert, TypeOK
    <3>2. latest[Len(answer) + 1] \in Nat
      BY <3>1, LenProperties, ElementOfSeq DEF TypeOK
    <3>3. answer' \in Seq(Nat)
      BY <2>6, <3>2, AppendProperties DEF ReadAlert, TypeOK
    <3>4. QED BY <2>6, <3>3 DEF ReadAlert, TypeOK
  <2>7. CASE Answer \/ Stop \/ EndLoop \/ UNCHANGED vars
    <3>1. pending' = <<>> \/ UNCHANGED pending
      BY <2>7 DEF Answer, Stop, EndLoop, vars
    <3>2. pending' \in Seq(Message)
      BY <3>1, EmptySeq DEF TypeOK
    <3>3. QED BY <2>7, <3>2 DEF Answer, Stop, EndLoop, vars, TypeOK
  <2>8. ASSUME NEW m \in Message, OnUndecodable(m) PROVE TypeOK'
    <3>1. deliveries' = deliveries + 1 /\ deliveries \in Nat
      BY <2>8, Zenon DEF OnUndecodable, Deliver, TypeOK
    <3>2. UNCHANGED <<stopped, pending, step, memory, output, history, failures, routes>>
      BY <2>8 DEF OnUndecodable
    <3>3. stopped' \in BOOLEAN
      BY <3>2, Zenon DEF TypeOK
    <3>4. QED BY <3>1, <3>2, <3>3 DEF TypeOK
  <2>9. QED
    BY <2>1, <2>2, <2>3, <2>4, <2>5, <2>6, <2>7, <2>8 DEF Next, Ingest, Serve
<1>3. TypeOK /\ TrimIsDue /\ [Next]_vars => TrimIsDue'
  <2> SUFFICES ASSUME TypeOK, TrimIsDue, [Next]_vars PROVE TrimIsDue'
    OBVIOUS
  <2> USE DEF output
  <2>1. CASE UNCHANGED <<step, latest>>
    BY <2>1 DEF TrimIsDue
  <2>2. CASE Accept
    <3>1. step' # "trim"
      BY <2>2 DEF Accept, Reject, Drop, FailToStore, Store, GoesOn
    <3>2. QED BY <3>1 DEF TrimIsDue
  <2>3. CASE ListAlert
    BY <2>3 DEF ListAlert, TrimIsDue
  <2>4. CASE Trim
    BY <2>4 DEF Trim, TrimIsDue
  <2>5. CASE Stop \/ EndLoop \/ Serve \/ UNCHANGED vars
    BY <2>1, <2>5 DEF Stop, EndLoop, Serve, Ask, ReadAlert, Answer, vars
  <2>6. ASSUME NEW m \in Message, OnMessage(m) \/ OnUndecodable(m) PROVE TrimIsDue'
    BY <2>1, <2>6 DEF OnMessage, OnUndecodable
  <2>7. QED BY <2>2, <2>3, <2>4, <2>5, <2>6 DEF Next, Ingest
<1>4. QED BY <1>1, <1>2, <1>3, PTL DEF Spec

\* Every variable keeps its type, whatever is delivered, fails or repeats.
THEOREM TypeCorrect == Spec => []TypeOK
BY TypeInductive, PTL


-----------------------------------------------------------------------------
(* The duplicate window *)

\* The window holds the keys remembered last: max_seen_events of them, or all.
WindowIsNewest ==
  /\ Len(order) <= Len(remembered)
  /\ Len(order) < MaxSeen => Len(order) = Len(remembered)
  /\ \A i \in 1..Len(order) :
       order[i] = remembered[Len(remembered) - Len(order) + i]

\* The inductive invariant.  WindowInStep alone says nothing of the keys that
\* have left the window, DuplicatesRecognisedInWindow nothing of those in it.
WindowInv == WindowInStep /\ WindowIsNewest /\ DuplicatesRecognisedInWindow

\* Remembering a key the window does not hold.
Remembering(m) == /\ ~IsDuplicate(m)
                  /\ Remember(m)
                  /\ remembered' = Append(remembered, KeyOf(m))

LEMMA RememberingWindow ==
  ASSUME TypeOK, WindowInv, NEW m \in Message, Remembering(m)
  PROVE  WindowInv'
<1> DEFINE key == KeyOf(m)
<1> key \in Key
  BY KeyOfType
<1> HIDE DEF key
<1>1. PICK longer \in Seq(Key) :
        /\ longer = Append(order, key) /\ longer # <<>>
        /\ Len(longer) = Len(order) + 1
        /\ \A i \in 1..Len(order) : longer[i] = order[i]
        /\ longer[Len(order) + 1] = key
  <2>1. order \in Seq(Key)
    BY DEF TypeOK
  <2>2. /\ Append(order, key) \in Seq(Key)
        /\ Append(order, key) # <<>>
        /\ Len(Append(order, key)) = Len(order) + 1
        /\ \A i \in 1..Len(order) : Append(order, key)[i] = order[i]
        /\ Append(order, key)[Len(order) + 1] = key
    BY <2>1, AppendProperties
  <2>3. QED BY <2>2, Zenon
<1>2. /\ remembered' \in Seq(Key)
      /\ Len(remembered') = Len(remembered) + 1
      /\ \A i \in 1..Len(remembered) : remembered'[i] = remembered[i]
      /\ remembered'[Len(remembered) + 1] = key
  BY AppendProperties DEF TypeOK, Remembering, key
<1>3. /\ Len(order) \in Nat /\ Len(remembered) \in Nat
      /\ DOMAIN order = 1..Len(order) /\ DOMAIN remembered = 1..Len(remembered)
      /\ DOMAIN remembered' = 1..Len(remembered')
      /\ DOMAIN longer = 1..Len(longer)
  BY <1>2, LenProperties DEF TypeOK
<1> PICK held \in Nat, all \in Nat : held = Len(order) /\ all = Len(remembered)
  BY <1>3
<1>0. held <= all /\ held <= MaxSeen /\ (held < MaxSeen => held = all)
  BY DEF WindowInv, WindowIsNewest, WindowInStep
<1>4. \A i \in 1..Len(order) : order[i] # key
  BY <1>3 DEF Remembering, IsDuplicate, WindowInv, WindowInStep, ToSet, key
<1>5. \A i, j \in 1..Len(longer) : longer[i] = longer[j] => i = j
  BY <1>1, <1>3, <1>4 DEF WindowInv, WindowInStep, IsInjective
<1>6. {longer[i] : i \in 1..Len(longer)} = seen \cup {key}
  BY <1>1, <1>3 DEF WindowInv, WindowInStep, ToSet
<1>7. DuplicatesRecognisedInWindow'
  <2> SUFFICES ASSUME NEW i \in 1..Len(remembered) + 1,
                      NEW j \in 1..Len(remembered) + 1,
                      i < j, remembered'[i] = remembered'[j]
               PROVE  j - i > MaxSeen
    BY <1>2, <1>3 DEF DuplicatesRecognisedInWindow
  <2>1. CASE j <= Len(remembered)
    BY <2>1, <1>2, <1>3 DEF WindowInv, DuplicatesRecognisedInWindow
  <2>2. CASE j = Len(remembered) + 1
    <3>1. remembered[i] = key /\ i \in 1..Len(remembered)
      BY <2>2, <1>2, <1>3
    <3>2. i <= Len(remembered) - Len(order)
      <4> SUFFICES ASSUME i > Len(remembered) - Len(order) PROVE FALSE
        BY <1>3
      <4> DEFINE n == i - (Len(remembered) - Len(order))
      <4>1. n \in 1..Len(order) /\ i = Len(remembered) - Len(order) + n
        BY <3>1, <1>3 DEF WindowInv, WindowIsNewest
      <4> HIDE DEF n
      <4>2. order[n] = key
        BY <4>1, <3>1 DEF WindowInv, WindowIsNewest
      <4>3. QED BY <4>1, <4>2, <1>4
    <3>3. Len(order) = MaxSeen
      BY <3>1, <3>2, <1>3 DEF WindowInv, WindowIsNewest, WindowInStep
    <3>4. QED BY <3>2, <3>3, <2>2, <1>3
  <2>3. QED BY <2>1, <2>2, <1>3
<1>8. CASE Len(longer) > MaxSeen
  <2>1. order' = Tail(longer) /\ seen' = (seen \cup {key}) \ {Head(longer)}
    BY <1>8, <1>1 DEF Remembering, Remember, key
  <2>2. /\ order' \in Seq(Key) /\ Len(order') = Len(order)
        /\ \A i \in 1..Len(order') : order'[i] = longer[i + 1]
    <3>1. /\ Tail(longer) \in Seq(Key) /\ Len(Tail(longer)) = Len(longer) - 1
          /\ \A i \in 1..Len(Tail(longer)) : Tail(longer)[i] = longer[i + 1]
      BY <1>1, HeadTailProperties
    <3>2. Len(longer) - 1 = Len(order)
      BY <1>1, <1>3
    <3>3. QED BY <2>1, <3>1, <3>2
  <2>3. Head(longer) = longer[1] /\ DOMAIN order' = 1..Len(order')
    BY <1>1, <2>2, LenProperties
  <2>4. WindowInStep'
    <3>1. seen' = ToSet(order')
      <4>1. \A k \in seen' : k \in ToSet(order')
        <5> SUFFICES ASSUME NEW k \in seen' PROVE k \in ToSet(order')
          OBVIOUS
        <5>1. PICK i \in 1..Len(longer) : longer[i] = k
          BY <2>1, <1>6
        <5>2. i # 1
          BY <5>1, <2>1, <2>3
        <5>3. i - 1 \in 1..Len(order') /\ (i - 1) + 1 = i
          BY <5>2, <2>2, <1>1, <1>3
        <5>4. order'[i - 1] = k
          BY <5>1, <5>3, <2>2
        <5>5. QED BY <5>3, <5>4, <2>3 DEF ToSet
      <4>2. \A i \in 1..Len(order') : order'[i] \in seen'
        <5> SUFFICES ASSUME NEW i \in 1..Len(order') PROVE order'[i] \in seen'
          OBVIOUS
        <5>1. i + 1 \in 1..Len(longer) /\ 1 \in 1..Len(longer) /\ i + 1 # 1
          BY <2>2, <1>1, <1>3
        <5>2. order'[i] \in seen \cup {key} /\ order'[i] # longer[1]
          BY <5>1, <2>2, <1>5, <1>6
        <5>3. QED BY <5>2, <2>1, <2>3
      <4>3. QED BY <4>1, <4>2, <2>3 DEF ToSet
    <3>2. IsInjective(order')
      <4>1. \A i, j \in 1..Len(order') : order'[i] = order'[j] => i = j
        <5> SUFFICES ASSUME NEW i \in 1..Len(order'), NEW j \in 1..Len(order'),
                            order'[i] = order'[j]
                     PROVE  i = j
          OBVIOUS
        <5>1. /\ i + 1 \in 1..Len(longer) /\ j + 1 \in 1..Len(longer)
              /\ longer[i + 1] = longer[j + 1]
          BY <2>2, <1>1, <1>3
        <5>2. i + 1 = j + 1
          BY <5>1, <1>5
        <5>3. QED BY <5>2, <2>2, <1>3
      <4>2. QED BY <4>1, <2>3 DEF IsInjective
    <3>3. QED BY <3>1, <3>2, <2>2 DEF WindowInStep, WindowInv
  <2>5. WindowIsNewest'
    <3>1. Len(order) = MaxSeen /\ MaxSeen <= Len(remembered)
      BY <1>8, <1>1, <1>3 DEF WindowInv, WindowIsNewest, WindowInStep
    <3>2. ASSUME NEW i \in 1..Len(order)
          PROVE  order'[i] = remembered'[Len(remembered) + 1 - Len(order) + i]
      <4>1. CASE i = Len(order)
        BY <4>1, <2>2, <1>1, <1>2, <1>3
      <4>2. CASE i < Len(order)
        <5>1. i + 1 \in 1..Len(order) /\ order'[i] = order[i + 1]
          BY <4>2, <2>2, <1>1, <1>3
        <5>2. order[i + 1] = remembered[Len(remembered) - Len(order) + (i + 1)]
          BY <5>1 DEF WindowInv, WindowIsNewest
        <5>3. QED BY <5>1, <5>2, <3>1, <1>2, <1>3
      <4>3. QED BY <4>1, <4>2, <1>3
    <3>3. QED BY <3>1, <3>2, <2>2, <1>2, <1>3 DEF WindowIsNewest
  <2>6. QED BY <2>4, <2>5, <1>7 DEF WindowInv
<1>9. CASE ~(Len(longer) > MaxSeen)
  <2>1. order' = longer /\ seen' = seen \cup {key}
    BY <1>9, <1>1 DEF Remembering, Remember, key
  <2>2. WindowInStep'
    <3>1. seen' = ToSet(order')
      BY <2>1, <1>3, <1>6 DEF ToSet
    <3>2. IsInjective(order')
      BY <2>1, <1>3, <1>5 DEF IsInjective
    <3>3. Len(order') <= MaxSeen
      BY <2>1, <1>1, <1>3, <1>9
    <3>4. QED BY <3>1, <3>2, <3>3 DEF WindowInStep
  <2>3. WindowIsNewest'
    <3>1. Len(order) = Len(remembered) /\ Len(order) < MaxSeen
      BY <1>9, <1>1, <1>3 DEF WindowInv, WindowIsNewest, WindowInStep
    <3>2. \A i \in 1..Len(order) : order[i] = remembered[i]
      BY <3>1, <1>3 DEF WindowInv, WindowIsNewest
    <3>3. \A i \in 1..Len(order') : order'[i] = remembered'[i]
      BY <3>1, <3>2, <2>1, <1>1, <1>2, <1>3
    <3>4. QED BY <3>1, <3>3, <2>1, <1>1, <1>2, <1>3 DEF WindowIsNewest
  <2>4. QED BY <2>2, <2>3, <1>7 DEF WindowInv
<1>10. QED BY <1>8, <1>9, <1>1, <1>3

LEMMA WindowStep ==
  ASSUME TypeOK, WindowInv, [Next]_vars PROVE WindowInv'
<1> USE DEF memory, output, history, routes
<1>1. CASE UNCHANGED <<seen, order, remembered>>
  BY <1>1 DEF WindowInv, WindowInStep, WindowIsNewest,
              DuplicatesRecognisedInWindow
<1>2. ASSUME NEW m \in Message, OnMessage(m) \/ OnUndecodable(m) PROVE WindowInv'
  BY <1>1, <1>2 DEF OnMessage, OnUndecodable
<1>3. CASE Accept
  <2>1. PICK m \in Message : Reject(m) \/ Drop(m) \/ FailToStore(m) \/ Store(m)
    BY <1>3, HeadTailProperties DEF Accept, TypeOK
  <2>2. CASE Reject(m) \/ Drop(m)
    BY <1>1, <2>2 DEF Reject, Drop
  <2>3. CASE FailToStore(m) \/ Store(m)
    BY <2>3, RememberingWindow DEF FailToStore, Store, Remembering
  <2>4. QED BY <2>1, <2>2, <2>3
<1>4. CASE ListAlert \/ Trim \/ Stop \/ EndLoop
  BY <1>1, <1>4 DEF ListAlert, Trim, Stop, EndLoop
<1>5. CASE Serve \/ UNCHANGED vars
  BY <1>1, <1>5 DEF Serve, Ask, ReadAlert, Answer, vars
<1>6. QED BY <1>2, <1>3, <1>4, <1>5 DEF Next, Ingest

\* The set the duplicate check reads and the deque that says what to forget
\* hold the same keys, each once, and no more than max_seen_events.
THEOREM WindowStaysInStep == Spec => []WindowInStep
<1>1. Init => WindowInv
  BY EmptySeq DEF Init, WindowInv, WindowInStep, WindowIsNewest,
                  DuplicatesRecognisedInWindow, ToSet, IsInjective
<1>2. WindowInv => WindowInStep
  BY DEF WindowInv
<1>3. QED BY <1>1, <1>2, WindowStep, TypeCorrect, PTL DEF Spec

\* A key is remembered again only after max_seen_events others: a message
\* delivered again within the window is never stored a second time.
THEOREM DuplicatesAreRecognised == Spec => []DuplicatesRecognisedInWindow
<1>1. Init => WindowInv
  BY EmptySeq DEF Init, WindowInv, WindowInStep, WindowIsNewest,
                  DuplicatesRecognisedInWindow, ToSet, IsInjective
<1>2. WindowInv => DuplicatesRecognisedInWindow
  BY DEF WindowInv
<1>3. QED BY <1>1, <1>2, WindowStep, TypeCorrect, PTL DEF Spec

-----------------------------------------------------------------------------
(* What becomes of a message *)

\* Every key in the window was stored or failed to be.
SeenWasHandled == seen \subseteq KeysOf(ToSet(stored)) \cup KeysOf(failed)

\* While the cloud runs, an acknowledged message waits or has been dealt with.
AckedIsKnown ==
  stopped \/ \A m \in acked : \/ m \in ToSet(pending) \cup ToSet(stored)
                              \/ m \in dropped \cup failed
                              \/ m.valid = "no"

FateInv == DroppedWasHandled /\ SeenWasHandled /\ AckedIsKnown

LEMMA AppendedSet ==
  ASSUME NEW S, NEW s \in Seq(S), NEW e \in S
  PROVE  ToSet(Append(s, e)) = ToSet(s) \cup {e}
<1>1. PICK t \in Seq(S) : t = Append(s, e)
  BY AppendProperties
<1>2. /\ Len(t) = Len(s) + 1 /\ Len(s) \in Nat
      /\ \A i \in 1..Len(s) : t[i] = s[i]
      /\ t[Len(s) + 1] = e
      /\ DOMAIN t = 1..Len(t) /\ DOMAIN s = 1..Len(s)
  BY <1>1, AppendProperties, LenProperties
<1>3. QED BY <1>1, <1>2 DEF ToSet

\* What Head and Tail leave of a sequence's elements.
LEMMA TailedSet ==
  ASSUME NEW S, NEW s \in Seq(S), s # <<>>
  PROVE  ToSet(s) \subseteq ToSet(Tail(s)) \cup {Head(s)}
<1>1. PICK t \in Seq(S) : t = Tail(s)
  BY HeadTailProperties
<1>2. /\ Len(t) = Len(s) - 1 /\ Len(s) \in Nat
      /\ \A i \in 1..Len(t) : t[i] = s[i + 1]
      /\ DOMAIN t = 1..Len(t) /\ DOMAIN s = 1..Len(s)
      /\ Head(s) = s[1]
  BY <1>1, HeadTailProperties, LenProperties
<1>3. ASSUME NEW i \in 1..Len(s) PROVE s[i] \in ToSet(t) \cup {s[1]}
  <2>1. CASE i = 1
    BY <2>1
  <2>2. CASE i # 1
    <3>1. i - 1 \in 1..Len(t) /\ (i - 1) + 1 = i
      BY <2>2, <1>2
    <3>2. t[i - 1] = s[i]
      BY <3>1, <1>2
    <3>3. QED BY <3>1, <3>2, <1>2 DEF ToSet
  <2>3. QED BY <2>1, <2>2
<1>4. QED BY <1>1, <1>2, <1>3 DEF ToSet

\* The keys the cloud answers for after storing m, or failing to.
LEMMA RememberSeen ==
  ASSUME TypeOK, NEW m \in Message, Remember(m)
  PROVE  seen' \subseteq seen \cup {KeyOf(m)}
BY DEF Remember

LEMMA FateStep ==
  ASSUME TypeOK, FateInv, [Next]_vars PROVE FateInv'
<1> USE DEF memory, output, history, routes
<1>1. CASE UNCHANGED <<seen, stored, dropped, failed, acked, stopped, pending>>
  BY <1>1 DEF FateInv, DroppedWasHandled, SeenWasHandled, AckedIsKnown
<1>2. ASSUME NEW m \in Message, OnMessage(m) PROVE FateInv'
  <2>1. DroppedWasHandled' /\ SeenWasHandled'
    BY <1>2 DEF OnMessage, FateInv, DroppedWasHandled, SeenWasHandled
  <2>2. AckedIsKnown'
    <3>1. CASE stopped
      BY <1>2, <3>1 DEF OnMessage, AckedIsKnown
    <3>2. CASE ~stopped
      <4>0. pending' = Append(pending, m) /\ pending \in Seq(Message)
        BY <1>2, <3>2 DEF OnMessage, Submitted, TypeOK
      <4>1. ToSet(pending') = ToSet(pending) \cup {m}
        BY <4>0, AppendedSet
      <4>2. UNCHANGED <<stored, dropped, failed>> /\ acked' = acked \cup {m}
        BY <1>2 DEF OnMessage
      <4>3. QED BY <4>1, <4>2, <3>2 DEF FateInv, AckedIsKnown
    <3>3. QED BY <3>1, <3>2
  <2>3. QED BY <2>1, <2>2 DEF FateInv
<1>3. CASE Accept
  <2>1. PICK m \in Message : /\ m = Head(pending) /\ pending' = Tail(pending)
                             /\ Reject(m) \/ Drop(m) \/ FailToStore(m) \/ Store(m)
                             /\ UNCHANGED <<stopped, acked>>
    BY <1>3, HeadTailProperties DEF Accept, TypeOK
  <2>2. ToSet(pending) \subseteq ToSet(pending') \cup {m}
    BY <1>3, <2>1, TailedSet DEF Accept, TypeOK
  <2>3. CASE Reject(m)
    BY <2>1, <2>2, <2>3 DEF Reject, FateInv, DroppedWasHandled, SeenWasHandled,
                            AckedIsKnown
  <2>4. CASE Drop(m)
    <3>1. KeysOf(dropped') = KeysOf(dropped) \cup {KeyOf(m)}
      BY <2>4 DEF Drop, KeysOf
    <3>2. QED
      BY <2>1, <2>2, <2>4, <3>1 DEF Drop, IsDuplicate, FateInv,
         DroppedWasHandled, SeenWasHandled, AckedIsKnown
  <2>5. CASE FailToStore(m)
    <3>1. KeysOf(failed') = KeysOf(failed) \cup {KeyOf(m)}
      BY <2>5 DEF FailToStore, KeysOf
    <3>2. seen' \subseteq seen \cup {KeyOf(m)}
      BY <2>5, RememberSeen DEF FailToStore
    <3>3. UNCHANGED <<stored, dropped>> /\ failed' = failed \cup {m}
      BY <2>5 DEF FailToStore
    <3>4. QED
      BY <2>1, <2>2, <3>1, <3>2, <3>3
         DEF FateInv, DroppedWasHandled, SeenWasHandled, AckedIsKnown
  <2>6. CASE Store(m)
    <3>1. ToSet(stored') = ToSet(stored) \cup {m}
      BY <2>6, AppendedSet DEF Store, TypeOK
    <3>2. KeysOf(ToSet(stored')) = KeysOf(ToSet(stored)) \cup {KeyOf(m)}
      BY <3>1 DEF KeysOf
    <3>3. seen' \subseteq seen \cup {KeyOf(m)}
      BY <2>6, RememberSeen DEF Store
    <3>4. UNCHANGED <<dropped, failed>>
      BY <2>6 DEF Store
    <3>5. QED
      BY <2>1, <2>2, <3>1, <3>2, <3>3, <3>4
         DEF FateInv, DroppedWasHandled, SeenWasHandled, AckedIsKnown
  <2>7. QED BY <2>1, <2>3, <2>4, <2>5, <2>6
<1>4. CASE Stop \/ EndLoop
  BY <1>4 DEF Stop, EndLoop, FateInv, DroppedWasHandled, SeenWasHandled,
              AckedIsKnown
<1>5. CASE ListAlert \/ Trim
  BY <1>1, <1>5 DEF ListAlert, Trim
<1>6. CASE Serve \/ UNCHANGED vars
  BY <1>1, <1>6 DEF Serve, Ask, ReadAlert, Answer, vars
<1>7. ASSUME NEW m \in Message, OnUndecodable(m) PROVE FateInv'
  BY <1>1, <1>7 DEF OnUndecodable
<1>8. QED BY <1>2, <1>3, <1>4, <1>5, <1>6, <1>7 DEF Next, Ingest

LEMMA FateInit == Init => FateInv
BY DEF Init, FateInv, DroppedWasHandled, SeenWasHandled, AckedIsKnown, KeysOf,
       ToSet

\* Nothing is dropped as a duplicate unless its key was stored, or failed to be
\* stored, before.
THEOREM DropsAreAccountedFor == Spec => []DroppedWasHandled
<1>1. FateInv => DroppedWasHandled
  BY DEF FateInv
<1>2. QED BY <1>1, FateInit, FateStep, TypeCorrect, PTL DEF Spec

\* No acknowledged message goes astray while the cloud runs: once the loop has
\* caught up it is stored, dropped as a duplicate, refused, or its write failed.
THEOREM AcknowledgedIsHandled == Spec => []AckedIsHandled
<1>1. FateInv => AckedIsHandled
  BY DEF FateInv, AckedIsKnown, AckedIsHandled, ToSet
<1>2. QED BY <1>1, FateInit, FateStep, TypeCorrect, PTL DEF Spec

-----------------------------------------------------------------------------
(* The latest alerts *)

\* The end of a list: its length, and what is in it.
IsEnd(end, list, n) ==
  /\ Len(end) = (IF n <= Len(list) THEN n ELSE Len(list))
  /\ DOMAIN end = 1 .. Len(end)
  /\ \A k \in 1 .. Len(end) : end[k] = list[Len(list) - Len(end) + k]

LEMMA AppendedEnd ==
  ASSUME NEW S, NEW list \in Seq(S), NEW end \in Seq(S), NEW x \in S, NEW n \in Nat,
         IsEnd(end, list, n)
  PROVE  /\ Append(end, x) \in Seq(S) /\ Len(Append(end, x)) = Len(end) + 1
         /\ IsEnd(Append(end, x), Append(list, x), n + 1)
<1> DEFINE long == Append(list, x)
           longer == Append(end, x)
<1>1. /\ long \in Seq(S) /\ Len(long) = Len(list) + 1
      /\ long[Len(list) + 1] = x /\ \A k \in 1 .. Len(list) : long[k] = list[k]
  BY AppendProperties
<1>2. /\ longer \in Seq(S) /\ Len(longer) = Len(end) + 1
      /\ longer[Len(end) + 1] = x /\ \A k \in 1 .. Len(end) : longer[k] = end[k]
  BY AppendProperties
<1> HIDE DEF long, longer
<1>3. PICK L \in Nat : L = Len(list)
  BY LenProperties
<1>4. PICK E \in Nat : E = Len(end) /\ E = (IF n <= L THEN n ELSE L)
  BY <1>3, LenProperties DEF IsEnd
<1>5. ASSUME NEW k \in 1 .. E + 1 PROVE longer[k] = long[L + 1 - (E + 1) + k]
  <2>1. CASE k = E + 1
    <3>1. L + 1 - (E + 1) + k = L + 1
      BY <2>1
    <3>2. QED BY <1>1, <1>2, <1>3, <1>4, <2>1, <3>1
  <2>2. CASE k # E + 1
    <3>1. k \in 1 .. E /\ L + 1 - (E + 1) + k = L - E + k /\ L - E + k \in 1 .. L
      BY <1>4, <2>2
    <3>2. longer[k] = list[L - E + k]
      BY <1>2, <1>3, <1>4, <3>1 DEF IsEnd
    <3>3. QED BY <1>1, <1>3, <3>1, <3>2
  <2>3. QED BY <2>1, <2>2
<1>6. Len(longer) = E + 1 /\ Len(long) = L + 1 /\ DOMAIN longer = 1 .. E + 1
  BY <1>1, <1>2, <1>3, <1>4, LenProperties
<1>7. E + 1 = IF n + 1 <= L + 1 THEN n + 1 ELSE L + 1
  BY <1>4
<1>8. IsEnd(longer, long, n + 1)
  BY <1>5, <1>6, <1>7 DEF IsEnd
<1>9. QED BY <1>1, <1>2, <1>8 DEF long, longer

\* The places of the alarms that are stored, and of those that have been listed.
AlarmsAt == {k \in DOMAIN stored : IsAlarm(stored[k])}
ListedAt == {k \in AlarmsAt : step = "list" => k # Len(stored)}

\* The list has the newest of these, one too many while it is being trimmed.  The
\* alarm that the loop deals with is the event stored last.
LatestInv ==
  /\ IsEnd(latest, Upwards(ListedAt), IF step = "trim" THEN MaxAlerts + 1 ELSE MaxAlerts)
  /\ step # "idle" => Len(stored) \in AlarmsAt
  /\ step = "trim" => Cardinality(ListedAt) > MaxAlerts

\* What Upwards makes of the places.
Ordered(list, P) ==
  /\ list \in Seq(Nat) /\ Len(list) = Cardinality(P) /\ Len(list) \in Nat
  /\ \A i \in 1 .. Len(list) : list[i] \in P
  /\ \A p \in P : \E i \in 1 .. Len(list) : list[i] = p
  /\ \A i, j \in 1 .. Len(list) : i < j <=> list[i] < list[j]

LEMMA UpwardsIsOrdered ==
  ASSUME NEW n \in Nat, NEW P, P \subseteq 1 .. n
  PROVE  Ordered(Upwards(P), P) /\ IsFiniteSet(P)
<1>1. P \subseteq Int /\ P \subseteq Nat
  OBVIOUS
<1>2. IsFiniteSet(P)
  BY FirstNumbers, FS_Subset
<1>3. /\ InOrder(Upwards(P), P, Ascending(P))
      /\ \A i, j \in 1 .. Cardinality(P) : i < j <=> Upwards(P)[i] < Upwards(P)[j]
  BY <1>1, <1>2, UpwardsInOrder
<1>4. PICK all : all = Upwards(P)
  OBVIOUS
<1>5. /\ all \in [1 .. Cardinality(P) -> P] /\ Cardinality(P) \in Nat
      /\ Len(all) = Cardinality(P)
      /\ \A x \in P : \E k \in 1 .. Cardinality(P) : all[k] = x
  BY <1>3, <1>4 DEF InOrder
<1>6. all \in [1 .. Cardinality(P) -> Nat]
  BY <1>1, <1>5
<1>7. all \in Seq(Nat)
  BY <1>5, <1>6, ListedIsSame
<1>8. QED BY <1>2, <1>3, <1>4, <1>5, <1>7 DEF Ordered

LEMMA ListedAre ==
  ASSUME TypeOK
  PROVE  /\ Len(stored) \in Nat /\ AlarmsAt \subseteq 1 .. Len(stored)
         /\ ListedAt \subseteq AlarmsAt /\ IsFiniteSet(ListedAt)
         /\ Ordered(Upwards(ListedAt), ListedAt)
<1>1. Len(stored) \in Nat /\ DOMAIN stored = 1 .. Len(stored)
  BY LenProperties DEF TypeOK
<1>2. AlarmsAt \subseteq 1 .. Len(stored) /\ ListedAt \subseteq AlarmsAt
  BY <1>1 DEF AlarmsAt, ListedAt
<1>3. QED BY <1>1, <1>2, UpwardsIsOrdered

\* What the routes read goes up, and has been listed; of more alarms than it holds,
\* it holds max_alerts.
LEMMA LatestIs ==
  ASSUME TypeOK, LatestInv
  PROVE  \E L \in Nat :
            /\ L = Len(latest) /\ DOMAIN latest = 1 .. L
            /\ \A i \in 1 .. L : latest[i] \in ListedAt
            /\ \A i, j \in 1 .. L : i < j => latest[i] < latest[j]
            /\ \A p \in ListedAt :
                  \/ \E i \in 1 .. L : latest[i] = p
                  \/ /\ L = (IF step = "trim" THEN MaxAlerts + 1 ELSE MaxAlerts)
                     /\ \A i \in 1 .. L : p < latest[i]
            /\ step = "trim" => L = MaxAlerts + 1
<1>1. Ordered(Upwards(ListedAt), ListedAt)
  BY ListedAre
<1>2. PICK all : all = Upwards(ListedAt)
  OBVIOUS
<1>3. PICK C \in Nat : C = Len(all) /\ C = Cardinality(ListedAt)
  BY <1>1, <1>2 DEF Ordered
<1>4. PICK n \in Nat : n = IF step = "trim" THEN MaxAlerts + 1 ELSE MaxAlerts
  OBVIOUS
<1>5. PICK L \in Nat : /\ L = Len(latest) /\ L = (IF n <= C THEN n ELSE C)
                       /\ DOMAIN latest = 1 .. L
                       /\ \A k \in 1 .. L : latest[k] = all[C - L + k]
  BY <1>2, <1>3, <1>4 DEF LatestInv, IsEnd
<1>6. /\ \A i \in 1 .. C : all[i] \in ListedAt
      /\ \A p \in ListedAt : \E i \in 1 .. C : all[i] = p
      /\ \A i, j \in 1 .. C : i < j <=> all[i] < all[j]
  BY <1>1, <1>2, <1>3 DEF Ordered
<1>7. \A k \in 1 .. L : C - L + k \in 1 .. C
  BY <1>5
<1>8. \A i, j \in 1 .. L : i < j => C - L + i < C - L + j
  BY <1>5
<1>9. ASSUME NEW p \in ListedAt
      PROVE  \/ \E i \in 1 .. L : latest[i] = p
             \/ L = n /\ \A i \in 1 .. L : p < latest[i]
  <2>1. PICK i \in 1 .. C : all[i] = p
    BY <1>6
  <2>2. CASE i > C - L
    <3>1. i - (C - L) \in 1 .. L /\ C - L + (i - (C - L)) = i
      BY <1>5, <2>2
    <3>2. latest[i - (C - L)] = p
      BY <1>5, <2>1, <3>1
    <3>3. QED BY <3>1, <3>2
  <2>3. CASE ~(i > C - L)
    <3>1. L = n
      BY <1>5, <2>3
    <3>2. ASSUME NEW k \in 1 .. L PROVE p < latest[k]
      <4>1. C - L + k \in 1 .. C /\ i < C - L + k
        BY <1>5, <2>3
      <4>2. QED BY <1>5, <1>6, <2>1, <4>1
    <3>3. QED BY <3>1, <3>2
  <2>4. QED BY <2>2, <2>3
<1>10. step = "trim" => L = MaxAlerts + 1
  BY <1>3, <1>4, <1>5 DEF LatestInv
<1>11. \A i \in 1 .. L : latest[i] \in ListedAt
  BY <1>5, <1>6, <1>7
<1>12. \A i, j \in 1 .. L : i < j => latest[i] < latest[j]
  BY <1>5, <1>6, <1>7, <1>8
<1>13. QED BY <1>4, <1>5, <1>9, <1>10, <1>11, <1>12

\* What is stored, listed and announced stays, or the loop goes a step on.
Stores(m) == /\ step = "idle" /\ stored' = Append(stored, m) /\ GoesOn(m)
             /\ UNCHANGED <<latest, routes>>

LEMMA OutputSteps ==
  ASSUME TypeOK, [Next]_vars
  PROVE  \/ UNCHANGED <<step, output, routes>>
         \/ UNCHANGED <<step, output>> /\ Serve
         \/ \E m \in Message : Stores(m)
         \/ ListAlert \/ Trim
<1> USE DEF output
<1>1. CASE Accept
  <2>1. PICK m \in Message : m = Head(pending)
    BY <1>1, HeadTailProperties DEF Accept, TypeOK
  <2>2. Reject(m) \/ Drop(m) \/ FailToStore(m) \/ Store(m)
    BY <1>1, <2>1 DEF Accept
  <2>3. step = "idle" /\ UNCHANGED routes
    BY <1>1 DEF Accept
  <2>4. CASE Reject(m) \/ Drop(m) \/ FailToStore(m)
    BY <2>3, <2>4 DEF Reject, Drop, FailToStore
  <2>5. CASE Store(m)
    BY <2>3, <2>5 DEF Store, Stores
  <2>6. QED BY <2>2, <2>4, <2>5
<1>2. CASE UNCHANGED vars
  BY <1>2 DEF vars
<1>3. CASE Stop \/ EndLoop
  BY <1>3 DEF Stop, EndLoop
<1>4. CASE \E m \in Message : OnMessage(m) \/ OnUndecodable(m)
  BY <1>4 DEF OnMessage, OnUndecodable
<1>5. CASE Serve
  BY <1>5 DEF Serve, Ask, ReadAlert, Answer
<1>6. QED BY <1>1, <1>2, <1>3, <1>4, <1>5 DEF Next, Ingest

\* Storing lists nothing yet.
LEMMA StoringKeepsLatest ==
  ASSUME TypeOK, LatestInv, NEW m \in Message, Stores(m)
  PROVE  /\ Len(stored') = Len(stored) + 1
         /\ \A k \in 1 .. Len(stored) : stored'[k] = stored[k]
         /\ ListedAt' = ListedAt /\ AlarmsAt \subseteq AlarmsAt'
         /\ step' \in {"idle", "list"}
         /\ LatestInv'
<1>1. PICK n \in Nat : n = Len(stored) /\ DOMAIN stored = 1 .. n
  BY LenProperties DEF TypeOK
<1> DEFINE longer == Append(stored, m)
<1>2. /\ longer \in Seq(Message) /\ Len(longer) = n + 1 /\ longer[n + 1] = m
      /\ \A k \in 1 .. n : longer[k] = stored[k]
  BY <1>1, AppendProperties DEF TypeOK
<1>3. DOMAIN longer = 1 .. n + 1
  BY <1>2, LenProperties
<1>4. stored' = longer /\ latest' = latest /\ step = "idle"
  BY DEF Stores
<1>5. step' = IF IsAlarm(m) THEN "list" ELSE "idle"
  BY DEF Stores, GoesOn
<1> HIDE DEF longer
<1>6. AlarmsAt' = AlarmsAt \cup (IF IsAlarm(m) THEN {n + 1} ELSE {})
  <2>1. \A k \in 1 .. n + 1 : k \in 1 .. n \/ k = n + 1
    OBVIOUS
  <2>2. AlarmsAt' = {k \in 1 .. n + 1 : IsAlarm(longer[k])}
    BY <1>3, <1>4 DEF AlarmsAt
  <2>3. AlarmsAt = {k \in 1 .. n : IsAlarm(stored[k])}
    BY <1>1 DEF AlarmsAt
  <2>4. \A k \in 1 .. n : IsAlarm(longer[k]) <=> IsAlarm(stored[k])
    BY <1>2
  <2>5. IsAlarm(longer[n + 1]) <=> IsAlarm(m)
    BY <1>2
  <2>6. n + 1 \in 1 .. n + 1 /\ \A k \in 1 .. n : k \in 1 .. n + 1
    OBVIOUS
  <2>7. QED BY <2>1, <2>2, <2>3, <2>4, <2>5, <2>6
<1>7. ListedAt = AlarmsAt
  BY <1>4 DEF ListedAt
<1>8. ListedAt' = AlarmsAt
  <2>1. ListedAt' = {k \in AlarmsAt' : step' = "list" => k # n + 1}
    BY <1>2, <1>4 DEF ListedAt
  <2>2. n + 1 \notin AlarmsAt
    BY <1>1 DEF AlarmsAt
  <2>3. CASE IsAlarm(m)
    BY <1>5, <1>6, <2>1, <2>2, <2>3
  <2>4. CASE ~IsAlarm(m)
    BY <1>5, <1>6, <2>1, <2>4
  <2>5. QED BY <2>3, <2>4
<1>9. LatestInv'
  <2>1. IsEnd(latest, Upwards(ListedAt), MaxAlerts)
    BY <1>4 DEF LatestInv
  <2>2. step' # "trim"
    BY <1>5
  <2>3. step' # "idle" => Len(stored') \in AlarmsAt'
    BY <1>2, <1>4, <1>5, <1>6
  <2>4. Upwards(ListedAt)' = Upwards(ListedAt)
    BY <1>7, <1>8
  <2>5. (IsEnd(latest, Upwards(ListedAt), IF step = "trim" THEN MaxAlerts + 1 ELSE MaxAlerts))'
    BY <1>4, <2>1, <2>2, <2>4
  <2>6. QED BY <2>2, <2>3, <2>5 DEF LatestInv
<1>10. QED BY <1>1, <1>2, <1>4, <1>5, <1>6, <1>7, <1>8, <1>9

\* Listing an alarm adds it to the end of both lists.
LEMMA ListingKeepsLatest ==
  ASSUME TypeOK, LatestInv, ListAlert
  PROVE  /\ ListedAt' = ListedAt \cup {Len(stored)} /\ AlarmsAt' = AlarmsAt
         /\ MaxAlerts = 0 => latest = <<>> /\ latest' = <<>>
         /\ MaxAlerts # 0 => latest' = Append(latest, Len(stored))
         /\ LatestInv'
<1>1. step = "list" /\ UNCHANGED stored
  BY DEF ListAlert
<1>2. PICK n \in Nat : n + 1 = Len(stored) /\ n + 1 \in AlarmsAt
  <2>1. Len(stored) \in AlarmsAt /\ Len(stored) \in Nat /\ AlarmsAt \subseteq 1 .. Len(stored)
    BY <1>1, ListedAre DEF LatestInv
  <2>2. Len(stored) - 1 \in Nat /\ (Len(stored) - 1) + 1 = Len(stored)
    BY <2>1
  <2>3. QED BY <2>1, <2>2
<1>3. /\ ListedAt \subseteq 1 .. n /\ AlarmsAt = ListedAt \cup {n + 1}
      /\ Ordered(Upwards(ListedAt), ListedAt)
  <2>1. AlarmsAt \subseteq 1 .. n + 1 /\ Ordered(Upwards(ListedAt), ListedAt)
    BY <1>2, ListedAre
  <2>2. ListedAt = {k \in AlarmsAt : k # n + 1}
    BY <1>1, <1>2 DEF ListedAt
  <2>3. ListedAt \subseteq 1 .. n
    <3>1. \A k \in 1 .. n + 1 : k # n + 1 => k \in 1 .. n
      OBVIOUS
    <3>2. QED BY <2>1, <2>2, <3>1
  <2>4. AlarmsAt = ListedAt \cup {n + 1}
    BY <1>2, <2>2
  <2>5. QED BY <2>1, <2>3, <2>4
<1>4. PICK all \in Seq(Nat) : all = Upwards(ListedAt) /\ Len(all) = Cardinality(ListedAt)
  BY <1>3 DEF Ordered
<1>5. /\ Upwards(AlarmsAt) = Append(all, n + 1)
      /\ Cardinality(AlarmsAt) = Cardinality(ListedAt) + 1
  BY <1>3, <1>4, UpwardsAppend
<1>6. PICK C \in Nat : C = Len(all)
  BY LenProperties
<1>7. PICK L \in Nat : /\ L = Len(latest) /\ latest \in Seq(Nat)
                       /\ L = (IF MaxAlerts <= C THEN MaxAlerts ELSE C)
  BY <1>1, <1>4, <1>6 DEF LatestInv, IsEnd, TypeOK
<1>8. AlarmsAt' = AlarmsAt /\ step' \in {"trim", "idle"} /\ ListedAt' = AlarmsAt
  <2>1. AlarmsAt' = AlarmsAt
    BY <1>1 DEF AlarmsAt
  <2>2. step' = "trim" \/ step' = "idle"
    BY DEF ListAlert
  <2>3. QED BY <2>1, <2>2 DEF ListedAt
<1>9. IsEnd(latest, all, MaxAlerts)
  BY <1>1, <1>4 DEF LatestInv
<1> DEFINE longer == Append(latest, n + 1)
           allLonger == Append(all, n + 1)
<1>10. /\ longer \in Seq(Nat) /\ Len(longer) = L + 1 /\ IsEnd(longer, allLonger, MaxAlerts + 1)
       /\ Len(allLonger) = C + 1
  <2>1. MaxAlerts \in Nat /\ n + 1 \in Nat
    OBVIOUS
  <2>2. ASSUME NEW x \in Nat
        PROVE  /\ Append(latest, x) \in Seq(Nat) /\ Len(Append(latest, x)) = Len(latest) + 1
               /\ IsEnd(Append(latest, x), Append(all, x), MaxAlerts + 1)
               /\ Len(Append(all, x)) = Len(all) + 1
    BY <1>7, <1>9, <2>1, AppendedEnd, AppendProperties
  <2>3. QED BY <1>6, <1>7, <2>1, <2>2
<1> HIDE DEF longer, allLonger
<1>11. CASE MaxAlerts = 0
  <2>1. latest' = <<>> /\ L = 0
    BY <1>7, <1>11 DEF ListAlert
  <2>2. step' = "idle"
    BY <1>11, EmptySeq DEF ListAlert
  <2>3. IsEnd(<<>>, allLonger, 0)
    BY <1>10, EmptySeq DEF IsEnd
  <2>4. LatestInv'
    BY <1>5, <1>8, <1>11, <2>1, <2>2, <2>3 DEF LatestInv, allLonger
  <2>5. latest = <<>>
    BY <1>7, <2>1, EmptySeq
  <2>6. QED BY <1>2, <1>3, <1>8, <1>11, <2>1, <2>4, <2>5
<1>12. CASE MaxAlerts # 0
  <2>1. latest' = longer
    BY <1>2, <1>12 DEF ListAlert, longer
  <2>2. CASE L + 1 > MaxAlerts
    <3>1. step' = "trim"
      BY <1>2, <1>10, <1>12, <2>2 DEF ListAlert, longer
    <3>2. Cardinality(AlarmsAt) > MaxAlerts
      BY <1>4, <1>5, <1>6, <1>7, <2>2
    <3>3. Len(stored)' \in AlarmsAt'
      BY <1>1, <1>2, <1>8
    <3>4. LatestInv'
      BY <1>5, <1>8, <1>10, <2>1, <3>1, <3>2, <3>3 DEF LatestInv, allLonger
    <3>5. QED BY <1>2, <1>3, <1>8, <1>12, <2>1, <3>4 DEF longer
  <2>3. CASE ~(L + 1 > MaxAlerts)
    <3>1. step' = "idle"
      BY <1>2, <1>10, <1>12, <2>3 DEF ListAlert, longer
    <3>2. IsEnd(longer, allLonger, MaxAlerts)
      BY <1>7, <1>10, <2>3 DEF IsEnd
    <3>3. LatestInv'
      BY <1>5, <1>8, <2>1, <3>1, <3>2 DEF LatestInv, allLonger
    <3>4. QED BY <1>2, <1>3, <1>8, <1>12, <2>1, <3>3 DEF longer
  <2>4. QED BY <2>2, <2>3
<1>13. QED BY <1>11, <1>12

\* Trimming deletes the oldest, which is one.
LEMMA TrimmingKeepsLatest ==
  ASSUME TypeOK, LatestInv, Trim
  PROVE  /\ ListedAt' = ListedAt /\ AlarmsAt' = AlarmsAt
         /\ Len(latest) = MaxAlerts + 1
         /\ Len(latest') = MaxAlerts
         /\ \A k \in 1 .. MaxAlerts : latest'[k] = latest[k + 1]
         /\ LatestInv'
<1>1. step = "trim" /\ step' = "idle" /\ UNCHANGED stored
  BY DEF Trim
<1>2. AlarmsAt' = AlarmsAt /\ ListedAt' = ListedAt
  BY <1>1 DEF AlarmsAt, ListedAt
<1>3. PICK all : all = Upwards(ListedAt)
  OBVIOUS
<1>4. PICK C \in Nat : C = Len(all) /\ C > MaxAlerts
  BY <1>1, <1>3, ListedAre DEF LatestInv, Ordered
<1>5. /\ Len(latest) = MaxAlerts + 1 /\ latest \in Seq(Nat)
      /\ \A k \in 1 .. MaxAlerts + 1 : latest[k] = all[C - (MaxAlerts + 1) + k]
  <2>1. IsEnd(latest, all, MaxAlerts + 1)
    BY <1>1, <1>3 DEF LatestInv
  <2>2. Len(latest) = MaxAlerts + 1
    BY <1>4, <2>1 DEF IsEnd
  <2>3. QED BY <1>4, <2>1, <2>2 DEF IsEnd, TypeOK
<1>6. latest' = SubSeq(latest, 2, MaxAlerts + 1)
  <2>1. (MaxAlerts + 1) - MaxAlerts + 1 = 2
    OBVIOUS
  <2>2. QED BY <1>5, <2>1 DEF Trim, NewestAlerts
<1> DEFINE rest == SubSeq(latest, 2, MaxAlerts + 1)
<1>7. /\ rest \in Seq(Nat) /\ Len(rest) = MaxAlerts
      /\ \A k \in 1 .. MaxAlerts : rest[k] = latest[k + 1]
  <2>1. \A i \in 2 .. MaxAlerts + 1 : latest[i] \in Nat
    <3>1. \A i \in 2 .. MaxAlerts + 1 : i \in DOMAIN latest
      BY <1>5, LenProperties
    <3>2. QED BY <1>5, <3>1, ElementOfSeq
  <2>2. 2 \in Int /\ MaxAlerts + 1 \in Int
    OBVIOUS
  <2>3. /\ rest \in Seq(Nat)
        /\ Len(rest) = IF 2 <= MaxAlerts + 1 THEN MaxAlerts + 1 - 2 + 1 ELSE 0
        /\ \A k \in 1 .. MaxAlerts + 1 - 2 + 1 : rest[k] = latest[2 + k - 1]
    BY <2>1, <2>2, SubSeqProperties
  <2> HIDE DEF rest
  <2>4. Len(rest) = MaxAlerts
    BY <2>3
  <2>5. \A k \in 1 .. MaxAlerts : rest[k] = latest[k + 1]
    <3> SUFFICES ASSUME NEW k \in 1 .. MaxAlerts PROVE rest[k] = latest[k + 1]
      OBVIOUS
    <3>1. k \in 1 .. MaxAlerts + 1 - 2 + 1 /\ 2 + k - 1 = k + 1
      OBVIOUS
    <3>2. rest[k] = latest[2 + k - 1]
      BY <2>3, <3>1
    <3>3. QED BY <3>1, <3>2
  <2>6. QED BY <2>3, <2>4, <2>5
<1> HIDE DEF rest
<1>8. IsEnd(rest, all, MaxAlerts)
  <2>1. DOMAIN rest = 1 .. MaxAlerts
    BY <1>7, LenProperties
  <2>2. ASSUME NEW k \in 1 .. MaxAlerts PROVE rest[k] = all[C - MaxAlerts + k]
    <3>1. k + 1 \in 1 .. MaxAlerts + 1 /\ C - (MaxAlerts + 1) + (k + 1) = C - MaxAlerts + k
      OBVIOUS
    <3>2. QED BY <1>5, <1>7, <3>1
  <2>3. MaxAlerts <= Len(all)
    BY <1>4
  <2>4. QED BY <1>4, <1>7, <2>1, <2>2, <2>3 DEF IsEnd
<1>9. LatestInv'
  <2>1. latest' = rest
    BY <1>6 DEF rest
  <2>2. Upwards(ListedAt)' = all
    BY <1>2, <1>3
  <2>3. (IsEnd(latest, Upwards(ListedAt), IF step = "trim" THEN MaxAlerts + 1 ELSE MaxAlerts))'
    BY <1>1, <1>8, <2>1, <2>2
  <2>4. QED BY <1>1, <2>3 DEF LatestInv
<1>10. QED BY <1>2, <1>5, <1>6, <1>7, <1>9 DEF rest

LEMMA LatestStep ==
  ASSUME TypeOK, LatestInv, [Next]_vars PROVE LatestInv'
<1>1. CASE UNCHANGED <<step, output>>
  BY <1>1 DEF output, LatestInv, ListedAt, AlarmsAt
<1>2. ASSUME NEW m \in Message, Stores(m) PROVE LatestInv'
  BY <1>2, StoringKeepsLatest
<1>3. CASE ListAlert
  BY <1>3, ListingKeepsLatest
<1>4. CASE Trim
  BY <1>4, TrimmingKeepsLatest
<1>5. QED BY <1>1, <1>2, <1>3, <1>4, OutputSteps DEF output

LEMMA LatestInit == Init => LatestInv
<1> SUFFICES ASSUME Init PROVE LatestInv
  OBVIOUS
<1>1. stored = <<>> /\ latest = <<>> /\ step = "idle"
  BY DEF Init
<1>2. AlarmsAt = {} /\ ListedAt = {}
  BY <1>1 DEF AlarmsAt, ListedAt
<1>3. {} \subseteq 1 .. 0 /\ 0 \in Nat
  OBVIOUS
<1>4. Ordered(Upwards({}), {})
  BY <1>3, UpwardsIsOrdered
<1>5. Len(Upwards({})) = 0
  BY <1>4, FS_EmptySet DEF Ordered
<1>6. IsEnd(latest, Upwards(ListedAt), MaxAlerts)
  BY <1>1, <1>2, <1>5, EmptySeq DEF IsEnd
<1>7. QED BY <1>1, <1>6 DEF LatestInv

-----------------------------------------------------------------------------
(* What clients have heard of *)

\* Every alarm that is listed has been announced, but for one that is being trimmed;
\* what is not listed yet has not.
HeardInv ==
  /\ \A p \in ToSet(broadcasts) : /\ p \in 1 .. Len(stored)
                                  /\ step # "idle" => p # Len(stored)
  /\ \A p \in ListedAt : p \in ToSet(broadcasts) \/ (step = "trim" /\ p = Len(stored))

LEMMA AnnouncedIs ==
  ASSUME TypeOK, NEW n \in Nat
  PROVE  ToSet(Append(broadcasts, n)) = ToSet(broadcasts) \cup {n}
<1>1. broadcasts \in Seq(Nat)
  BY DEF TypeOK
<1>2. QED BY <1>1, AppendedSet

LEMMA HeardStep ==
  ASSUME TypeOK, LatestInv, HeardInv, [Next]_vars PROVE HeardInv'
<1>0. PICK n \in Nat : n = Len(stored) /\ AlarmsAt \subseteq 1 .. n
  BY ListedAre
<1>1. CASE UNCHANGED <<step, output>>
  BY <1>1 DEF output, HeardInv, ListedAt, AlarmsAt
<1>2. ASSUME NEW m \in Message, Stores(m) PROVE HeardInv'
  <2>1. /\ Len(stored') = n + 1 /\ ListedAt' = ListedAt
        /\ step = "idle" /\ step' # "trim"
    BY <1>0, <1>2, StoringKeepsLatest DEF Stores
  <2>2. \/ broadcasts' = broadcasts
        \/ step' = "idle" /\ broadcasts' = Append(broadcasts, n + 1)
    BY <1>2, <2>1 DEF Stores, GoesOn, Announced
  <2>3. \/ ToSet(broadcasts') = ToSet(broadcasts)
        \/ step' = "idle" /\ ToSet(broadcasts') = ToSet(broadcasts) \cup {n + 1}
    <3>1. n + 1 \in Nat
      OBVIOUS
    <3>2. ToSet(Append(broadcasts, n + 1)) = ToSet(broadcasts) \cup {n + 1}
      BY <3>1, AnnouncedIs
    <3>3. QED BY <2>2, <3>2
  <2>4. \A p \in ToSet(broadcasts) : p \in 1 .. n
    BY <1>0 DEF HeardInv
  <2>5. \A p \in ListedAt : p \in ToSet(broadcasts)
    BY <2>1 DEF HeardInv
  <2>6. \A p \in 1 .. n : p \in 1 .. n + 1 /\ p # n + 1
    OBVIOUS
  <2>7. n + 1 \in 1 .. n + 1
    OBVIOUS
  <2>8. \A p \in ToSet(broadcasts') : p \in 1 .. n + 1 /\ (step' # "idle" => p # n + 1)
    BY <2>3, <2>4, <2>6, <2>7
  <2>9. \A p \in ListedAt' : p \in ToSet(broadcasts')
    BY <2>1, <2>3, <2>5
  <2>10. QED BY <2>1, <2>8, <2>9 DEF HeardInv
<1>3. CASE ListAlert
  <2>1. /\ step = "list" /\ UNCHANGED stored /\ ListedAt' = ListedAt \cup {n}
        /\ \/ step' = "trim" /\ broadcasts' = broadcasts
           \/ step' = "idle" /\ broadcasts' = Append(broadcasts, n)
    BY <1>0, <1>3, ListingKeepsLatest DEF ListAlert, Announced
  <2>2. \/ step' = "trim" /\ ToSet(broadcasts') = ToSet(broadcasts)
        \/ step' = "idle" /\ ToSet(broadcasts') = ToSet(broadcasts) \cup {n}
    BY <2>1, AnnouncedIs
  <2>3. n \in 1 .. n
    BY <1>0, <2>1 DEF LatestInv
  <2>4. \A p \in ToSet(broadcasts) : p \in 1 .. n /\ p # n
    BY <1>0, <2>1 DEF HeardInv
  <2>5. \A p \in ListedAt : p \in ToSet(broadcasts)
    BY <2>1 DEF HeardInv
  <2>6. Len(stored)' = n
    BY <1>0, <2>1
  <2>7. QED BY <2>1, <2>2, <2>3, <2>4, <2>5, <2>6 DEF HeardInv
<1>4. CASE Trim
  <2>1. /\ step = "trim" /\ step' = "idle" /\ UNCHANGED stored /\ ListedAt' = ListedAt
        /\ broadcasts' = Append(broadcasts, n)
    BY <1>0, <1>4, TrimmingKeepsLatest DEF Trim, Announced
  <2>2. ToSet(broadcasts') = ToSet(broadcasts) \cup {n}
    BY <2>1, AnnouncedIs
  <2>3. n \in 1 .. n
    BY <1>0, <2>1 DEF LatestInv
  <2>4. \A p \in ToSet(broadcasts) : p \in 1 .. n
    BY <1>0 DEF HeardInv
  <2>5. \A p \in ListedAt : p \in ToSet(broadcasts) \/ p = n
    BY <1>0 DEF HeardInv
  <2>6. Len(stored)' = n
    BY <1>0, <2>1
  <2>7. QED BY <2>1, <2>2, <2>3, <2>4, <2>5, <2>6 DEF HeardInv
<1>5. QED BY <1>1, <1>2, <1>3, <1>4, OutputSteps DEF output

\* The newest alarms that clients have heard of are in the list.
LEMMA NewestHeardIsListed ==
  ASSUME TypeOK, LatestInv, HeardInv
  PROVE  NewestHeard \subseteq ToSet(latest) /\ NewestHeard \subseteq 1 .. Len(stored)
<1>1. PICK n \in Nat : n = Len(stored) /\ DOMAIN stored = 1 .. n
  BY LenProperties DEF TypeOK
<1>2. PICK L \in Nat :
         /\ L = Len(latest) /\ DOMAIN latest = 1 .. L
         /\ \A i \in 1 .. L : latest[i] \in ListedAt
         /\ \A i, j \in 1 .. L : i < j => latest[i] < latest[j]
         /\ \A p \in ListedAt :
               \/ \E i \in 1 .. L : latest[i] = p
               \/ /\ L = (IF step = "trim" THEN MaxAlerts + 1 ELSE MaxAlerts)
                  /\ \A i \in 1 .. L : p < latest[i]
         /\ step = "trim" => L = MaxAlerts + 1
  BY LatestIs
<1>3. Heard \subseteq 1 .. n /\ IsFiniteSet(Heard)
  <2>1. Heard \subseteq 1 .. n
    BY <1>1 DEF Heard, HeardInv
  <2>2. QED BY <2>1, FirstNumbers, FS_Subset
<1>4. ListedAt \subseteq 1 .. n
  BY <1>1, ListedAre
<1>5. \A p \in Heard : p \in ListedAt
  BY <1>1, <1>3 DEF Heard, HeardInv, ListedAt, AlarmsAt
<1>6. \A p \in ListedAt : (step = "trim" => p # n) => p \in Heard
  BY <1>1 DEF Heard, HeardInv, ListedAt, AlarmsAt
<1>7. ASSUME NEW p \in NewestHeard PROVE p \in ToSet(latest)
  <2> DEFINE Q == {q \in Heard : q > p}
  <2>1. p \in Heard /\ Cardinality(Q) < MaxAlerts
    BY <1>7 DEF NewestHeard
  <2>2. p \in ListedAt /\ p \in Nat
    BY <1>3, <1>5, <2>1
  <2>3. IsFiniteSet(Q) /\ Cardinality(Q) \in Nat
    BY <1>3, FS_Subset, FS_CardinalityType
  <2>4. ASSUME ~\E i \in 1 .. L : latest[i] = p PROVE FALSE
    <3>1. /\ L = (IF step = "trim" THEN MaxAlerts + 1 ELSE MaxAlerts)
          /\ \A i \in 1 .. L : p < latest[i]
      BY <1>2, <2>2, <2>4
    <3>2. \A i \in 1 .. MaxAlerts : i \in 1 .. L
      BY <3>1
    <3>3. ASSUME NEW i \in 1 .. MaxAlerts PROVE latest[i] \in Heard
      <4>1. latest[i] \in ListedAt
        BY <1>2, <3>2
      <4>2. step = "trim" => latest[i] # n
        <5> SUFFICES ASSUME step = "trim" PROVE latest[i] # n
          OBVIOUS
        <5>1. L = MaxAlerts + 1 /\ i + 1 \in 1 .. L /\ i < i + 1
          BY <3>1
        <5>2. latest[i] < latest[i + 1] /\ latest[i + 1] \in 1 .. n /\ latest[i] \in 1 .. n
          BY <1>2, <1>4, <3>2, <5>1
        <5>3. QED BY <5>2
      <4>3. QED BY <1>6, <4>1, <4>2
    <3> DEFINE f == [i \in 1 .. MaxAlerts |-> latest[i]]
    <3>4. \A i \in 1 .. MaxAlerts : f[i] \in Q
      <4>1. \A i \in 1 .. MaxAlerts : latest[i] \in Heard /\ p < latest[i]
        BY <3>1, <3>2, <3>3
      <4>2. \A i \in 1 .. MaxAlerts : latest[i] > p
        BY <1>3, <2>2, <4>1
      <4>3. QED BY <4>1, <4>2
    <3>5. \A i, j \in 1 .. MaxAlerts : f[i] = f[j] => i = j
      <4> SUFFICES ASSUME NEW i \in 1 .. MaxAlerts, NEW j \in 1 .. MaxAlerts,
                          latest[i] = latest[j]
                   PROVE  i = j
        OBVIOUS
      <4>1. latest[i] \in 1 .. n /\ latest[j] \in 1 .. n
        BY <1>2, <1>4, <3>2
      <4>2. ~(latest[i] < latest[j]) /\ ~(latest[j] < latest[i])
        BY <4>1
      <4>3. ~(i < j) /\ ~(j < i)
        BY <1>2, <3>2, <4>2
      <4>4. QED BY <4>3
    <3> HIDE DEF Q
    <3>6. f \in Injection(1 .. MaxAlerts, Q)
      <4>1. f \in [1 .. MaxAlerts -> Q]
        BY <3>4
      <4> HIDE DEF f
      <4>2. QED BY <3>5, <4>1 DEF Injection, IsInjective
    <3>7. Cardinality(1 .. MaxAlerts) <= Cardinality(Q)
      <4> HIDE DEF f
      <4>1. QED BY <2>3, <3>6, FS_Injection
    <3>8. Cardinality(1 .. MaxAlerts) = MaxAlerts
      BY FirstNumbers
    <3> HIDE DEF f
    <3>9. QED BY <2>1, <2>3, <3>7, <3>8
  <2>5. QED BY <1>2, <2>4 DEF ToSet
<1>8. QED BY <1>1, <1>3, <1>7 DEF NewestHeard

LEMMA HeardInit == Init => HeardInv
BY EmptySeq DEF Init, HeardInv, ListedAt, AlarmsAt, ToSet

-----------------------------------------------------------------------------
(* What a client that asks is answered *)

\* What the request has still to read.
Remaining == {latest[k] : k \in Len(answer) + 1 .. Len(latest)}
Missing == expected \ (ToSet(answer) \cup Remaining)

Increasing(list) == \A i, j \in DOMAIN list : i < j => list[i] < list[j]

\* Each alert expected has been read, is still to be read, or was trimmed; what has
\* been read is older than all that is still to be read or to be listed.
ReadInv ==
  /\ expected \subseteq 1 .. Len(stored)
  /\ Increasing(answer)
  /\ request = "reading" =>
        /\ ToSet(answer) \subseteq ListedAt
        /\ \A p \in ToSet(answer), q \in Remaining : p < q
        /\ Cardinality(Missing) <= trims
  /\ request = "answered" => Cardinality(expected \ ToSet(answer)) <= trims

\* Nothing more is missing if nothing expected is taken away.
LEMMA MissesNoMore ==
  ASSUME TypeOK, ReadInv, NEW S, S \subseteq Missing
  PROVE  IsFiniteSet(S) /\ Cardinality(S) <= Cardinality(Missing)
<1>1. Len(stored) \in Nat
  BY LenProperties DEF TypeOK
<1>2. IsFiniteSet(expected) /\ Missing \subseteq expected
  <2>1. IsFiniteSet(1 .. Len(stored))
    BY <1>1, FirstNumbers
  <2>2. QED BY <2>1, FS_Subset DEF ReadInv, Missing
<1>3. IsFiniteSet(Missing)
  BY <1>2, FS_Subset
<1>4. QED BY <1>3, FS_Subset

LEMMA ReadStepQuiet ==
  ASSUME TypeOK, LatestInv, ReadInv, UNCHANGED <<latest, routes>>,
         ListedAt' = ListedAt, Len(stored) <= Len(stored'), Len(stored') \in Nat
  PROVE  ReadInv'
<1> USE DEF routes
<1>1. expected' \subseteq 1 .. Len(stored')
  <2>1. Len(stored) \in Nat
    BY LenProperties DEF TypeOK
  <2>2. 1 .. Len(stored) \subseteq 1 .. Len(stored')
    BY <2>1
  <2>3. QED BY <2>2 DEF ReadInv
<1>2. Remaining' = Remaining /\ Missing' = Missing
  BY DEF Remaining, Missing
<1>3. /\ request' = request /\ answer' = answer /\ expected' = expected /\ trims' = trims
  OBVIOUS
<1>4. QED BY <1>1, <1>2, <1>3 DEF ReadInv

LEMMA ReadStepListing ==
  ASSUME TypeOK, LatestInv, ReadInv, ListAlert PROVE ReadInv'
<1> PICK n \in Nat : n = Len(stored)
  BY LenProperties DEF TypeOK
<1>1. /\ UNCHANGED <<stored, request, answer, expected, trims>> /\ step = "list"
  BY DEF ListAlert, routes
<1>2. ListedAt' = ListedAt \cup {n}
  BY ListingKeepsLatest
<1>3. \A p \in ListedAt : p \in 1 .. n /\ p < n
  <2>1. \A p \in ListedAt : p \in 1 .. n /\ p # n
    BY <1>1, ListedAre DEF ListedAt
  <2>2. QED BY <2>1
<1>4. PICK a \in Nat : a = Len(answer)
  BY LenProperties DEF TypeOK
<1>5. Remaining \subseteq Remaining' /\ Remaining' \subseteq Remaining \cup {n}
  <2>1. CASE MaxAlerts = 0
    <3>1. latest = <<>> /\ latest' = <<>>
      BY <2>1, ListingKeepsLatest
    <3>2. QED BY <1>1, <3>1 DEF Remaining
  <2>2. CASE MaxAlerts # 0
    <3>1. PICK L \in Nat : L = Len(latest) /\ latest \in Seq(Nat)
      BY LenProperties DEF TypeOK
    <3>2. latest' = Append(latest, n)
      BY <2>2, ListingKeepsLatest
    <3>3. /\ Len(latest') = L + 1 /\ latest'[L + 1] = n
          /\ \A k \in 1 .. L : latest'[k] = latest[k]
      BY <3>1, <3>2, AppendProperties
    <3>4. Remaining = {latest[k] : k \in a + 1 .. L} /\ Remaining' = {latest'[k] : k \in a + 1 .. L + 1}
      BY <1>1, <1>4, <3>1, <3>3 DEF Remaining
    <3>5. \A k \in a + 1 .. L : k \in a + 1 .. L + 1 /\ k \in 1 .. L
      OBVIOUS
    <3>6. \A k \in a + 1 .. L + 1 : k \in a + 1 .. L \/ k = L + 1
      BY <3>1
    <3>7. QED BY <3>3, <3>4, <3>5, <3>6
  <2>3. QED BY <2>1, <2>2
<1>6. ASSUME request = "reading"
      PROVE  /\ ToSet(answer) \subseteq ListedAt'
             /\ \A p \in ToSet(answer), q \in Remaining' : p < q
             /\ Cardinality(Missing') <= trims
  <2>1. ToSet(answer) \subseteq ListedAt /\ \A p \in ToSet(answer), q \in Remaining : p < q
    BY <1>6 DEF ReadInv
  <2>2. Missing' \subseteq Missing
    BY <1>1, <1>5 DEF Missing
  <2>3. Cardinality(Missing) <= trims /\ trims \in Nat
    BY <1>6 DEF ReadInv, TypeOK
  <2>4. Cardinality(Missing') <= Cardinality(Missing)
    BY <2>2, MissesNoMore
  <2>5. Cardinality(Missing') \in Nat /\ Cardinality(Missing) \in Nat
    BY <2>2, MissesNoMore, FS_CardinalityType
  <2>6. QED BY <1>2, <1>3, <1>5, <2>1, <2>3, <2>4, <2>5
<1>7. QED BY <1>1, <1>6 DEF ReadInv

LEMMA ReadStepTrimming ==
  ASSUME TypeOK, LatestInv, ReadInv, Trim PROVE ReadInv'
<1>1. /\ UNCHANGED <<stored, request, answer, expected>> /\ step = "trim"
  BY DEF Trim
<1>2. /\ ListedAt' = ListedAt /\ Len(latest) = MaxAlerts + 1 /\ Len(latest') = MaxAlerts
      /\ \A k \in 1 .. MaxAlerts : latest'[k] = latest[k + 1]
  BY TrimmingKeepsLatest
<1>3. PICK a \in Nat : a = Len(answer)
  BY LenProperties DEF TypeOK
<1>4. /\ Remaining = {latest[k] : k \in a + 1 .. MaxAlerts + 1}
      /\ Remaining' = {latest'[k] : k \in a + 1 .. MaxAlerts}
  BY <1>1, <1>2, <1>3 DEF Remaining
<1>5. Remaining' \subseteq Remaining /\ Remaining \subseteq Remaining' \cup {latest[a + 1]}
  <2>1. \A k \in a + 1 .. MaxAlerts : k \in 1 .. MaxAlerts /\ k + 1 \in a + 1 .. MaxAlerts + 1
    OBVIOUS
  <2>2. \A k \in a + 1 .. MaxAlerts + 1 :
           k = a + 1 \/ (k - 1 \in a + 1 .. MaxAlerts /\ k - 1 \in 1 .. MaxAlerts /\ (k - 1) + 1 = k)
    OBVIOUS
  <2>3. \A k \in a + 1 .. MaxAlerts : latest'[k] \in Remaining
    BY <1>2, <1>4, <2>1
  <2>4. ASSUME NEW k \in a + 1 .. MaxAlerts + 1 PROVE latest[k] \in Remaining' \cup {latest[a + 1]}
    <3>1. CASE k = a + 1
      BY <3>1
    <3>2. CASE k # a + 1
      <4>1. k - 1 \in a + 1 .. MaxAlerts /\ latest'[k - 1] = latest[k]
        BY <1>2, <2>2, <3>2
      <4>2. QED BY <1>4, <4>1
    <3>3. QED BY <3>1, <3>2
  <2>5. QED BY <1>4, <2>3, <2>4
<1>6. ASSUME request = "reading"
      PROVE  /\ ToSet(answer) \subseteq ListedAt'
             /\ \A p \in ToSet(answer), q \in Remaining' : p < q
             /\ Cardinality(Missing') <= trims'
  <2>1. ToSet(answer) \subseteq ListedAt /\ \A p \in ToSet(answer), q \in Remaining : p < q
    BY <1>6 DEF ReadInv
  <2>2. trims' = trims + 1 /\ trims \in Nat
    <3>1. trims \in Nat /\ (MaxAlerts + 1) - MaxAlerts = 1
      BY DEF TypeOK
    <3>2. QED BY <1>2, <1>6, <3>1 DEF Trim
  <2> DEFINE x == latest[a + 1]
  <2>3. Missing' \subseteq Missing \cup {x}
    BY <1>1, <1>5 DEF Missing
  <2>4. Missing' \ {x} \subseteq Missing
    BY <2>3
  <2>5. /\ IsFiniteSet(Missing' \ {x}) /\ Cardinality(Missing' \ {x}) <= Cardinality(Missing)
        /\ IsFiniteSet(Missing)
    BY <2>4, MissesNoMore
  <2>6. /\ IsFiniteSet((Missing' \ {x}) \cup {x})
        /\ Cardinality((Missing' \ {x}) \cup {x}) <= Cardinality(Missing' \ {x}) + 1
    <3> DEFINE S == Missing' \ {x}
    <3>1. IsFiniteSet(S) /\ x \notin S
      BY <2>5
    <3> HIDE DEF S, x
    <3>2. IsFiniteSet(S \cup {x}) /\ Cardinality(S \cup {x}) = Cardinality(S) + 1
      BY <3>1, FS_AddElement
    <3>3. Cardinality(S) \in Nat
      BY <3>1, FS_CardinalityType
    <3>4. QED BY <3>2, <3>3 DEF S
  <2>7. Missing' \subseteq (Missing' \ {x}) \cup {x}
    OBVIOUS
  <2> HIDE DEF x
  <2>8. IsFiniteSet(Missing') /\ Cardinality(Missing') <= Cardinality((Missing' \ {x}) \cup {x})
    BY <2>6, <2>7, FS_Subset
  <2>9. /\ Cardinality(Missing') \in Nat /\ Cardinality(Missing) \in Nat
        /\ Cardinality(Missing' \ {x}) \in Nat /\ Cardinality((Missing' \ {x}) \cup {x}) \in Nat
    BY <2>5, <2>6, <2>8, FS_CardinalityType
  <2>10. Cardinality(Missing) <= trims
    BY <1>6 DEF ReadInv
  <2>11. Cardinality(Missing') <= trims'
    BY <2>2, <2>5, <2>6, <2>8, <2>9, <2>10
  <2>12. QED BY <1>2, <1>5, <2>1, <2>11
<1>7. request = "answered" => trims' = trims
  BY DEF Trim
<1>8. QED BY <1>1, <1>6, <1>7 DEF ReadInv

LEMMA ReadStepServing ==
  ASSUME TypeOK, LatestInv, HeardInv, ReadInv, Serve PROVE ReadInv'
<1>1. CASE Ask
  <2>1. /\ request' = "reading" /\ answer' = <<>> /\ expected' = NewestHeard /\ trims' = 0
        /\ UNCHANGED <<stored, latest, step>>
    BY <1>1 DEF Ask, output
  <2>2. NewestHeard \subseteq ToSet(latest) /\ NewestHeard \subseteq 1 .. Len(stored)
    BY NewestHeardIsListed
  <2>3. Len(<<>>) = 0 /\ ToSet(<<>>) = {} /\ DOMAIN <<>> = {}
    BY EmptySeq DEF ToSet
  <2>4. Remaining' = {latest[k] : k \in 1 .. Len(latest)}
    BY <2>1, <2>3 DEF Remaining
  <2>5. Remaining' = ToSet(latest)
    BY <2>4, LenProperties DEF ToSet, TypeOK
  <2>6. Missing' = {}
    BY <2>1, <2>2, <2>5 DEF Missing
  <2>7. Cardinality(Missing') <= trims'
    BY <2>1, <2>6, FS_EmptySet
  <2>8. Increasing(answer')
    BY <2>1, <2>3 DEF Increasing
  <2>9. QED BY <2>1, <2>2, <2>3, <2>7, <2>8 DEF ReadInv
<1>2. CASE ReadAlert
  <2>1. PICK a \in Nat : a = Len(answer) /\ answer \in Seq(Nat)
    BY LenProperties DEF TypeOK
  <2>2. PICK L \in Nat :
           /\ L = Len(latest)
           /\ \A i \in 1 .. L : latest[i] \in ListedAt
           /\ \A i, j \in 1 .. L : i < j => latest[i] < latest[j]
    BY LatestIs
  <2>3. /\ a < L /\ request = "reading" /\ answer' = Append(answer, latest[a + 1])
        /\ UNCHANGED <<stored, latest, step, request, expected, trims>>
    BY <1>2, <2>1, <2>2 DEF ReadAlert, output
  <2> DEFINE x == latest[a + 1]
  <2>4. a + 1 \in 1 .. L /\ x \in ListedAt /\ x \in Remaining
    BY <2>1, <2>2, <2>3 DEF Remaining
  <2>5. ListedAt \subseteq Nat /\ x \in Nat
    BY <2>4, ListedAre
  <2> HIDE DEF x
  <2>6. /\ Len(answer') = a + 1 /\ answer'[a + 1] = x
        /\ \A k \in 1 .. a : answer'[k] = answer[k]
        /\ answer' \in Seq(Nat)
    BY <2>1, <2>3, <2>5, AppendProperties DEF x
  <2>7. ToSet(answer') = ToSet(answer) \cup {x}
    BY <2>1, <2>3, <2>5, AppendedSet DEF x
  <2>8. Remaining' = {latest[k] : k \in a + 2 .. L} /\ Remaining = {latest[k] : k \in a + 1 .. L}
    <3>1. (a + 1) + 1 = a + 2
      OBVIOUS
    <3>2. QED BY <2>1, <2>2, <2>3, <2>6, <3>1 DEF Remaining
  <2>9. \A k \in a + 1 .. L : k = a + 1 \/ k \in a + 2 .. L
    OBVIOUS
  <2>10. \A k \in a + 2 .. L : k \in a + 1 .. L /\ k \in 1 .. L /\ a + 1 < k
    OBVIOUS
  <2>11. Remaining = Remaining' \cup {x}
    BY <2>4, <2>8, <2>9, <2>10 DEF x
  <2>12. \A q \in Remaining' : x < q
    BY <2>2, <2>4, <2>8, <2>10 DEF x
  <2>13. \A p \in ToSet(answer) : p < x
    BY <2>3, <2>4 DEF ReadInv
  <2>14. \A p \in ToSet(answer'), q \in Remaining' : p < q
    BY <2>3, <2>7, <2>11, <2>12 DEF ReadInv
  <2>15. Missing' = Missing
    BY <2>3, <2>7, <2>11 DEF Missing
  <2>16. Increasing(answer')
    <3>1. DOMAIN answer = 1 .. a /\ DOMAIN answer' = 1 .. a + 1
      BY <2>1, <2>6, LenProperties
    <3>2. \A k \in 1 .. a : answer[k] \in ToSet(answer)
      BY <3>1 DEF ToSet
    <3>3. ASSUME NEW i \in 1 .. a + 1, NEW j \in 1 .. a + 1, i < j PROVE answer'[i] < answer'[j]
      <4>1. i \in 1 .. a
        BY <3>3
      <4>2. CASE j = a + 1
        BY <2>6, <2>13, <3>2, <4>1, <4>2
      <4>3. CASE j # a + 1
        <5>1. j \in 1 .. a
          BY <4>3
        <5>2. QED BY <2>6, <3>1, <3>3, <4>1, <5>1 DEF ReadInv, Increasing
      <4>4. QED BY <4>2, <4>3
    <3>4. QED BY <3>1, <3>3 DEF Increasing
  <2>17. ListedAt' = ListedAt
    BY <2>3 DEF ListedAt, AlarmsAt
  <2>18. QED BY <2>3, <2>4, <2>7, <2>14, <2>15, <2>16, <2>17 DEF ReadInv
<1>3. CASE Answer
  <2>1. /\ request = "reading" /\ request' = "answered" /\ Len(answer) >= Len(latest)
        /\ UNCHANGED <<stored, answer, expected, trims>>
    BY <1>3 DEF Answer, output
  <2>2. Len(answer) \in Nat /\ Len(latest) \in Nat
    BY LenProperties DEF TypeOK
  <2>3. Remaining = {}
    BY <2>1, <2>2 DEF Remaining
  <2>4. Missing = expected \ ToSet(answer)
    BY <2>3 DEF Missing
  <2>5. QED BY <2>1, <2>4 DEF ReadInv
<1>4. QED BY <1>1, <1>2, <1>3 DEF Serve

LEMMA ReadStep ==
  ASSUME TypeOK, LatestInv, HeardInv, ReadInv, [Next]_vars PROVE ReadInv'
<1>0. Len(stored) \in Nat
  BY LenProperties DEF TypeOK
<1>1. CASE UNCHANGED <<step, output, routes>>
  <2>1. ListedAt' = ListedAt /\ Len(stored') = Len(stored) /\ UNCHANGED <<latest, routes>>
    BY <1>1 DEF ListedAt, AlarmsAt, output
  <2>2. QED BY <1>0, <2>1, ReadStepQuiet
<1>2. ASSUME NEW m \in Message, Stores(m) PROVE ReadInv'
  <2>1. ListedAt' = ListedAt /\ Len(stored') = Len(stored) + 1 /\ UNCHANGED <<latest, routes>>
    BY <1>2, StoringKeepsLatest DEF Stores
  <2>2. QED BY <1>0, <2>1, ReadStepQuiet
<1>3. CASE ListAlert
  BY <1>3, ReadStepListing
<1>4. CASE Trim
  BY <1>4, ReadStepTrimming
<1>5. CASE Serve
  BY <1>5, ReadStepServing
<1>6. QED BY <1>1, <1>2, <1>3, <1>4, <1>5, OutputSteps

LEMMA ReadInit == Init => ReadInv
BY DEF Init, ReadInv, Increasing

\* What the loop keeps of the latest alerts, and what is read of it.
LEMMA LatestAlertsInvariant == Spec => [](LatestInv /\ HeardInv /\ ReadInv)
BY LatestInit, HeardInit, ReadInit, LatestStep, HeardStep, ReadStep, TypeCorrect, PTL
   DEF Spec

\* Whoever has heard of an alarm and asks for the latest alerts is answered with it
\* while it is one of the newest, for any size of the list and at any pace of the
\* loop and of the reader: no more is missing than was trimmed meanwhile.
THEOREM LatestAnswersAreSound == Spec => []LatestAlertsAreAnswered
<1>1. ReadInv => LatestAlertsAreAnswered
  BY DEF ReadInv, LatestAlertsAreAnswered, Increasing
<1>2. QED BY <1>1, LatestAlertsInvariant, PTL

-----------------------------------------------------------------------------
(* The answers of the API: CloudQueries *)

\* No more rows than the limit of the code, and at least one.
LEMMA SafeLimitIs ==
  ASSUME NEW limit \in Int
  PROVE  /\ SafeLimit(limit) \in 1 .. MaxRows
         /\ limit \in 1 .. MaxRows => SafeLimit(limit) = limit
<1>1. MaxRows \in Nat \ {0}
  BY RowsAssumption
<1>2. Min({limit, MaxRows}) = IF limit <= MaxRows THEN limit ELSE MaxRows
  BY <1>1, MinOfTwo
<1>3. PICK c \in Int : c = Min({limit, MaxRows}) /\ c <= MaxRows
                       /\ (limit \in 1 .. MaxRows => c = limit)
  BY <1>1, <1>2
<1>4. Max({1, c}) = IF 1 <= c THEN c ELSE 1
  BY MinOfTwo
<1>5. SafeLimit(limit) = Max({1, c})
  BY <1>3 DEF SafeLimit
<1>6. QED BY <1>1, <1>3, <1>4, <1>5

LEMMA LastOfIsEnd ==
  ASSUME NEW S, NEW list \in Seq(S), NEW n \in Nat
  PROVE  LastOf(list, n) \in Seq(S) /\ IsEnd(LastOf(list, n), list, n)
<1> DEFINE L == Len(list)
           end == LastOf(list, n)
<1>1. L \in Nat /\ \A k \in 1 .. L : list[k] \in S
  BY LenProperties, ElementOfSeq
<1>2. Max({1, L - n + 1}) = IF 1 <= L - n + 1 THEN L - n + 1 ELSE 1
  <2>1. L - n + 1 \in Int
    BY <1>1
  <2>2. 1 \in Int
    OBVIOUS
  <2>3. ASSUME NEW e \in Int PROVE Max({1, e}) = IF 1 <= e THEN e ELSE 1
    BY <2>2, MinOfTwo, Zenon
  <2>4. QED BY <2>1, <2>3
<1>3. PICK first \in 1 .. L + 1 :
        /\ first = Max({1, L - n + 1})
        /\ L - first + 1 = IF n <= L THEN n ELSE L
  <2> HIDE DEF L
  <2>1. CASE n <= L
    <3>1. L - n + 1 \in 1 .. L + 1 /\ 1 <= L - n + 1
      BY <1>1, <2>1
    <3>2. L - (L - n + 1) + 1 = n
      BY <1>1
    <3>3. QED BY <1>2, <2>1, <3>1, <3>2
  <2>2. CASE ~(n <= L)
    <3>1. Max({1, L - n + 1}) = 1 /\ 1 \in 1 .. L + 1 /\ L - 1 + 1 = L
      BY <1>1, <1>2, <2>2
    <3>2. QED BY <2>2, <3>1
  <2>3. QED BY <2>1, <2>2
<1>4. end = SubSeq(list, first, L)
  BY <1>3 DEF LastOf
<1>5. \A i \in first .. L : list[i] \in S
  BY <1>1
<1> HIDE DEF L, end
<1>6. /\ end \in Seq(S) /\ Len(end) = (IF first <= L THEN L - first + 1 ELSE 0)
      /\ \A k \in 1 .. L - first + 1 : end[k] = list[first + k - 1]
  <2>1. first \in Int /\ L \in Int
    BY <1>1
  <2>2. /\ SubSeq(list, first, L) \in Seq(S)
        /\ Len(SubSeq(list, first, L)) = IF first <= L THEN L - first + 1 ELSE 0
        /\ \A k \in 1 .. L - first + 1 : SubSeq(list, first, L)[k] = list[first + k - 1]
    BY <1>5, <2>1, SubSeqProperties
  <2>3. QED BY <1>4, <2>2
<1>7. Len(end) = L - first + 1
  BY <1>1, <1>3, <1>6
<1>8. \A k \in 1 .. Len(end) : first + k - 1 = L - Len(end) + k
  BY <1>1, <1>3, <1>7
<1>9. DOMAIN end = 1 .. Len(end)
  BY <1>6
<1>10. QED BY <1>3, <1>6, <1>7, <1>8, <1>9 DEF IsEnd, L, end

-----------------------------------------------------------------------------
(* The stored events, and the rows made of them *)

OfTypeAt(type) == {k \in DOMAIN stored : TypeOf(stored[k]) = type}

LEMMA OfTypeIs ==
  ASSUME stored \in Seq(Message), NEW type
  PROVE  /\ OfType(type) \in Seq(Message)
         /\ \A k \in DOMAIN OfType(type) :
               \E p \in DOMAIN stored : /\ OfType(type)[k] = stored[p]
                                        /\ TypeOf(OfType(type)[k]) = type
         /\ \A p \in DOMAIN stored :
               TypeOf(stored[p]) = type
                 => \E k \in DOMAIN OfType(type) : OfType(type)[k] = stored[p]
<1> DEFINE P == OfTypeAt(type)
<1>1. OfType(type) = Picked(stored, P)
  BY DEF OfType, OfTypeAt
<1>2. P \subseteq DOMAIN stored /\ \A p \in DOMAIN stored : p \in P <=> TypeOf(stored[p]) = type
  BY DEF OfTypeAt
<1> HIDE DEF P
<1>3. Picked(stored, P) \in Seq(Message)
  BY <1>2, PickedElements
<1>4. /\ \A k \in DOMAIN Picked(stored, P) : \E p \in P : Picked(stored, P)[k] = stored[p]
      /\ \A p \in P : \E k \in DOMAIN Picked(stored, P) : Picked(stored, P)[k] = stored[p]
  BY <1>2, PickedPlaces
<1>5. QED BY <1>1, <1>2, <1>3, <1>4

\* What a question leaves of the events of its type.
HitsAt(type, device, about, start, stop) ==
  {k \in DOMAIN OfType(type) :
      /\ InRange(OfType(type)[k], start, stop, Anchor(type))
      /\ Wanted(RowOf(OfType(type)[k]), device, about)}
HitsOf(type, device, about, start, stop) ==
  Picked(OfType(type), HitsAt(type, device, about, start, stop))

\* An answer has the rows of the last of them.
Answers(rows, hits, limit) ==
  /\ DOMAIN rows = 1 .. Len(rows)
  /\ Len(rows) = (IF SafeLimit(limit) <= Len(hits) THEN SafeLimit(limit) ELSE Len(hits))
  /\ \A k \in 1 .. Len(rows) : rows[k] = RowOf(hits[Len(hits) - Len(rows) + k])

MessageRows == {RowOf(m) : m \in Message}

LEMMA QueryAnswers ==
  ASSUME stored \in Seq(Message), NEW type, NEW device, NEW about, NEW start, NEW stop,
         NEW limit \in Int
  PROVE  /\ HitsOf(type, device, about, start, stop) \in Seq(Message)
         /\ Query(type, device, about, start, stop, limit) \in Seq(MessageRows)
         /\ Answers(Query(type, device, about, start, stop, limit),
                    HitsOf(type, device, about, start, stop), limit)
<1> DEFINE hits == HitsOf(type, device, about, start, stop)
           P == HitsAt(type, device, about, start, stop)
           n == SafeLimit(limit)
           end == LastOf(hits, n)
           rows == [k \in DOMAIN end |-> RowOf(end[k])]
<1>1. OfType(type) \in Seq(Message)
  BY OfTypeIs
<1>2. P \subseteq DOMAIN OfType(type)
  BY DEF HitsAt
<1>3. hits \in Seq(Message)
  BY <1>1, <1>2, PickedElements DEF HitsOf
<1>4. n \in Nat
  BY SafeLimitIs
<1>5. Query(type, device, about, start, stop, limit) = rows
  BY DEF Query, HitsOf, HitsAt
<1> HIDE DEF hits, n
<1>6. end \in Seq(Message) /\ IsEnd(end, hits, n)
  BY <1>3, <1>4, LastOfIsEnd
<1>7. DOMAIN end = 1 .. Len(end) /\ Len(end) \in Nat /\ \A k \in 1 .. Len(end) : end[k] \in Message
  BY <1>6, LenProperties, ElementOfSeq
<1> HIDE DEF end
<1>8. rows \in [1 .. Len(end) -> MessageRows]
  BY <1>7 DEF MessageRows
<1>9. rows = [k \in 1 .. Len(end) |-> RowOf(end[k])]
  BY <1>7
<1> HIDE DEF rows
<1>10. rows \in Seq(MessageRows) /\ Len(rows) = Len(end) /\ DOMAIN rows = 1 .. Len(end)
  BY <1>7, <1>8, ListedIsSame
<1>11. \A k \in 1 .. Len(end) : rows[k] = RowOf(hits[Len(hits) - Len(end) + k])
  BY <1>6, <1>9 DEF IsEnd
<1>12. Answers(rows, hits, limit)
  BY <1>6, <1>10, <1>11 DEF Answers, IsEnd, n
<1>13. QED BY <1>3, <1>5, <1>10, <1>12 DEF hits

\* A history that is not cut has a row for each event.
LEMMA HistoryIs ==
  ASSUME TypeOK, NEW type, Len(OfType(type)) <= MaxRows
  PROVE  /\ History(type) \in Seq(MessageRows)
         /\ Len(History(type)) = Len(OfType(type))
         /\ \A k \in 1 .. Len(OfType(type)) : History(type)[k] = RowOf(OfType(type)[k])
<1> DEFINE events == OfType(type)
           hits == HitsOf(type, None, None, Ever, <<>>)
<1>1. stored \in Seq(Message) /\ MaxRows \in Int /\ MaxRows \in 1 .. MaxRows
  BY RowsAssumption DEF TypeOK
<1>2. events \in Seq(Message)
  BY <1>1, OfTypeIs
<1>3. \A m \in Message : InRange(m, Ever, <<>>, Anchor(type))
  <2>1. \A m \in Message : m.stamp \in Nat
    BY MessageAssumption DEF MessageType
  <2>2. Bound(Ever, Anchor(type)) = 0
    BY DEF Bound, Ever
  <2>3. QED BY <2>1, <2>2 DEF InRange
<1>4. \A row : Wanted(row, None, None)
  BY DEF Wanted
<1>5. HitsAt(type, None, None, Ever, <<>>) = DOMAIN events
  <2>1. \A k \in DOMAIN events : events[k] \in Message
    BY <1>2, LenProperties, ElementOfSeq
  <2>2. QED BY <1>3, <1>4, <2>1 DEF HitsAt
<1>6. hits = events
  <2>1. Picked(events, DOMAIN events) = events
    BY <1>2, PickedAll
  <2>2. QED BY <1>5, <2>1 DEF HitsOf
<1>7. History(type) \in Seq(MessageRows) /\ Answers(History(type), hits, MaxRows)
  <2> HIDE DEF hits, events
  <2>1. \A start, stop :
          /\ Query(type, None, None, start, stop, MaxRows) \in Seq(MessageRows)
          /\ Answers(Query(type, None, None, start, stop, MaxRows),
                     HitsOf(type, None, None, start, stop), MaxRows)
    BY <1>1, QueryAnswers
  <2>2. QED BY <2>1 DEF History, hits
<1>8. SafeLimit(MaxRows) = MaxRows
  BY <1>1, SafeLimitIs
<1> HIDE DEF events, hits
<1>9. Len(events) \in Nat
  BY <1>2, LenProperties
<1>10. Len(History(type)) = Len(events)
  BY <1>1, <1>6, <1>7, <1>8, <1>9 DEF Answers, events
<1>11. ASSUME NEW k \in 1 .. Len(events) PROVE History(type)[k] = RowOf(events[k])
  <2>1. Len(events) - Len(events) + k = k
    BY <1>9
  <2>2. History(type)[k] = RowOf(events[Len(events) - Len(events) + k])
    BY <1>6, <1>7, <1>10 DEF Answers
  <2>3. QED BY <2>1, <2>2
<1>12. QED BY <1>7, <1>10, <1>11 DEF events

\* The two readers of a plain alarm find the same level.
LEMMA LevelsAgree ==
  ASSUME NEW m \in Message, Plain(m), IsAlarm(m)
  PROVE  RowOf(m).about = AlertLevel(m)
<1> DEFINE names == <<"level", "risk_level">>
           present == {i \in DOMAIN names : /\ names[i] \in DOMAIN m.payload
                                            /\ m.payload[names[i]] # None}
<1>1. TypeOf(m) = "alarm"
  BY DEF IsAlarm, TypeOf, Plain
<1>2. RowOf(m).about = FirstValue(m.payload, names, "none")
  BY <1>1 DEF RowOf, About, LevelOf
<1>3. FirstValue(m.payload, names, "none")
        = IF present = {} THEN "none" ELSE m.payload[names[Min(present)]]
  BY DEF FirstValue
<1>4. DOMAIN names = {1, 2} /\ names[1] = "level" /\ names[2] = "risk_level"
  OBVIOUS
<1> HIDE DEF names
<1>5. "level" \notin DOMAIN m.payload
  BY DEF Plain
<1>6. CASE "risk_level" \in DOMAIN m.payload
  <2>1. m.payload["risk_level"] # None
    BY <1>6 DEF Plain
  <2>2. present = {2}
    BY <1>4, <1>5, <1>6, <2>1
  <2>3. Min({2}) = 2
    BY DEF Min
  <2>4. FirstValue(m.payload, names, "none") = m.payload["risk_level"]
    BY <1>3, <1>4, <2>2, <2>3
  <2>5. AlertLevel(m) = m.payload["risk_level"]
    BY <1>6, <2>1 DEF AlertLevel
  <2>6. QED BY <1>2, <2>4, <2>5
<1>7. CASE "risk_level" \notin DOMAIN m.payload
  <2>1. present = {}
    BY <1>4, <1>5, <1>7
  <2>2. QED BY <1>2, <1>3, <1>7, <2>1 DEF AlertLevel
<1>8. QED BY <1>6, <1>7

\* The start of a list.
LEMMA FirstOfIs ==
  ASSUME NEW S, NEW list \in Seq(S), NEW n \in Nat, n <= Len(list)
  PROVE  /\ FirstOf(list, n) \in Seq(S) /\ Len(FirstOf(list, n)) = n
         /\ \A k \in 1 .. n : FirstOf(list, n)[k] = list[k]
<1>1. PICK L \in Nat : L = Len(list) /\ DOMAIN list = 1 .. L
  BY LenProperties
<1>2. Min({n, L}) = n
  <2>1. n \in Int /\ L \in Int
    OBVIOUS
  <2>2. Min({n, L}) = IF n <= L THEN n ELSE L
    BY <2>1, MinOfTwo
  <2>3. QED BY <1>1, <2>2
<1>3. \A i \in 1 .. n : list[i] \in S
  <2>1. \A i \in 1 .. n : i \in DOMAIN list
    BY <1>1
  <2>2. QED BY <2>1, ElementOfSeq
<1>4. 1 \in Int /\ n \in Int
  OBVIOUS
<1> DEFINE first == SubSeq(list, 1, n)
<1>5. /\ first \in Seq(S) /\ Len(first) = (IF 1 <= n THEN n - 1 + 1 ELSE 0)
      /\ \A k \in 1 .. n - 1 + 1 : first[k] = list[1 + k - 1]
  BY <1>3, <1>4, SubSeqProperties
<1>6. FirstOf(list, n) = first
  BY <1>1, <1>2 DEF FirstOf
<1> HIDE DEF first
<1>7. Len(first) = n
  BY <1>5
<1>8. ASSUME NEW k \in 1 .. n PROVE first[k] = list[k]
  <2>1. k \in 1 .. n - 1 + 1 /\ 1 + k - 1 = k
    OBVIOUS
  <2>2. first[k] = list[1 + k - 1]
    BY <1>5, <2>1
  <2>3. QED BY <2>1, <2>2
<1>9. QED BY <1>5, <1>6, <1>7, <1>8

\* The alarms that are listed are the first of those that are stored.
LEMMA ListedAreFirst ==
  ASSUME TypeOK, LatestInv
  PROVE  LET due == IF step = "list" THEN 1 ELSE 0
             c   == Cardinality(ListedAt)
         IN /\ c \in Nat /\ Cardinality(AlarmsAt) = c + due
            /\ Len(Upwards(ListedAt)) = c
            /\ \A k \in 1 .. c : Upwards(ListedAt)[k] = Upwards(AlarmsAt)[k]
<1>1. Ordered(Upwards(ListedAt), ListedAt)
  BY ListedAre
<1>2. CASE step # "list"
  <2>1. ListedAt = AlarmsAt
    BY <1>2 DEF ListedAt
  <2>2. QED BY <1>1, <1>2, <2>1 DEF Ordered
<1>3. CASE step = "list"
  <2>1. PICK n \in Nat : n + 1 = Len(stored) /\ n + 1 \in AlarmsAt
    <3>1. Len(stored) \in AlarmsAt /\ Len(stored) \in Nat /\ AlarmsAt \subseteq 1 .. Len(stored)
      BY <1>3, ListedAre DEF LatestInv
    <3>2. Len(stored) - 1 \in Nat /\ (Len(stored) - 1) + 1 = Len(stored)
      BY <3>1
    <3>3. QED BY <3>1, <3>2
  <2>2. ListedAt \subseteq 1 .. n /\ AlarmsAt = ListedAt \cup {n + 1}
    <3>1. AlarmsAt \subseteq 1 .. n + 1 /\ ListedAt = {k \in AlarmsAt : k # n + 1}
      BY <1>3, <2>1, ListedAre DEF ListedAt
    <3>2. \A k \in 1 .. n + 1 : k # n + 1 => k \in 1 .. n
      OBVIOUS
    <3>3. ListedAt \subseteq 1 .. n
      BY <3>1, <3>2
    <3>4. AlarmsAt = ListedAt \cup {n + 1}
      BY <2>1, <3>1
    <3>5. QED BY <3>3, <3>4
  <2>3. PICK all \in Seq(Nat) : all = Upwards(ListedAt) /\ Len(all) = Cardinality(ListedAt)
    BY <1>1 DEF Ordered
  <2>4. /\ Upwards(AlarmsAt) = Append(all, n + 1)
        /\ Cardinality(AlarmsAt) = Cardinality(ListedAt) + 1
    BY <2>2, <2>3, UpwardsAppend
  <2>5. Len(all) \in Nat /\ \A k \in 1 .. Len(all) : Append(all, n + 1)[k] = all[k]
    <3>1. n + 1 \in Nat
      OBVIOUS
    <3>2. QED BY <3>1, LenProperties, AppendProperties
  <2>6. QED BY <1>3, <2>3, <2>4, <2>5
<1>4. QED BY <1>2, <1>3

\* The summary counts what the histories answer, for any messages and limits and
\* while an alarm is being listed, as long as no history is cut and alarms are plain.
THEOREM SummaryIsOfTheHistory == Spec => []SummaryMatchesHistory
<1>1. TypeOK /\ LatestInv => SummaryMatchesHistory
  <2> SUFFICES ASSUME TypeOK, LatestInv, \A m \in ToSet(stored) : Plain(m),
                      \A type \in Types : Len(OfType(type)) <= MaxRows
               PROVE  LET rows == History("alarm")
                          listed == FirstOf(rows, Len(rows) - (IF step = "list" THEN 1 ELSE 0))
                          newest == LastOf(listed, MaxAlerts + (IF step = "trim" THEN 1 ELSE 0))
                      IN /\ \A level :
                              RiskCount(level)
                                = Cardinality({k \in DOMAIN newest : newest[k].about = level})
                         /\ SummaryPayload.alerts = Len(newest)
                         /\ SummaryPayload.tracks = Len(History("track"))
                         /\ SummaryPayload.sensors = Len(History("sensor"))
    BY DEF SummaryMatchesHistory
  <2> DEFINE rows == History("alarm")
             due == IF step = "list" THEN 1 ELSE 0
             over == IF step = "trim" THEN 1 ELSE 0
             listed == FirstOf(rows, Len(rows) - due)
             newest == LastOf(listed, MaxAlerts + over)
             alarms == OfType("alarm")
             c == Cardinality(ListedAt)
             n == MaxAlerts + over
  <2>0. stored \in Seq(Message) /\ \A k \in DOMAIN stored : stored[k] \in Message /\ Plain(stored[k])
    BY LenProperties, ElementOfSeq DEF TypeOK, ToSet
  <2>1. OfTypeAt("alarm") = AlarmsAt
    BY <2>0 DEF OfTypeAt, AlarmsAt, IsAlarm, TypeOf, Plain
  <2>2. alarms = Picked(stored, AlarmsAt) /\ AlarmsAt \subseteq DOMAIN stored
    BY <2>1 DEF OfType, OfTypeAt, AlarmsAt
  <2>3. "alarm" \in Types /\ "track" \in Types /\ "sensor" \in Types
    BY DEF Types
  <2>4. /\ rows \in Seq(MessageRows) /\ Len(rows) = Len(alarms)
        /\ \A k \in 1 .. Len(alarms) : rows[k] = RowOf(alarms[k])
    BY <2>3, HistoryIs
  <2>5. Len(History("track")) = Len(OfType("track")) /\ Len(History("sensor")) = Len(OfType("sensor"))
    BY <2>3, HistoryIs
  <2> HIDE DEF alarms, rows
  <2>6. /\ Len(alarms) = Cardinality(AlarmsAt)
        /\ \A k \in 1 .. Cardinality(AlarmsAt) : alarms[k] = stored[Upwards(AlarmsAt)[k]]
    BY <2>0, <2>2, PickedElements DEF PicksFrom
  <2>7. /\ c \in Nat /\ Cardinality(AlarmsAt) = c + due
        /\ Len(Upwards(ListedAt)) = c
        /\ \A k \in 1 .. c : Upwards(ListedAt)[k] = Upwards(AlarmsAt)[k]
    BY ListedAreFirst
  <2>8. due \in Nat /\ over \in Nat /\ n \in Nat
    BY LimitAssumption
  <2>9. IsEnd(latest, Upwards(ListedAt), n)
    BY DEF LatestInv
  <2> HIDE DEF due, over, n, c
  <2>10. Len(rows) - due = c /\ c <= Len(rows)
    BY <2>4, <2>6, <2>7, <2>8
  <2>11. /\ listed \in Seq(MessageRows) /\ Len(listed) = c
         /\ \A k \in 1 .. c : listed[k] = rows[k]
    BY <2>4, <2>7, <2>10, FirstOfIs
  <2> HIDE DEF listed
  <2>12. newest \in Seq(MessageRows) /\ IsEnd(newest, listed, n)
    BY <2>8, <2>11, LastOfIsEnd DEF n
  <2> HIDE DEF newest
  <2>13. PICK L \in Nat :
            /\ L = Len(latest) /\ L = Len(newest) /\ L <= c
            /\ DOMAIN latest = 1 .. L /\ DOMAIN newest = 1 .. L
            /\ \A k \in 1 .. L : newest[k] = listed[c - L + k]
            /\ \A k \in 1 .. L : latest[k] = Upwards(ListedAt)[c - L + k]
    BY <2>7, <2>8, <2>9, <2>11, <2>12 DEF IsEnd
  <2>14. ASSUME NEW k \in 1 .. L PROVE newest[k].about = AlertLevel(stored[latest[k]])
    <3> DEFINE p == Upwards(AlarmsAt)[c - L + k]
    <3>1. c - L + k \in 1 .. c /\ c - L + k \in 1 .. Cardinality(AlarmsAt)
      BY <2>7, <2>8, <2>13
    <3>2. latest[k] = p /\ newest[k] = RowOf(stored[p])
      BY <2>4, <2>6, <2>7, <2>11, <2>13, <3>1
    <3>3. latest[k] \in ListedAt
      BY <2>13, LatestIs
    <3>4. stored[p] \in Message /\ Plain(stored[p]) /\ IsAlarm(stored[p])
      BY <2>0, <3>2, <3>3 DEF ListedAt, AlarmsAt
    <3> HIDE DEF p
    <3>5. QED BY <3>2, <3>4, LevelsAgree
  <2>15. ASSUME NEW level PROVE RiskCount(level) = Cardinality({k \in DOMAIN newest : newest[k].about = level})
    <3>1. {k \in DOMAIN newest : newest[k].about = level}
            = {k \in DOMAIN latest : AlertLevel(stored[latest[k]]) = level}
      BY <2>13, <2>14
    <3>2. QED BY <3>1 DEF RiskCount
  <2>16. /\ SummaryPayload.alerts = Len(latest)
         /\ SummaryPayload.tracks = Len(OfType("track"))
         /\ SummaryPayload.sensors = Len(OfType("sensor"))
    BY DEF SummaryPayload
  <2>17. QED BY <2>5, <2>13, <2>15, <2>16 DEF newest, listed, rows, due, over
<1>2. QED BY <1>1, TypeCorrect, LatestAlertsInvariant, PTL

-----------------------------------------------------------------------------
(* The rows of the devices *)

DeviceRows == [online   : {None} \cup {OnlineFromPayload(m) : m \in Message},
               lastSeen : {None} \cup Nat,
               lastType : {None} \cup {m.kind : m \in Message},
               cpu      : {None} \cup {m.payload.cpu : m \in Message}]

IsStatus(m) == TypeOf(m) \in {"status", "lwt"}

LEMMA RowType ==
    ASSUME NEW row \in DeviceRows, NEW m \in Message
    PROVE  /\ WithEvent(row, m) \in DeviceRows
           /\ WithEvent(row, m).online = (IF IsStatus(m) THEN OnlineFromPayload(m) ELSE row.online)
           /\ WithEvent(row, m).lastSeen
                = (IF row.lastSeen = None \/ m.stamp >= row.lastSeen THEN m.stamp ELSE row.lastSeen)
<1> DEFINE seenAt == IF row.lastSeen = None \/ m.stamp >= row.lastSeen THEN m.stamp ELSE row.lastSeen
           type == IF row.lastSeen = None \/ m.stamp >= row.lastSeen THEN m.kind ELSE row.lastType
           online == IF IsStatus(m) THEN OnlineFromPayload(m) ELSE row.online
           cpu == IF IsStatus(m) /\ "cpu" \in DOMAIN m.payload THEN m.payload.cpu ELSE row.cpu
<1>1. m.stamp \in Nat
  BY MessageAssumption DEF MessageType
<1>2. /\ row.online \in {None} \cup {OnlineFromPayload(x) : x \in Message}
      /\ row.lastSeen \in {None} \cup Nat
      /\ row.lastType \in {None} \cup {x.kind : x \in Message}
      /\ row.cpu \in {None} \cup {x.payload.cpu : x \in Message}
  BY DEF DeviceRows
<1>3. /\ seenAt \in {None} \cup Nat
      /\ type \in {None} \cup {x.kind : x \in Message}
      /\ online \in {None} \cup {OnlineFromPayload(x) : x \in Message}
      /\ cpu \in {None} \cup {x.payload.cpu : x \in Message}
  <2>1. seenAt = m.stamp \/ seenAt = row.lastSeen
    OBVIOUS
  <2>2. type = m.kind \/ type = row.lastType
    OBVIOUS
  <2>3. online = OnlineFromPayload(m) \/ online = row.online
    OBVIOUS
  <2>4. cpu = m.payload.cpu \/ cpu = row.cpu
    OBVIOUS
  <2> HIDE DEF seenAt, type, online, cpu
  <2>5. seenAt \in {None} \cup Nat
    BY <1>1, <1>2, <2>1
  <2>6. type \in {None} \cup {x.kind : x \in Message}
    BY <1>2, <2>2
  <2>7. online \in {None} \cup {OnlineFromPayload(x) : x \in Message}
    BY <1>2, <2>3
  <2>8. cpu \in {None} \cup {x.payload.cpu : x \in Message}
    BY <1>2, <2>4
  <2>9. QED BY <2>5, <2>6, <2>7, <2>8
<1>4. WithEvent(row, m) = [online |-> online, lastSeen |-> seenAt, lastType |-> type, cpu |-> cpu]
  BY DEF WithEvent, IsStatus
<1>5. WithEvent(row, m).online = online /\ WithEvent(row, m).lastSeen = seenAt
  <2> HIDE DEF seenAt, type, online, cpu
  <2>1. QED BY <1>4
<1>6. WithEvent(row, m) \in DeviceRows
  <2> HIDE DEF seenAt, type, online, cpu
  <2>1. QED BY <1>3, <1>4 DEF DeviceRows
<1>7. QED BY <1>5, <1>6

\* The fold of DeviceRow as a loop.
LEMMA RowLoop ==
    ASSUME NEW list \in Seq(Message)
    PROVE  \E f \in [0 .. Len(list) -> DeviceRows] :
              /\ f[0] = NoRow
              /\ \A k \in 1 .. Len(list) : f[k] = WithEvent(f[k - 1], list[k])
              /\ FoldLeft(WithEvent, NoRow, list) = f[Len(list)]
<1> DEFINE N == Len(list)
           A == DeviceRows
           turn == [p \in A \X (1 .. N) |-> WithEvent(p[1], list[p[2]])]
           Equation(g) == g = [s \in SUBSET DOMAIN list |->
                                 IF s = {} THEN NoRow
                                 ELSE WithEvent(g[s \ {Max(s)}], list[Max(s)])]
           table == CHOOSE g : Equation(g)
<1>0. N \in Nat /\ DOMAIN list = 1 .. N /\ \A k \in 1 .. N : list[k] \in Message
  BY LenProperties, ElementOfSeq
<1>1. turn \in [A \X (1 .. N) -> A] /\ NoRow \in A
  <2>1. NoRow \in A
    BY DEF NoRow, DeviceRows
  <2>2. ASSUME NEW p \in A \X (1 .. N) PROVE WithEvent(p[1], list[p[2]]) \in A
    BY <1>0, RowType
  <2>3. QED BY <2>1, <2>2
<1>2. \A s \in SUBSET (1 .. N), t \in A :
         s # {} => turn[<<t, Max(s)>>] = WithEvent(t, list[Max(s)])
  <2> SUFFICES ASSUME NEW s \in SUBSET (1 .. N), NEW t \in A, s # {}
               PROVE  turn[<<t, Max(s)>>] = WithEvent(t, list[Max(s)])
    OBVIOUS
  <2>1. s \subseteq 0 .. N
    OBVIOUS
  <2>2. Max(s) \in 1 .. N
    BY <1>0, <2>1, GreatestNumber
  <2>3. QED BY <2>2
<1>3. PICK g \in [SUBSET (1 .. N) -> A] : FoldTable(g, N, NoRow, turn)
  <2> HIDE DEF turn, A
  <2>1. QED BY <1>0, <1>1, FoldTableExists
<1>4. Equation(g)
  <2> HIDE DEF turn
  <2>1. QED BY <1>0, <1>2, <1>3 DEF FoldTable
<1>5. Equation(table)
  BY <1>4
<1>6. FoldLeft(WithEvent, NoRow, list) = table[1 .. N]
  BY <1>0 DEF FoldLeft, MapThenFoldSet
<1> HIDE DEF table, turn
<1>7. RunsThrough(table, A, N, NoRow, turn)
  BY <1>0, <1>1, <1>2, <1>5 DEF RunsThrough
<1>8. PICK f : IsLoop(f, A, N, NoRow, turn) /\ f[N] = table[1 .. N]
  BY <1>7, LoopOfTable
<1>9. ASSUME NEW k \in 1 .. N PROVE f[k] = WithEvent(f[k - 1], list[k])
  <2>1. k - 1 \in 0 .. N /\ f[k - 1] \in A
    BY <1>0, <1>8 DEF IsLoop
  <2>2. QED BY <1>8, <2>1 DEF turn, IsLoop
<1>10. f \in [0 .. N -> A] /\ f[0] = NoRow
  BY <1>8 DEF IsLoop
<1>11. QED BY <1>6, <1>8, <1>9, <1>10

\* After k events: the device was last seen at the newest of them, and its flag is
\* that of the status stored last.
RowAfter(row, list, k) ==
    /\ k = 0 => row.lastSeen = None
    /\ k > 0 => /\ row.lastSeen \in Nat
                /\ \E j \in 1 .. k : list[j].stamp = row.lastSeen
                /\ \A j \in 1 .. k : list[j].stamp <= row.lastSeen
    /\ \A j \in 1 .. k :
          IsStatus(list[j]) /\ (\A i \in 1 .. k : i > j => ~IsStatus(list[i]))
            => row.online = OnlineFromPayload(list[j])

LEMMA RowGrows ==
    ASSUME NEW list \in Seq(Message), NEW k \in Nat, k + 1 \in DOMAIN list,
           NEW row \in DeviceRows, RowAfter(row, list, k)
    PROVE  RowAfter(WithEvent(row, list[k + 1]), list, k + 1)
<1> DEFINE m == list[k + 1]
           next == WithEvent(row, m)
<1>1. m \in Message
  BY ElementOfSeq
<1>2. /\ next.online = (IF IsStatus(m) THEN OnlineFromPayload(m) ELSE row.online)
      /\ next.lastSeen
           = (IF row.lastSeen = None \/ m.stamp >= row.lastSeen THEN m.stamp ELSE row.lastSeen)
      /\ m.stamp \in Nat
  BY <1>1, RowType, MessageAssumption DEF MessageType
<1> HIDE DEF next
<1>3. \A j \in 1 .. k + 1 : j \in 1 .. k \/ j = k + 1
  OBVIOUS
<1>4. k + 1 \in 1 .. k + 1 /\ k + 1 > 0 /\ k + 1 # 0 /\ \A j \in 1 .. k : j \in 1 .. k + 1 /\ k + 1 > j
  OBVIOUS
<1>5. /\ next.lastSeen \in Nat
      /\ \E j \in 1 .. k + 1 : list[j].stamp = next.lastSeen
      /\ \A j \in 1 .. k + 1 : list[j].stamp <= next.lastSeen
  <2>1. CASE k = 0
    <3>1. next.lastSeen = m.stamp
      BY <1>2, <2>1 DEF RowAfter
    <3>2. \A j \in 1 .. k + 1 : j = k + 1
      BY <2>1
    <3>3. QED BY <1>2, <1>4, <3>1, <3>2
  <2>2. CASE k > 0
    <3>1. /\ row.lastSeen \in Nat /\ row.lastSeen # None
          /\ \E j \in 1 .. k : list[j].stamp = row.lastSeen
          /\ \A j \in 1 .. k : list[j].stamp <= row.lastSeen
      BY <2>2, RowsAssumption DEF RowAfter
    <3>2. \A j \in 1 .. k : list[j] \in Message /\ list[j].stamp \in Nat
      <4>1. \A j \in 1 .. k : j \in DOMAIN list
        OBVIOUS
      <4>2. \A j \in 1 .. k : list[j] \in Message
        BY <4>1, ElementOfSeq
      <4>3. QED BY <4>2, MessageAssumption DEF MessageType
    <3>3. CASE m.stamp >= row.lastSeen
      <4>1. next.lastSeen = m.stamp
        BY <1>2, <3>3
      <4>2. \A j \in 1 .. k : list[j].stamp <= m.stamp
        BY <1>2, <3>1, <3>2, <3>3
      <4>3. QED BY <1>2, <1>3, <1>4, <4>1, <4>2
    <3>4. CASE ~(m.stamp >= row.lastSeen)
      <4>1. next.lastSeen = row.lastSeen /\ m.stamp <= row.lastSeen
        BY <1>2, <3>1, <3>4
      <4>2. QED BY <1>3, <1>4, <3>1, <4>1
    <3>5. QED BY <3>3, <3>4
  <2>3. QED BY <2>1, <2>2
<1>6. ASSUME NEW j \in 1 .. k + 1, IsStatus(list[j]),
             \A i \in 1 .. k + 1 : i > j => ~IsStatus(list[i])
      PROVE  next.online = OnlineFromPayload(list[j])
  <2>1. CASE j = k + 1
    BY <1>2, <1>6, <2>1
  <2>2. CASE j \in 1 .. k
    <3>1. ~IsStatus(m)
      BY <1>4, <1>6, <2>2
    <3>2. \A i \in 1 .. k : i > j => ~IsStatus(list[i])
      BY <1>4, <1>6
    <3>3. row.online = OnlineFromPayload(list[j])
      BY <1>6, <2>2, <3>2 DEF RowAfter
    <3>4. QED BY <1>2, <3>1, <3>3
  <2>3. QED BY <1>3, <2>1, <2>2
<1>7. QED BY <1>4, <1>5, <1>6 DEF RowAfter, next

LEMMA RowIs ==
    ASSUME NEW list \in Seq(Message)
    PROVE  RowAfter(FoldLeft(WithEvent, NoRow, list), list, Len(list))
<1> DEFINE N == Len(list)
<1>1. N \in Nat /\ DOMAIN list = 1 .. N
  BY LenProperties
<1>2. PICK f \in [0 .. N -> DeviceRows] :
         /\ f[0] = NoRow
         /\ \A k \in 1 .. N : f[k] = WithEvent(f[k - 1], list[k])
         /\ FoldLeft(WithEvent, NoRow, list) = f[N]
  BY RowLoop
<1> HIDE DEF N
<1> DEFINE P == {k \in 0 .. N : RowAfter(f[k], list, k)}
<1>3. 0 \in P
  <2>1. f[0].lastSeen = None /\ 1 .. 0 = {}
    BY <1>2 DEF NoRow
  <2>2. RowAfter(f[0], list, 0)
    BY <2>1 DEF RowAfter
  <2>3. QED BY <1>1, <2>2
<1>4. ASSUME NEW k \in 0 .. N - 1, k \in P PROVE k + 1 \in P
  <2>1. k \in Nat /\ k + 1 \in 1 .. N /\ k + 1 \in 0 .. N /\ (k + 1) - 1 = k /\ k \in 0 .. N
    BY <1>1
  <2>2. f[k] \in DeviceRows /\ RowAfter(f[k], list, k)
    BY <1>4, <2>1
  <2>3. RowAfter(WithEvent(f[k], list[k + 1]), list, k + 1)
    BY <1>1, <2>1, <2>2, RowGrows
  <2>4. f[k + 1] = WithEvent(f[k], list[k + 1])
    BY <1>2, <2>1
  <2>5. QED BY <2>1, <2>3, <2>4
<1>5. 0 .. N \subseteq P
  <2> HIDE DEF P
  <2>1. QED BY <1>1, <1>3, <1>4, CountsUp
<1>6. N \in 0 .. N
  BY <1>1
<1>7. QED BY <1>2, <1>5, <1>6 DEF N

\* A device was last seen at its newest event, for any messages in any order; and it is
\* online if its newest status says so, provided that its statuses came in order.
THEOREM DeviceRowsAreTheNewest == Spec => []DeviceRowIsTheNewest
<1>1. TypeOK => DeviceRowIsTheNewest
  <2> SUFFICES ASSUME TypeOK, NEW device \in Devices \ {None}
               PROVE  LET mine     == OfDevice(device)
                          statuses == Picked(mine, {k \in DOMAIN mine :
                                                     TypeOf(mine[k]) \in {"status", "lwt"}})
                          n        == Len(statuses)
                      IN /\ DeviceRow(device).lastSeen = Max({m.stamp : m \in ToSet(mine)})
                         /\ (n > 0 /\ \A k \in 2 .. n : statuses[k - 1].stamp <= statuses[k].stamp)
                            => DeviceRow(device).online = OnlineFromPayload(statuses[n])
    BY DEF DeviceRowIsTheNewest
  <2> DEFINE mine == OfDevice(device)
             P == {k \in DOMAIN mine : TypeOf(mine[k]) \in {"status", "lwt"}}
             statuses == Picked(mine, P)
             n == Len(statuses)
             Q == {k \in DOMAIN stored : stored[k].device = device}
             row == DeviceRow(device)
             N == Len(mine)
  <2>1. stored \in Seq(Message)
    BY DEF TypeOK
  <2>2. mine = Picked(stored, Q) /\ Q \subseteq DOMAIN stored /\ Q # {}
    BY <2>1, LenProperties DEF OfDevice, Devices, ToSet
  <2> HIDE DEF mine, Q
  <2>3. mine \in Seq(Message) /\ N \in Nat /\ DOMAIN mine = 1 .. N /\ DOMAIN mine # {}
    <3>1. mine \in Seq(Message) /\ \A p \in Q : \E k \in DOMAIN mine : mine[k] = stored[p]
      BY <2>1, <2>2, PickedElements, PickedPlaces
    <3>2. QED BY <2>2, <3>1, LenProperties
  <2>4. RowAfter(row, mine, N)
    BY <2>3, RowIs DEF DeviceRow, mine
  <2>5. row.lastSeen = Max({m.stamp : m \in ToSet(mine)})
    <3> DEFINE T == {m.stamp : m \in ToSet(mine)}
    <3>1. N > 0
      BY <2>3
    <3>2. T = {mine[j].stamp : j \in 1 .. N}
      BY <2>3 DEF ToSet
    <3>3. row.lastSeen \in T /\ row.lastSeen \in Nat /\ \A t \in T : t <= row.lastSeen
      BY <2>4, <3>1, <3>2 DEF RowAfter
    <3>4. T \subseteq Nat
      <4>1. \A j \in 1 .. N : mine[j] \in Message
        BY <2>3, ElementOfSeq
      <4>2. \A j \in 1 .. N : mine[j].stamp \in Nat
        BY <4>1, MessageAssumption DEF MessageType
      <4>3. QED BY <3>2, <4>2
    <3> HIDE DEF T
    <3>5. ASSUME NEW x \in T, \A t \in T : x >= t PROVE x = row.lastSeen
      BY <3>3, <3>4, <3>5
    <3>6. \E x \in T : \A t \in T : x >= t
      BY <3>3, <3>4
    <3>7. Max(T) = row.lastSeen
      BY <3>5, <3>6 DEF Max
    <3>8. QED BY <3>7 DEF T
  <2>6. ASSUME n > 0 PROVE row.online = OnlineFromPayload(statuses[n])
    <3>1. P \subseteq DOMAIN mine
      OBVIOUS
    <3>2. P = {k \in 1 .. N : IsStatus(mine[k])}
      BY <2>3 DEF IsStatus
    <3> HIDE DEF P
    <3>3. PICK p \in P : statuses[n] = mine[p] /\ \A q \in P : q <= p
      BY <2>3, <2>6, <3>1, LastPicked
    <3>4. p \in 1 .. N /\ IsStatus(mine[p]) /\ \A i \in 1 .. N : i > p => ~IsStatus(mine[i])
      BY <3>2, <3>3
    <3>5. QED BY <2>4, <3>3, <3>4 DEF RowAfter
  <2>7. QED BY <2>5, <2>6 DEF mine
<1>2. QED BY <1>1, TypeCorrect, PTL
-----------------------------------------------------------------------------
(* The two writers *)

\* The two readers of a status try the same names in the same order.
LEMMA ReadAlike ==
    ASSUME NEW m, "status" \in DOMAIN m.payload => m.payload.status # None
    PROVE  OnlineFromPayload(m) = StatusOnline(m)
<1> DEFINE names == <<"online", "status", "state">>
           have(name) == name \in DOMAIN m.payload /\ m.payload[name] # None
           present == {i \in DOMAIN names : /\ names[i] \in DOMAIN m.payload
                                            /\ m.payload[names[i]] # None}
           value == FirstValue(m.payload, names, None)
           get(name, default) == IF name \in DOMAIN m.payload THEN m.payload[name] ELSE default
           other == IF get("online", None) # None THEN get("online", None)
                    ELSE get("status", get("state", None))
           Reads(v) == IF v = None THEN TypeOf(m) # "lwt" ELSE CoerceOnline(v)
<1>1. value = IF present = {} THEN None ELSE m.payload[names[Min(present)]]
  BY DEF FirstValue
<1>2. /\ DOMAIN names = {1, 2, 3}
      /\ names[1] = "online" /\ names[2] = "status" /\ names[3] = "state"
  OBVIOUS
<1> HIDE DEF names
<1>3. /\ 1 \in present <=> have("online")
      /\ 2 \in present <=> have("status")
      /\ 3 \in present <=> have("state")
      /\ present \subseteq {1, 2, 3}
  BY <1>2
<1> HIDE DEF present, value
<1>4. value = other
  <2>1. CASE have("online")
    <3>1. Min(present) = 1
      BY <1>3, <2>1, LeastOf
    <3>2. QED BY <1>1, <1>2, <1>3, <2>1, <3>1
  <2>2. CASE ~have("online") /\ have("status")
    <3>1. present \subseteq {2, 3} /\ 2 \in present
      BY <1>3, <2>2
    <3>2. Min(present) = 2
      <4>1. \A y \in present : y = 2 \/ y = 3
        BY <3>1
      <4>2. present \subseteq Int /\ \A y \in present : 2 <= y
        BY <4>1
      <4>3. QED BY <3>1, <4>2, LeastOf
    <3>3. QED BY <1>1, <1>2, <2>2, <3>1, <3>2
  <2>3. CASE ~have("online") /\ ~have("status") /\ have("state")
    <3>1. present = {3}
      BY <1>3, <2>3
    <3>2. Min(present) = 3
      BY <3>1, LeastOf
    <3>3. QED BY <1>1, <1>2, <2>3, <3>1, <3>2
  <2>4. CASE ~have("online") /\ ~have("status") /\ ~have("state")
    <3>1. present = {}
      BY <1>3, <2>4
    <3>2. QED BY <1>1, <2>4, <3>1
  <2>5. QED BY <2>1, <2>2, <2>3, <2>4
<1>5. OnlineFromPayload(m) = Reads(other)
  BY DEF OnlineFromPayload
<1>6. StatusOnline(m) = Reads(value)
  BY DEF StatusOnline, value, names
<1>7. QED
  <2> HIDE DEF Reads, other
  <2>1. QED BY <1>4, <1>5, <1>6

-----------------------------------------------------------------------------
(* The points of the database *)

MessagePoints == SUBSET {Point(m) : m \in Message}

LEMMA WrittenType ==
    ASSUME NEW points \in MessagePoints, NEW m \in Message
    PROVE  Written(points, m) \in MessagePoints
BY DEF Written, MessagePoints

\* The fold of Points as a loop.
LEMMA PointLoop ==
    ASSUME NEW list \in Seq(Message)
    PROVE  \E f \in [0 .. Len(list) -> MessagePoints] :
              /\ f[0] = {}
              /\ \A k \in 1 .. Len(list) : f[k] = Written(f[k - 1], list[k])
              /\ FoldLeft(Written, {}, list) = f[Len(list)]
<1> DEFINE N == Len(list)
           A == MessagePoints
           turn == [p \in A \X (1 .. N) |-> Written(p[1], list[p[2]])]
           Equation(g) == g = [s \in SUBSET DOMAIN list |->
                                 IF s = {} THEN {}
                                 ELSE Written(g[s \ {Max(s)}], list[Max(s)])]
           table == CHOOSE g : Equation(g)
<1>0. N \in Nat /\ DOMAIN list = 1 .. N /\ \A k \in 1 .. N : list[k] \in Message
  BY LenProperties, ElementOfSeq
<1>1. turn \in [A \X (1 .. N) -> A] /\ {} \in A
  <2>1. {} \in A
    BY DEF MessagePoints
  <2>2. ASSUME NEW p \in A \X (1 .. N) PROVE Written(p[1], list[p[2]]) \in A
    BY <1>0, WrittenType
  <2>3. QED BY <2>1, <2>2
<1>2. \A s \in SUBSET (1 .. N), t \in A :
         s # {} => turn[<<t, Max(s)>>] = Written(t, list[Max(s)])
  <2> SUFFICES ASSUME NEW s \in SUBSET (1 .. N), NEW t \in A, s # {}
               PROVE  turn[<<t, Max(s)>>] = Written(t, list[Max(s)])
    OBVIOUS
  <2>1. s \subseteq 0 .. N
    OBVIOUS
  <2>2. Max(s) \in 1 .. N
    BY <1>0, <2>1, GreatestNumber
  <2>3. QED BY <2>2
<1>3. PICK g \in [SUBSET (1 .. N) -> A] : FoldTable(g, N, {}, turn)
  <2> HIDE DEF turn, A
  <2>1. QED BY <1>0, <1>1, FoldTableExists
<1>4. Equation(g)
  <2> HIDE DEF turn
  <2>1. QED BY <1>0, <1>2, <1>3 DEF FoldTable
<1>5. Equation(table)
  BY <1>4
<1>6. FoldLeft(Written, {}, list) = table[1 .. N]
  BY <1>0 DEF FoldLeft, MapThenFoldSet
<1> HIDE DEF table, turn
<1>7. RunsThrough(table, A, N, {}, turn)
  BY <1>0, <1>1, <1>2, <1>5 DEF RunsThrough
<1>8. PICK f : IsLoop(f, A, N, {}, turn) /\ f[N] = table[1 .. N]
  BY <1>7, LoopOfTable
<1>9. ASSUME NEW k \in 1 .. N PROVE f[k] = Written(f[k - 1], list[k])
  <2>1. k - 1 \in 0 .. N /\ f[k - 1] \in A
    BY <1>0, <1>8 DEF IsLoop
  <2>2. QED BY <1>8, <2>1 DEF turn, IsLoop
<1>10. f \in [0 .. N -> A] /\ f[0] = {}
  BY <1>8 DEF IsLoop
<1>11. QED BY <1>6, <1>8, <1>9, <1>10

\* After k writes each point is one of an event so far, and each event has a point
\* in its place.
PointsAfter(points, list, k) ==
    /\ \A p \in points : \E j \in 1 .. k : p = Point(list[j])
    /\ \A j \in 1 .. k : \E p \in points : SamePlace(p, Point(list[j]))

LEMMA PointsGrow ==
    ASSUME NEW list, NEW k \in Nat, NEW points, PointsAfter(points, list, k)
    PROVE  PointsAfter(Written(points, list[k + 1]), list, k + 1)
<1> DEFINE new == Point(list[k + 1])
           next == Written(points, list[k + 1])
<1>1. next = {p \in points : ~SamePlace(p, new)} \cup {new}
  BY DEF Written
<1>2. \A j \in 1 .. k + 1 : j \in 1 .. k \/ j = k + 1
  OBVIOUS
<1>3. k + 1 \in 1 .. k + 1 /\ \A j \in 1 .. k : j \in 1 .. k + 1
  OBVIOUS
<1> HIDE DEF next
<1>4. ASSUME NEW p \in next PROVE \E j \in 1 .. k + 1 : p = Point(list[j])
  BY <1>1, <1>3 DEF PointsAfter
<1>5. ASSUME NEW j \in 1 .. k + 1 PROVE \E p \in next : SamePlace(p, Point(list[j]))
  <2>1. CASE j = k + 1
    <3>1. new \in next /\ SamePlace(new, Point(list[j]))
      BY <1>1, <2>1 DEF SamePlace
    <3>2. QED BY <3>1
  <2>2. CASE j \in 1 .. k
    <3>1. PICK p \in points : SamePlace(p, Point(list[j]))
      BY <2>2 DEF PointsAfter
    <3>2. CASE ~SamePlace(p, new)
      BY <1>1, <3>1, <3>2
    <3>3. CASE SamePlace(p, new)
      <4>1. new \in next /\ SamePlace(new, Point(list[j]))
        BY <1>1, <3>1, <3>3 DEF SamePlace
      <4>2. QED BY <4>1
    <3>4. QED BY <3>2, <3>3
  <2>3. QED BY <1>2, <2>1, <2>2
<1>6. QED BY <1>4, <1>5 DEF PointsAfter, next

LEMMA PointsAre ==
    ASSUME stored \in Seq(Message)
    PROVE  PointsAfter(Points, stored, Len(stored))
<1> DEFINE N == Len(stored)
<1>1. N \in Nat /\ DOMAIN stored = 1 .. N
  BY LenProperties
<1>2. PICK f \in [0 .. N -> MessagePoints] :
         /\ f[0] = {}
         /\ \A k \in 1 .. N : f[k] = Written(f[k - 1], stored[k])
         /\ FoldLeft(Written, {}, stored) = f[N]
  BY PointLoop
<1> HIDE DEF N
<1> DEFINE P == {k \in 0 .. N : PointsAfter(f[k], stored, k)}
<1>3. 0 \in P
  <2>1. f[0] = {} /\ 1 .. 0 = {}
    BY <1>2
  <2>2. PointsAfter(f[0], stored, 0)
    BY <2>1 DEF PointsAfter
  <2>3. QED BY <1>1, <2>2
<1>4. ASSUME NEW k \in 0 .. N - 1, k \in P PROVE k + 1 \in P
  <2>1. k \in Nat /\ k + 1 \in 1 .. N /\ k + 1 \in 0 .. N /\ (k + 1) - 1 = k
    BY <1>1
  <2>2. PointsAfter(f[k], stored, k)
    BY <1>4
  <2>3. PointsAfter(Written(f[k], stored[k + 1]), stored, k + 1)
    BY <2>1, <2>2, PointsGrow
  <2>4. f[k + 1] = Written(f[k], stored[k + 1])
    BY <1>2, <2>1
  <2>5. QED BY <2>1, <2>3, <2>4
<1>5. 0 .. N \subseteq P
  <2> HIDE DEF P
  <2>1. QED BY <1>1, <1>3, <1>4, CountsUp
<1>6. N \in 0 .. N
  BY <1>1
<1>7. QED BY <1>2, <1>5, <1>6 DEF Points, N

-----------------------------------------------------------------------------
(* What both find *)

\* No event of a type is later than the anchor.
LEMMA AnchorIsLast ==
    ASSUME stored \in Seq(Message), NEW type
    PROVE  /\ Anchor(type) \in Nat
           /\ \A m \in ToSet(OfType(type)) : m.stamp \in Nat /\ m.stamp <= Anchor(type)
<1> DEFINE list == OfType(type)
           N == Len(list)
           T == {0} \cup {m.stamp : m \in ToSet(list)}
           P == {k \in 0 .. N : \E b \in Nat : \A j \in 1 .. k : list[j].stamp <= b}
<1>1. list \in Seq(Message)
  BY OfTypeIs
<1> HIDE DEF list
<1>2. N \in Nat /\ DOMAIN list = 1 .. N /\ \A j \in 1 .. N : list[j] \in Message
  BY <1>1, LenProperties, ElementOfSeq
<1>3. \A j \in 1 .. N : list[j].stamp \in Nat
  BY <1>2, MessageAssumption DEF MessageType
<1> HIDE DEF N
<1>4. 0 \in P
  <2>1. \A j \in 1 .. 0 : list[j].stamp <= 0
    OBVIOUS
  <2>2. QED BY <1>2, <2>1
<1>5. ASSUME NEW k \in 0 .. N - 1, k \in P PROVE k + 1 \in P
  <2>1. PICK b \in Nat : \A j \in 1 .. k : list[j].stamp <= b
    BY <1>5
  <2>2. k + 1 \in 1 .. N /\ k + 1 \in 0 .. N /\ \A j \in 1 .. k : j \in 1 .. N
    BY <1>2
  <2>3. PICK c \in Nat : b <= c /\ list[k + 1].stamp <= c
    <3>1. list[k + 1].stamp \in Nat
      BY <1>3, <2>2
    <3>2. CASE b <= list[k + 1].stamp
      BY <3>1, <3>2
    <3>3. CASE list[k + 1].stamp <= b
      BY <3>1, <3>3
    <3>4. QED BY <3>1, <3>2, <3>3
  <2>4. ASSUME NEW j \in 1 .. k + 1 PROVE list[j].stamp <= c
    <3>1. CASE j = k + 1
      BY <2>3, <3>1
    <3>2. CASE j \in 1 .. k
      BY <1>3, <2>1, <2>2, <2>3, <3>2
    <3>3. QED BY <3>1, <3>2
  <2>5. QED BY <2>2, <2>4
<1>6. N \in P
  <2>1. 0 .. N \subseteq P
    <3> HIDE DEF P
    <3>1. QED BY <1>2, <1>4, <1>5, CountsUp
  <2>2. N \in 0 .. N
    BY <1>2
  <2>3. QED BY <2>1, <2>2
<1>7. PICK b \in Nat : \A j \in 1 .. N : list[j].stamp <= b
  BY <1>6
<1>8. T = {0} \cup {list[j].stamp : j \in 1 .. N}
  BY <1>2 DEF ToSet
<1> HIDE DEF T, P
<1>9. T \subseteq 0 .. b /\ T # {}
  BY <1>3, <1>7, <1>8
<1>10. Max(T) \in T /\ \A t \in T : t <= Max(T)
  BY <1>9, GreatestNumber
<1>11. Anchor(type) = Max(T)
  BY DEF Anchor, T, list
<1>12. QED BY <1>9, <1>10, <1>11 DEF T, list

\* The events of a type that a question with these bounds leaves.
Left(type, device, about, start, stop) ==
    {m \in ToSet(stored) : /\ TypeOf(m) = type
                           /\ InRange(m, start, stop, Anchor(type))
                           /\ Wanted(RowOf(m), device, about)}

\* What both writers say of an event.
Part(m) == [device |-> m.device, stamp |-> m.stamp, about |-> About(m)]

\* The answer in memory has their rows, all of them if there are few.
LEMMA WholeAnswer ==
    ASSUME stored \in Seq(Message), NEW type, NEW device, NEW about, NEW start, NEW stop,
           Len(OfType(type)) <= MaxRows
    PROVE  Held(type, device, about, start, stop)
             = {Part(m) : m \in Left(type, device, about, start, stop)}
<1> DEFINE held == Query(type, device, about, start, stop, MaxRows)
           hits == HitsOf(type, device, about, start, stop)
           P == HitsAt(type, device, about, start, stop)
           events == OfType(type)
<1>0. MaxRows \in Nat /\ MaxRows \in 1 .. MaxRows /\ MaxRows \in Int
  BY RowsAssumption
<1>1. hits \in Seq(Message) /\ held \in Seq(MessageRows) /\ Answers(held, hits, MaxRows)
  BY <1>0, QueryAnswers
<1>2. SafeLimit(MaxRows) = MaxRows
  BY <1>0, SafeLimitIs
<1>3. /\ events \in Seq(Message)
      /\ \A k \in DOMAIN events :
            \E p \in DOMAIN stored : events[k] = stored[p] /\ TypeOf(events[k]) = type
      /\ \A p \in DOMAIN stored :
            TypeOf(stored[p]) = type => \E k \in DOMAIN events : events[k] = stored[p]
  BY OfTypeIs
<1>4. /\ P \subseteq DOMAIN events
      /\ \A k \in DOMAIN events : k \in P <=> /\ InRange(events[k], start, stop, Anchor(type))
                                              /\ Wanted(RowOf(events[k]), device, about)
  BY DEF HitsAt
<1>c0. hits = Picked(events, P) /\ Len(events) <= MaxRows
  BY DEF HitsOf
<1>b. Held(type, device, about, start, stop)
        = {[device |-> held[k].device, stamp |-> held[k].stamp, about |-> held[k].about] :
             k \in DOMAIN held}
  BY DEF Held
<1> HIDE DEF held, hits, P, events
<1>5. /\ \A k \in DOMAIN hits : \E p \in P : hits[k] = events[p]
      /\ \A p \in P : \E k \in DOMAIN hits : hits[k] = events[p]
  <2>1. events \in Seq(Message) /\ P \subseteq DOMAIN events
    BY <1>3, <1>4
  <2> DEFINE picked == Picked(events, P)
  <2>2. /\ \A k \in DOMAIN picked : \E p \in P : picked[k] = events[p]
        /\ \A p \in P : \E k \in DOMAIN picked : picked[k] = events[p]
    BY <2>1, PickedPlaces
  <2>3. hits = picked
    BY <1>c0
  <2> HIDE DEF picked
  <2>4. QED BY <2>2, <2>3
<1>a. Len(hits) = Cardinality(P) /\ Len(events) <= MaxRows
  BY <1>c0, <1>3, <1>4, PickedElements DEF PicksFrom
<1>c. Len(hits) <= MaxRows /\ Len(hits) \in Nat
  <2>1. PICK n \in Nat : n = Len(events) /\ DOMAIN events = 1 .. n
    BY <1>3, LenProperties
  <2>2. IsFiniteSet(1 .. n) /\ Cardinality(1 .. n) = n
    BY FirstNumbers
  <2>3. IsFiniteSet(P) /\ Cardinality(P) <= n
    BY <1>4, <2>1, <2>2, FS_Subset
  <2>4. Cardinality(P) \in Nat
    BY <2>3, FS_CardinalityType
  <2>5. QED BY <1>0, <1>a, <2>1, <2>3, <2>4
<1>6. /\ DOMAIN held = DOMAIN hits
      /\ \A k \in DOMAIN hits : held[k] = RowOf(hits[k])
  <2>1. Len(held) = Len(hits)
    BY <1>0, <1>1, <1>2, <1>c DEF Answers
  <2>2. \A k \in 1 .. Len(held) : Len(hits) - Len(held) + k = k
    BY <1>c, <2>1
  <2>3. DOMAIN held = 1 .. Len(held) /\ DOMAIN hits = 1 .. Len(hits)
    BY <1>1, LenProperties
  <2>4. \A k \in 1 .. Len(held) : held[k] = RowOf(hits[Len(hits) - Len(held) + k])
    BY <1>1 DEF Answers
  <2>5. QED BY <2>1, <2>2, <2>3, <2>4
<1>7. \A m : /\ RowOf(m).device = m.device /\ RowOf(m).stamp = m.stamp
             /\ RowOf(m).about = About(m)
  BY DEF RowOf
<1>8. \A k \in DOMAIN held :
         [device |-> held[k].device, stamp |-> held[k].stamp, about |-> held[k].about]
           = Part(hits[k])
  BY <1>6, <1>7 DEF Part
<1>9. \A k \in DOMAIN hits : hits[k] \in Left(type, device, about, start, stop)
  <2> SUFFICES ASSUME NEW k \in DOMAIN hits
               PROVE  hits[k] \in Left(type, device, about, start, stop)
    OBVIOUS
  <2>1. PICK p \in P : hits[k] = events[p]
    BY <1>5
  <2>2. PICK j \in DOMAIN stored : events[p] = stored[j] /\ TypeOf(events[p]) = type
    BY <1>3, <1>4
  <2>3. QED BY <1>4, <2>1, <2>2 DEF Left, ToSet
<1>10. \A m \in Left(type, device, about, start, stop) : \E k \in DOMAIN hits : hits[k] = m
  <2> SUFFICES ASSUME NEW m \in Left(type, device, about, start, stop)
               PROVE  \E k \in DOMAIN hits : hits[k] = m
    OBVIOUS
  <2>1. PICK j \in DOMAIN stored : m = stored[j]
    BY DEF Left, ToSet
  <2>2. PICK p \in DOMAIN events : events[p] = m
    BY <1>3, <2>1 DEF Left
  <2>3. p \in P
    BY <1>4, <2>2 DEF Left
  <2>4. QED BY <1>5, <2>2, <2>3
<1> HIDE DEF Left
<1>11. QED BY <1>b, <1>6, <1>8, <1>9, <1>10

LEMMA PointIs ==
    ASSUME NEW m
    PROVE  /\ DatabaseRow(Point(m)) = Part(m)
           /\ \A type \in Types : Point(m).measurement = type <=> TypeOf(m) = type
<1>1. /\ Point(m).measurement = IF TypeOf(m) = "lwt" THEN "status" ELSE TypeOf(m)
      /\ Point(m).tags = <<m.device, About(m)>> /\ Point(m).time = m.stamp
  BY DEF Point
<1>2. \A type \in Types : type # "status" /\ type # "lwt"
  BY DEF Types
<1>3. QED BY <1>1, <1>2 DEF DatabaseRow, Part

\* What Flux finds before its limit, and what the memory has of that time.
Found(type, device, about, back, stop) ==
    LET now == Anchor(type) + 1
        end == IF stop = <<>> THEN now ELSE Bound(stop, now)
    IN {p \in Points : /\ p.measurement = type
                       /\ Bound(<<"from", -back>>, now) <= p.time /\ p.time < end
                       /\ device # None => p.tags[1] = device
                       /\ about # None => p.tags[2] = about}
FoundRows(type, device, about, back, stop) ==
    {DatabaseRow(p) : p \in Found(type, device, about, back, stop)}
HeldSince(type, device, about, back, stop) ==
    {row \in Held(type, device, about, <<"from", -back>>, stop) :
       row.stamp >= (Anchor(type) + 1) - back}

LEMMA FluxHits ==
    ASSUME stored \in Seq(Message), NEW type \in Types, NEW device, NEW about,
           NEW back \in Nat, NEW stop, stop = <<>> \/ \E s \in Int : stop = <<"from", s>>,
           Len(OfType(type)) <= MaxRows
    PROVE  FoundRows(type, device, about, back, stop)
             = HeldSince(type, device, about, back, stop)
<1> DEFINE start == <<"from", -back>>
           now == Anchor(type) + 1
           end == IF stop = <<>> THEN now ELSE Bound(stop, now)
           hits == {p \in Points : /\ p.measurement = type
                                   /\ Bound(start, now) <= p.time /\ p.time < end
                                   /\ device # None => p.tags[1] = device
                                   /\ about # None => p.tags[2] = about}
           held == {row \in Held(type, device, about, start, stop) : row.stamp >= now - back}
           left == Left(type, device, about, start, stop)
<1>1. Held(type, device, about, start, stop) = {Part(m) : m \in left}
  BY WholeAnswer
<1>2. /\ Anchor(type) \in Nat /\ now \in Nat /\ start # <<>>
      /\ Bound(start, now) = now - back /\ Bound(start, Anchor(type)) = Anchor(type) - back
  BY AnchorIsLast, NotEmpty DEF Bound
<1>3. \A m \in ToSet(stored) : TypeOf(m) = type => m.stamp \in Nat /\ m.stamp <= Anchor(type)
  <2>1. \A m \in ToSet(stored) : TypeOf(m) = type => m \in ToSet(OfType(type))
    <3> SUFFICES ASSUME NEW m \in ToSet(stored), TypeOf(m) = type PROVE m \in ToSet(OfType(type))
      OBVIOUS
    <3>1. PICK p \in DOMAIN stored : m = stored[p]
      BY DEF ToSet
    <3>2. PICK k \in DOMAIN OfType(type) : OfType(type)[k] = m
      BY <3>1, OfTypeIs
    <3>3. QED BY <3>2 DEF ToSet
  <2>2. QED BY <2>1, AnchorIsLast
<1>4. \A m \in ToSet(stored) :
         TypeOf(m) = type => (m.stamp < end <=> (stop # <<>> => m.stamp <= Bound(stop, Anchor(type))))
  <2>1. CASE stop = <<>>
    BY <1>2, <1>3, <2>1
  <2>2. CASE \E s \in Int : stop = <<"from", s>>
    <3>1. PICK s \in Int : stop = <<"from", s>>
      BY <2>2
    <3>2. /\ stop # <<>> /\ Bound(stop, now) = now + s
          /\ Bound(stop, Anchor(type)) = Anchor(type) + s
      BY <3>1, NotEmpty DEF Bound
    <3>3. end = Anchor(type) + 1 + s
      BY <1>2, <3>2
    <3>4. \A t \in Nat : t < Anchor(type) + 1 + s <=> t <= Anchor(type) + s
      BY <1>2
    <3>5. QED BY <1>3, <3>2, <3>3, <3>4
  <2>3. QED BY <2>1, <2>2
<1>5. /\ \A p \in Points : \E m \in ToSet(stored) : p = Point(m)
      /\ \A m \in ToSet(stored) : \E p \in Points : SamePlace(p, Point(m))
  BY PointsAre, LenProperties DEF PointsAfter, ToSet
<1>6. \A m : /\ Part(m).device = m.device /\ Part(m).stamp = m.stamp
             /\ Part(m).about = About(m)
             /\ RowOf(m).device = m.device /\ RowOf(m).about = About(m)
             /\ Point(m).tags = <<m.device, About(m)>> /\ Point(m).time = m.stamp
  BY DEF Part, RowOf, Point
<1>7. \A m \in ToSet(stored) :
         m \in left <=> /\ TypeOf(m) = type /\ m.stamp >= Anchor(type) - back /\ m.stamp < end
                        /\ device # None => m.device = device
                        /\ about # None => About(m) = about
  BY <1>2, <1>4, <1>6 DEF Left, InRange, Wanted
<1>8. left \subseteq ToSet(stored) /\ \A m \in left : TypeOf(m) = type
  BY DEF Left
<1> HIDE DEF start, end, now, left
<1>9. ASSUME NEW p \in hits PROVE DatabaseRow(p) \in held
  <2>1. PICK m \in ToSet(stored) : p = Point(m)
    BY <1>5
  <2>2. TypeOf(m) = type /\ DatabaseRow(p) = Part(m)
    BY <2>1, PointIs
  <2>3. m.stamp \in Nat /\ now - back <= m.stamp /\ m.stamp < end
    BY <1>2, <1>3, <1>6, <2>1, <2>2
  <2>4. m.stamp >= Anchor(type) - back
    BY <1>2, <2>3 DEF now
  <2>5. /\ device # None => m.device = device
        /\ about # None => About(m) = about
    <3>1. /\ device # None => p.tags[1] = device
          /\ about # None => p.tags[2] = about
      OBVIOUS
    <3>2. p.tags = <<m.device, About(m)>>
      BY <1>6, <2>1
    <3>3. p.tags[1] = m.device /\ p.tags[2] = About(m)
      BY <3>2
    <3> HIDE DEF hits
    <3>4. QED BY <3>1, <3>3
  <2>6. m \in left
    BY <1>7, <2>2, <2>3, <2>4, <2>5
  <2>7. Part(m).stamp >= now - back
    BY <1>2, <1>6, <2>3
  <2>8. QED BY <1>1, <2>2, <2>6, <2>7
<1>10. ASSUME NEW row \in held PROVE \E p \in hits : DatabaseRow(p) = row
  <2>1. PICK m \in left : row = Part(m)
    BY <1>1
  <2>2. /\ m \in ToSet(stored) /\ TypeOf(m) = type /\ m.stamp >= now - back /\ m.stamp < end
        /\ device # None => m.device = device
        /\ about # None => About(m) = about
    BY <1>6, <1>7, <1>8, <2>1
  <2>3. PICK p \in Points : SamePlace(p, Point(m))
    BY <1>5, <2>2
  <2>4. p.measurement = type /\ p.tags = <<m.device, About(m)>> /\ p.time = m.stamp
    BY <1>6, <2>2, <2>3, PointIs DEF SamePlace
  <2>5. Bound(start, now) <= m.stamp
    BY <1>2, <1>3, <2>2
  <2>6. p \in hits
    BY <2>2, <2>4, <2>5
  <2>7. DatabaseRow(p) = row
    BY <2>1, <2>4 DEF DatabaseRow, Part
  <2>8. QED BY <2>6, <2>7
<1>11. {DatabaseRow(p) : p \in hits} = held
  <2> HIDE DEF hits, held
  <2>1. QED BY <1>9, <1>10
<1>12. hits = Found(type, device, about, back, stop)
  BY DEF start, end, now, Found
<1>13. held = HeldSince(type, device, about, back, stop)
  BY DEF start, now, HeldSince
<1> HIDE DEF hits, held
<1>14. QED BY <1>11, <1>12, <1>13 DEF FoundRows

\* The oldest rows of each series.
Cut(rows, limit) == {row \in rows : Cardinality(Older(rows, row)) < SafeLimit(limit)}

LEMMA FluxRelates ==
    ASSUME stored \in Seq(Message), NEW type \in Types, NEW device, NEW about,
           NEW back \in Nat, NEW stop, stop = <<>> \/ \E s \in Int : stop = <<"from", s>>,
           NEW limit
    PROVE  AnswersRelate(Points, type, device, about, back, stop, limit)
<1> DEFINE now == Anchor(type) + 1
           start == <<"from", -back>>
           rows == FoundRows(type, device, about, back, stop)
           held == HeldSince(type, device, about, back, stop)
           refused == ~IsDuration(start) \/ (stop # <<>> /\ ~IsDuration(stop))
           flux == FluxQuery(Points, type, device, about, start, stop, limit, now)
<1>0. SUFFICES ASSUME Len(OfType(type)) <= MaxRows
               PROVE  ~flux.refused /\ flux.rows = Cut(held, limit)
  <2>1. held = {row \in Held(type, device, about, start, stop) : row.stamp >= now - back}
    BY DEF HeldSince
  <2>2. AnswersRelate(Points, type, device, about, back, stop, limit)
          = (Len(OfType(type)) <= MaxRows => ~flux.refused /\ flux.rows = Cut(held, limit))
    BY <2>1 DEF AnswersRelate, Cut
  <2>3. QED BY <2>2
<1>1. rows = held
  BY <1>0, FluxHits
<1>2. ~refused
  BY DEF IsDuration
<1>3. flux = [refused |-> refused, rows |-> IF refused THEN {} ELSE Cut(rows, limit)]
  BY DEF FluxQuery, Found, FoundRows, Cut
<1> HIDE DEF refused, rows, held, flux
<1>4. flux.rows = IF refused THEN {} ELSE Cut(rows, limit)
  <2>1. \A b, R : [refused |-> b, rows |-> R].rows = R
    BY Zenon
  <2>2. QED BY <1>3, <2>1, Zenon
<1>5. flux.refused = refused
  <2>1. \A b, R : [refused |-> b, rows |-> R].refused = b
    BY Zenon
  <2>2. QED BY <1>3, <2>1, Zenon
<1>6. ~flux.refused
  BY <1>2, <1>5, Zenon
<1>7. flux.rows = Cut(rows, limit)
  <2>1. QED BY <1>2, <1>4, Zenon
<1>8. QED BY <1>1, <1>6, <1>7

\* Whatever a point replaces, the row that it gives is still there: the database finds
\* the rows of the memory, up to its limit, which counts in each series from the
\* oldest; and both read a status alike.
THEOREM TheWritersAgree == Spec => []WritersAgree
<1>1. TypeOK => WritersAgree
  <2> SUFFICES ASSUME TypeOK PROVE WritersAgree
    OBVIOUS
  <2>1. stored \in Seq(Message)
    BY DEF TypeOK
  <2>2. OnlineIsReadAlike
    BY ReadAlike DEF OnlineIsReadAlike
  <2> DEFINE Asked == {<<1, <<>>, MaxRows>>, <<3, <<>>, 1>>, <<3, <<"from", -1>>, MaxRows>>}
  <2>3. ASSUME NEW q \in Questions, NEW asked \in Asked
        PROVE  AnswersRelate(Points, q[1], q[2], q[3], asked[1], asked[2], asked[3])
    <3>1. q[1] \in Types
      BY DEF Questions, Types
    <3>2. asked[1] \in Nat
      OBVIOUS
    <3>3. asked[2] = <<>> \/ \E s \in Int : asked[2] = <<"from", s>>
      <4>1. asked[2] = <<>> \/ asked[2] = <<"from", -1>>
        OBVIOUS
      <4>2. -1 \in Int
        OBVIOUS
      <4>3. QED BY <4>1, <4>2
    <3> HIDE DEF Asked
    <3>4. QED BY <2>1, <3>1, <3>2, <3>3, FluxRelates
  <2>4. QED
    <3> HIDE DEF OnlineIsReadAlike, AnswersRelate, Questions
    <3>1. \A q \in Questions, asked \in Asked :
             AnswersRelate(Points, q[1], q[2], q[3], asked[1], asked[2], asked[3])
      BY <2>3
    <3>2. QED BY <2>2, <3>1 DEF WritersAgree
<1>2. QED BY <1>1, TypeCorrect, PTL

-----------------------------------------------------------------------------
(* The consumer's connection and threads: ConsumerLifecycle *)

\* A thread that is alive is the one _reconnect_thread names.
OnlyCurrentAlive == \A t \in Thread : Alive(t) => t = current

\* The client's thread runs only between connect and loop_stop, and the event
\* loop is known to the consumer until stop has forgotten it.  A message on its
\* way to the loop has a place there.
PhaseInv == /\ client # "off" => main \in {"serving", "forgetLoop", "loopStop"}
            /\ main \in {"connecting", "serving", "forgetLoop"} => eventLoop
            /\ client = "inPlace" => main = "loopStop"
            /\ main \in {"connecting", "serving"} => ~stopEvent
            /\ client \in {"submit", "running", "handOver"} => scheduled < MaxPending

LifecycleInv == LifecycleTypeOK /\ OnlyCurrentAlive /\ PhaseInv

LEMMA LifecycleInitInv == LifecycleInit => LifecycleInv
<1> SUFFICES ASSUME LifecycleInit PROVE LifecycleInv
  OBVIOUS
<1> USE DEF LifecycleInit
<1>1. /\ scheduled \in 0..MaxPending
      /\ delay \in [Thread -> Nat] /\ attempts \in [Thread -> Nat]
  BY DelayAssumption, LifecycleBoundAssumption
<1>2. /\ subscribed \in BOOLEAN /\ stopEvent \in BOOLEAN /\ eventLoop \in BOOLEAN
      /\ overlooked \in BOOLEAN /\ gaveUp \in BOOLEAN
  BY Zenon
<1>3. /\ main \in MainLocation /\ client \in ClientLocation
      /\ link \in {"down", "up", "lost"}
      /\ pc \in [Thread -> ThreadLocation]
      /\ current \in Thread \cup {NoThread}
  BY DEF MainLocation, ClientLocation, ThreadLocation
<1>4. OnlyCurrentAlive /\ PhaseInv
  BY DEF OnlyCurrentAlive, PhaseInv, Alive
<1> QED BY <1>1, <1>2, <1>3, <1>4 DEF LifecycleInv, LifecycleTypeOK

\* What next-state steps there are, one by one.
LEMMA LifecycleNextCases ==
  ASSUME LifecycleNext
  PROVE  \/ Start \/ Connect \/ ConnectRaises \/ StopConsumer
         \/ RunNext \/ ForgetLoop \/ LoopStop \/ Disconnect \/ Join
         \/ OnConnect \/ OnConnectRefused \/ OnDisconnect
         \/ ScheduleStopped \/ LeaveToThread \/ (\E t \in Thread : StartThread(t))
         \/ MessageArrives \/ FirstRead \/ SecondRead \/ HandOver \/ RunInPlace
         \/ (\E t \in Thread :
               \/ Check(t) \/ Reconnect(t) \/ ReconnectRaises(t) \/ SubscribeRaises(t)
               \/ WaitIsOver(t) \/ WaitIsStopped(t)
               \/ SubscribeAgain(t) \/ EndThread(t))
         \/ Break
  BY DEF LifecycleNext, MainStep, ClientStep, ThreadStep

\* The steps of the main thread and of the client's thread, but for starting a
\* thread.
LEMMA MainAndClientKeepInv ==
  ASSUME LifecycleInv,
         \/ Start \/ Connect \/ ConnectRaises \/ StopConsumer
         \/ RunNext \/ ForgetLoop \/ LoopStop \/ Disconnect \/ Join
         \/ OnConnect \/ OnConnectRefused \/ OnDisconnect
         \/ ScheduleStopped \/ LeaveToThread
         \/ MessageArrives \/ FirstRead \/ SecondRead \/ HandOver \/ RunInPlace \/ Break
  PROVE  LifecycleInv'
<1> USE DEF LifecycleInv, LifecycleTypeOK, mainVars, linkVars, threadVars, lossHistory,
            MainLocation, ClientLocation, ThreadLocation, Stopping
<1>1. LifecycleTypeOK'
  <2>1. CASE Start \/ Connect \/ ConnectRaises
    <3>1. eventLoop' \in BOOLEAN /\ stopEvent' \in BOOLEAN
          /\ subscribed' \in BOOLEAN /\ overlooked' \in BOOLEAN /\ gaveUp' \in BOOLEAN
      BY <2>1, Zenon DEF Start, Connect, ConnectRaises
    <3> QED BY <2>1, <3>1 DEF Start, Connect, ConnectRaises
  <2>2. CASE StopConsumer
    <3>1. stopEvent' \in BOOLEAN
      BY <2>2, Zenon DEF StopConsumer
    <3>2. pc' \in [Thread -> ThreadLocation]
      BY <2>2 DEF StopConsumer
    <3> QED BY <2>2, <3>1, <3>2 DEF StopConsumer
  <2>3. CASE RunNext \/ ForgetLoop \/ LoopStop \/ Disconnect \/ Join
    <3>1. eventLoop' \in BOOLEAN /\ subscribed' \in BOOLEAN
      BY <2>3, Zenon DEF RunNext, ForgetLoop, LoopStop, Disconnect, Join
    <3>2. scheduled' \in 0..MaxPending
      BY <2>3, LifecycleBoundAssumption
         DEF RunNext, ForgetLoop, LoopStop, Disconnect, Join
    <3> QED BY <2>3, <3>1, <3>2
            DEF RunNext, ForgetLoop, LoopStop, CallbackIsOver, Disconnect, Join
  <2>4. CASE OnConnect \/ OnConnectRefused \/ OnDisconnect \/ Break
    <3>1. subscribed' \in BOOLEAN
      BY <2>4, Zenon DEF OnConnect, Subscribe, OnConnectRefused, OnDisconnect, Break
    <3> QED BY <2>4, <3>1 DEF OnConnect, OnConnectRefused, OnDisconnect, Break
  <2>5. CASE ScheduleStopped \/ LeaveToThread
    <3> DEFINE lateLoss == pc[current] \in {"subscribe", "ending"}
    <3>1. lateLoss = TRUE \/ lateLoss = FALSE
      OBVIOUS
    <3>2. overlooked' \in BOOLEAN
      <4> HIDE DEF LifecycleTypeOK
      <4>1. CASE ScheduleStopped
        BY <4>1, Zenon DEF ScheduleStopped, LifecycleTypeOK
      <4>2. CASE LeaveToThread
        BY <4>2, <3>1, Zenon DEF LeaveToThread
      <4> QED BY <2>5, <4>1, <4>2
    <3> QED BY <2>5, <3>2 DEF ScheduleStopped, LeaveToThread
  <2>6. CASE MessageArrives \/ FirstRead \/ SecondRead \/ RunInPlace
    <3>1. client' \in ClientLocation
      BY <2>6 DEF MessageArrives, FirstRead, SecondRead, RunInPlace
    <3> QED BY <2>6, <3>1 DEF MessageArrives, FirstRead, SecondRead, RunInPlace
  <2>7. CASE HandOver
    <3>1. scheduled' \in 0..MaxPending
      BY <2>7, LifecycleBoundAssumption DEF HandOver, PhaseInv
    <3> QED BY <2>7, <3>1 DEF HandOver
  <2> QED BY <2>1, <2>2, <2>3, <2>4, <2>5, <2>6, <2>7
<1>2. OnlyCurrentAlive'
  BY DEF OnlyCurrentAlive, Alive, Start, Connect, ConnectRaises, StopConsumer, RunNext,
         ForgetLoop, LoopStop, Disconnect, Join, OnConnect, OnConnectRefused,
         OnDisconnect, ScheduleStopped, LeaveToThread, MessageArrives, FirstRead,
         SecondRead, HandOver, RunInPlace, Break
<1>3. PhaseInv'
  BY LifecycleBoundAssumption
     DEF PhaseInv, Start, Connect, ConnectRaises, StopConsumer, RunNext,
         ForgetLoop, LoopStop, CallbackIsOver, Disconnect, Join, OnConnect,
         OnConnectRefused, OnDisconnect, ScheduleStopped, LeaveToThread,
         MessageArrives, FirstRead, SecondRead, HandOver, RunInPlace, Break
<1> QED BY <1>1, <1>2, <1>3

LEMMA StartThreadKeepsInv ==
  ASSUME LifecycleInv, NEW t \in Thread, StartThread(t)
  PROVE  LifecycleInv'
<1> USE DEF LifecycleInv, LifecycleTypeOK, mainVars, linkVars, StartThread
<1>1. LifecycleTypeOK'
  BY DEF ClientLocation, ThreadLocation
<1>2. OnlyCurrentAlive'
  BY ThreadAssumption DEF OnlyCurrentAlive, SomeoneReconnects, Alive
<1>3. PhaseInv'
  BY DEF PhaseInv
<1> QED BY <1>1, <1>2, <1>3

LEMMA DelayIsNat == \A d \in Nat : NextDelay(d) \in Nat
  BY DelayAssumption DEF NextDelay

LEMMA CountIsNat == \A n \in Nat : Counted(n) \in Nat
  BY DEF Counted

LEMMA ThreadKeepsInv ==
  ASSUME LifecycleInv, NEW t \in Thread,
         \/ Check(t) \/ Reconnect(t) \/ ReconnectRaises(t) \/ SubscribeRaises(t)
         \/ WaitIsOver(t) \/ WaitIsStopped(t)
         \/ SubscribeAgain(t) \/ EndThread(t)
  PROVE  LifecycleInv'
<1> USE DEF LifecycleInv, LifecycleTypeOK, mainVars, linkVars, lossHistory, Go,
            ThreadLocation
<1>1. LifecycleTypeOK'
  <2>1. CASE Check(t)
    <3>1. gaveUp' \in BOOLEAN
      BY <2>1, Zenon DEF Check
    <3>2. pc' \in [Thread -> ThreadLocation]
      BY <2>1 DEF Check
    <3> QED BY <2>1, <3>1, <3>2 DEF Check
  <2>2. CASE Reconnect(t) \/ SubscribeAgain(t)
    BY <2>2 DEF Reconnect, SubscribeAgain
  <2>3. CASE ReconnectRaises(t) \/ SubscribeRaises(t)
    <3>1. gaveUp' \in BOOLEAN
      BY <2>3, Zenon DEF ReconnectRaises, SubscribeRaises, Fail
    <3>2. attempts' \in [Thread -> Nat]
      BY <2>3, CountIsNat DEF ReconnectRaises, SubscribeRaises, Fail
    <3>3. pc' \in [Thread -> ThreadLocation]
      BY <2>3 DEF ReconnectRaises, SubscribeRaises, Fail
    <3> QED BY <2>3, <3>1, <3>2, <3>3 DEF ReconnectRaises, SubscribeRaises, Fail
  <2>4. CASE WaitIsOver(t)
    BY <2>4, DelayIsNat DEF WaitIsOver
  <2>5. CASE WaitIsStopped(t)
    BY <2>5 DEF WaitIsStopped
  <2>6. CASE EndThread(t)
    BY <2>6, DelayAssumption DEF EndThread
  <2> QED BY <2>1, <2>2, <2>3, <2>4, <2>5, <2>6
<1>2. OnlyCurrentAlive'
  BY DEF OnlyCurrentAlive, Alive, Check, Reconnect, ReconnectRaises, SubscribeRaises,
         Fail, WaitIsOver, WaitIsStopped, SubscribeAgain, EndThread
<1>3. PhaseInv'
  BY DEF PhaseInv, Check, Reconnect, ReconnectRaises, SubscribeRaises, Fail,
         WaitIsOver, WaitIsStopped, SubscribeAgain, EndThread
<1> QED BY <1>1, <1>2, <1>3

LEMMA LifecycleStepKeepsInv ==
  LifecycleInv /\ [LifecycleNext]_lifecycleVars => LifecycleInv'
<1> SUFFICES ASSUME LifecycleInv, [LifecycleNext]_lifecycleVars PROVE LifecycleInv'
  OBVIOUS
<1>1. CASE UNCHANGED lifecycleVars
  BY <1>1 DEF lifecycleVars, mainVars, linkVars, threadVars, lossHistory,
              LifecycleInv, LifecycleTypeOK, OnlyCurrentAlive, PhaseInv, Alive
<1>2. CASE LifecycleNext
  BY <1>2, LifecycleNextCases, MainAndClientKeepInv, StartThreadKeepsInv, ThreadKeepsInv
<1> QED BY <1>1, <1>2

THEOREM LifecycleInvariant == LifecycleSpec => []LifecycleInv
  BY LifecycleInitInv, LifecycleStepKeepsInv, PTL DEF LifecycleSpec

\* The consumer's state has the expected types.
THEOREM LifecycleTypeCorrect == LifecycleSpec => []LifecycleTypeOK
<1>1. LifecycleInv => LifecycleTypeOK
  BY DEF LifecycleInv
<1> QED BY <1>1, LifecycleInvariant, PTL

\* At most one thread reconnects, however many there could be.
THEOREM OneThreadReconnects == LifecycleSpec => []OneReconnectThread
<1>1. LifecycleInv => OneReconnectThread
  BY DEF LifecycleInv, OnlyCurrentAlive, OneReconnectThread
<1> QED BY <1>1, LifecycleInvariant, PTL

\* A message is handled outside the event loop only while the loop stands still in stop,
\* so that no two threads handle messages at once.
THEOREM OneThreadHandles == LifecycleSpec => []HandledInOneThread
<1>1. LifecycleInv => HandledInOneThread
  BY DEF LifecycleInv, PhaseInv, HandledInOneThread
<1> QED BY <1>1, LifecycleInvariant, PTL

-----------------------------------------------------------------------------
(* A reported loss is attended to. *)

LEMMA InitAttended == LifecycleInit => DisconnectIsAttended
  BY DEF LifecycleInit, DisconnectIsAttended

\* Steps of the main and of the client's thread: only on_disconnect makes the
\* connection "down" while the consumer serves, and it goes on to "schedule".
LEMMA ClientKeepsAttended ==
  ASSUME LifecycleInv, DisconnectIsAttended,
         \/ Start \/ Connect \/ ConnectRaises \/ StopConsumer
         \/ RunNext \/ ForgetLoop \/ LoopStop \/ Disconnect \/ Join
         \/ OnConnect \/ OnConnectRefused \/ OnDisconnect
         \/ MessageArrives \/ FirstRead \/ SecondRead \/ HandOver \/ RunInPlace \/ Break
  PROVE  DisconnectIsAttended'
  BY DEF DisconnectIsAttended, Working, mainVars, linkVars, threadVars, lossHistory,
         Start, Connect, ConnectRaises, StopConsumer, RunNext,
         ForgetLoop, LoopStop, Disconnect, Join, OnConnect, OnConnectRefused,
         OnDisconnect, MessageArrives, FirstRead, SecondRead, HandOver, RunInPlace, Break

LEMMA ScheduleKeepsAttended ==
  ASSUME LifecycleInv, DisconnectIsAttended,
         ScheduleStopped \/ LeaveToThread \/ \E t \in Thread : StartThread(t)
  PROVE  DisconnectIsAttended'
<1> USE DEF DisconnectIsAttended, mainVars, linkVars, threadVars, lossHistory
<1>1. CASE ScheduleStopped
  BY <1>1 DEF ScheduleStopped, LifecycleInv, PhaseInv
<1>2. CASE LeaveToThread
  <2>1. current \in Thread /\ pc[current] \in ThreadLocation \ {"dead"}
    BY <1>2 DEF LeaveToThread, SomeoneReconnects, Alive, LifecycleInv, LifecycleTypeOK
  <2>2. Working(current)' \/ overlooked'
    BY <1>2, <2>1 DEF LeaveToThread, Working, ThreadLocation
  <2> QED BY <2>1, <2>2, <1>2 DEF LeaveToThread
<1>3. ASSUME NEW t \in Thread, StartThread(t) PROVE DisconnectIsAttended'
  BY <1>3 DEF StartThread, Working, LifecycleInv, LifecycleTypeOK
<1> QED BY <1>1, <1>2, <1>3

\* A thread stops working only when it has connected, sees the stop event, or is
\* at its limit.
LEMMA ThreadKeepsAttended ==
  ASSUME LifecycleInv, DisconnectIsAttended, NEW t \in Thread,
         \/ Check(t) \/ Reconnect(t) \/ ReconnectRaises(t) \/ SubscribeRaises(t)
         \/ WaitIsOver(t) \/ WaitIsStopped(t)
         \/ SubscribeAgain(t) \/ EndThread(t)
  PROVE  DisconnectIsAttended'
<1> USE DEF DisconnectIsAttended, Working, mainVars, linkVars, lossHistory, Go,
            LifecycleInv, LifecycleTypeOK, PhaseInv
<1>1. CASE Check(t)
  BY <1>1 DEF Check, StopSeen
<1>2. CASE Reconnect(t)
  BY <1>2 DEF Reconnect
<1>3. CASE ReconnectRaises(t) \/ SubscribeRaises(t)
  <2> DEFINE atLimit == MaxAttempts # NoLimit /\ attempts[t] + 1 >= MaxAttempts
  <2>1. CASE atLimit
    BY <1>3, <2>1 DEF ReconnectRaises, SubscribeRaises, Fail
  <2>2. CASE ~atLimit
    BY <1>3, <2>2 DEF ReconnectRaises, SubscribeRaises, Fail
  <2> QED BY <2>1, <2>2
<1>4. CASE WaitIsOver(t)
  BY <1>4 DEF WaitIsOver
<1>5. CASE WaitIsStopped(t)
  BY <1>5 DEF WaitIsStopped, StopSeen
<1>6. CASE SubscribeAgain(t)
  BY <1>6 DEF SubscribeAgain
<1>7. CASE EndThread(t)
  BY <1>7 DEF EndThread
<1> QED BY <1>1, <1>2, <1>3, <1>4, <1>5, <1>6, <1>7

\* While the consumer serves, a reported loss of the connection has a thread that
\* attempts to repair it, but for the two exceptions the property names.
THEOREM LossIsAttended == LifecycleSpec => []DisconnectIsAttended
<1>1. LifecycleInv /\ DisconnectIsAttended /\ [LifecycleNext]_lifecycleVars
        => DisconnectIsAttended'
  <2> SUFFICES ASSUME LifecycleInv, DisconnectIsAttended, [LifecycleNext]_lifecycleVars
               PROVE  DisconnectIsAttended'
    OBVIOUS
  <2>1. CASE UNCHANGED lifecycleVars
    BY <2>1 DEF lifecycleVars, mainVars, linkVars, threadVars, lossHistory,
                DisconnectIsAttended, Working
  <2>2. CASE LifecycleNext
    BY <2>2, LifecycleNextCases, ClientKeepsAttended, ScheduleKeepsAttended,
       ThreadKeepsAttended
  <2> QED BY <2>1, <2>2
<1> QED BY <1>1, InitAttended, LifecycleInvariant, PTL DEF LifecycleSpec
=============================================================================
