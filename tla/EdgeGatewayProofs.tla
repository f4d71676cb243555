------------------------- MODULE EdgeGatewayProofs -------------------------
(***************************************************************************)
(* Proofs about EdgeGateway, for any number of events, crashes, refused    *)
(* publishes and cache timeouts.                                           *)
(***************************************************************************)
EXTENDS EdgeGateway, SequenceTheorems, TLAPS

USE TimeAssumption, BoundsAssumption, BackoffAssumption

USE DEF processor, gateway, flush, history

-----------------------------------------------------------------------------
(* Types *)

LEMMA NextEventType ==
  ASSUME TypeOK, NEW t \in Time PROVE NextEvent(t) \in Event
BY DEF TypeOK, NextEvent, Event

LEMMA StoredWithType ==
  ASSUME TypeOK, NEW e \in Event PROVE StoredWith(e) \in SUBSET Event
BY DEF TypeOK, StoredWith

\* Backing off doubles the delay up to the configured maximum, and never falls
\* below the configured minimum.
LEMMA LongerIsBounded ==
  ASSUME NEW b \in BackoffInitial..BackoffMax
  PROVE  Longer(b) \in BackoffInitial..BackoffMax
BY DEF Longer

LEMMA ClientTypes ==
  ASSUME TypeOK, NEW e \in Event, ClientTakes(e) \/ ClientRefuses(e)
  PROVE  /\ taken' \in SUBSET Event /\ broker' \in Seq(Event)
         /\ sentKeys' \in SUBSET Nat /\ doubted' \in SUBSET Event
<1>1. e.seq \in Nat
  BY DEF Event
<1>2. broker' = broker \/ broker' = Append(broker, e)
  BY DEF ClientTakes, ClientRefuses
<1>3. broker' \in Seq(Event)
  BY <1>2 DEF TypeOK
<1>4. taken' \in SUBSET Event /\ sentKeys' \in SUBSET Nat /\ doubted' \in SUBSET Event
  BY <1>1 DEF TypeOK, ClientTakes, ClientRefuses
<1>5. QED BY <1>3, <1>4

\* The flags stay truth values.
FlagsOK == connected \in BOOLEAN /\ connecting \in BOOLEAN

LEMMA FlagsStep == FlagsOK /\ [Next]_vars => FlagsOK'
<1> SUFFICES ASSUME FlagsOK, [Next]_vars PROVE FlagsOK'
  OBVIOUS
<1>1. connected' \in {TRUE, FALSE, connected}
  BY Zenon DEF Next, vars, PublishOffline, PublishOnline, StoreRefused,
     GoesOffline, OnDisconnect, Connect, ConnectFailed, FlushCache, FlushRaises,
     ReadCache, FlushNext, FlushDone, RemoveSent, ForgetKeys, Crash
<1>2. connecting' \in {TRUE, FALSE, connecting}
  BY Zenon DEF Next, vars, PublishOffline, PublishOnline, StoreRefused,
     OnDisconnect, Connect, FlushCache, FlushRaises, ReadCache, FlushNext,
     FlushDone, RemoveSent, ForgetKeys, Crash, NoFlush
<1>3. QED BY <1>1, <1>2, Zenon DEF FlagsOK

\* Every variable keeps its type; the delay between connection attempts stays
\* within its limits.
THEOREM TypeCorrect == Spec => []TypeOK
<1>1. Init => TypeOK
  <2>1. Init => FlagsOK
    BY Zenon DEF Init, FlagsOK
  <2>2. Init => broker \in Seq(Event)
    BY DEF Init
  <2>3. Init => backoff \in BackoffInitial..BackoffMax
    BY DEF Init
  <2>4. QED BY <2>1, <2>2, <2>3 DEF Init, TypeOK, FlagsOK
<1>2. TypeOK /\ [Next]_vars => TypeOK'
  <2> SUFFICES ASSUME TypeOK, [Next]_vars PROVE TypeOK'
    OBVIOUS
  <2> USE DEF TypeOK
  <2>0. connected' \in BOOLEAN /\ connecting' \in BOOLEAN
    BY FlagsStep DEF FlagsOK
  <2>1. ASSUME PublishOffline PROVE TypeOK'
    <3>1. stored' \in SUBSET Event /\ accepted' \in SUBSET Event
      <4>1. CASE UNCHANGED <<stored, accepted>>
        BY <4>1
      <4>2. CASE ~ UNCHANGED <<stored, accepted>>
        <5>1. PICK t \in Time : /\ stored' = StoredWith(NextEvent(t))
                                /\ accepted' = accepted \cup {NextEvent(t)}
          BY <2>1, <4>2 DEF PublishOffline
        <5>2. QED BY <5>1, NextEventType, StoredWithType
      <4>3. QED BY <4>1, <4>2
    <3>2. QED
      BY <2>0, <2>1, <3>1 DEF PublishOffline, MakeEvent, CacheTimesOut
  <2>2. ASSUME PublishOnline PROVE TypeOK'
    <3>1. PICK t \in Time :
            \/ /\ ClientTakes(NextEvent(t))
               /\ accepted' = accepted \cup {NextEvent(t)}
               /\ UNCHANGED <<pc, held>>
            \/ /\ ClientRefuses(NextEvent(t))
               /\ pc' = "store"
               /\ held' = {NextEvent(t)}
               /\ UNCHANGED accepted
      BY <2>2 DEF PublishOnline
    <3>2. /\ taken' \in SUBSET Event /\ broker' \in Seq(Event)
          /\ sentKeys' \in SUBSET Nat /\ doubted' \in SUBSET Event
      BY <3>1, NextEventType, ClientTypes
    <3>3. QED
      BY <2>0, <2>2, <3>1, <3>2, NextEventType DEF PublishOnline, MakeEvent
  <2>3. ASSUME StoreRefused PROVE TypeOK'
    <3>1. stored' \in SUBSET Event
      BY <2>3, StoredWithType DEF StoreRefused
    <3>2. QED BY <2>0, <2>3, <3>1 DEF StoreRefused, GoesOffline, CacheTimesOut
  <2>4. ASSUME OnDisconnect \/ FlushCache PROVE TypeOK'
    BY <2>0, <2>4 DEF OnDisconnect, FlushCache
  <2>5. ASSUME Connect PROVE TypeOK'
    <3>1. backoff' \in {BackoffInitial, Longer(backoff)}
      BY <2>5 DEF Connect, ConnectFailed
    <3>2. backoff' \in BackoffInitial..BackoffMax
      BY <3>1, LongerIsBounded
    <3>3. QED BY <2>0, <2>5, <3>2 DEF Connect
  <2>6. ASSUME FlushRaises PROVE TypeOK'
    <3>1. backoff' = Longer(backoff) \/ backoff' = backoff
      BY <2>6, Zenon DEF FlushRaises, ConnectFailed
    <3>2. backoff' \in BackoffInitial..BackoffMax
      BY <3>1, LongerIsBounded
    <3>3. leftOver' \in SUBSET Event
      BY <2>6 DEF FlushRaises
    <3>4. QED
      BY <2>0, <2>6, <3>2, <3>3 DEF FlushRaises, CacheTimesOut, NoFlush
  <2>7. ASSUME ReadCache PROVE TypeOK'
    BY <2>0, <2>7 DEF ReadCache
  <2>8. ASSUME FlushNext PROVE TypeOK'
    <3>1. PICK e \in queue : SkipSent(e) \/ SendCached(e) \/ StopFlush(e)
      BY <2>0, <2>8 DEF FlushNext
    <3>2. e \in Event
      BY <3>1
    <3>3. /\ taken' \in SUBSET Event /\ broker' \in Seq(Event)
          /\ sentKeys' \in SUBSET Nat /\ doubted' \in SUBSET Event
      BY <3>1, <3>2, ClientTypes DEF SkipSent, SendCached, StopFlush
    <3>4. QED
      BY <2>0, <2>8, <3>1, <3>3 DEF FlushNext, SkipSent, SendCached, StopFlush
  <2>9. ASSUME FlushDone PROVE TypeOK'
    BY <2>0, <2>9 DEF FlushDone
  <2>10. ASSUME RemoveSent PROVE TypeOK'
    BY <2>0, <2>10 DEF RemoveSent, Without
  <2>11. ASSUME ForgetKeys PROVE TypeOK'
    BY <2>0, <2>11 DEF ForgetKeys, NoFlush
  <2>12. ASSUME Crash PROVE TypeOK'
    <3>1. backoff' \in BackoffInitial..BackoffMax
      BY <2>0, <2>12 DEF Crash
    <3>2. /\ sentKeys' = {} /\ queue' = {} /\ flushed' = {} /\ held' = {}
          /\ connected' \in BOOLEAN /\ connecting' \in BOOLEAN
      BY <2>0, <2>12 DEF Crash, NoFlush
    <3>3. /\ seq' \in Nat /\ crashes' \in Nat /\ pc' = "idle"
          /\ UNCHANGED <<made, stored, taken, broker, accepted, doubted,
                         leftOver, timeouts>>
          /\ interrupted' \in SUBSET Event
      BY <2>0, <2>12 DEF Crash
    <3>4. QED BY <3>1, <3>2, <3>3
  <2>13. CASE UNCHANGED vars
    BY <2>0, <2>13 DEF vars
  <2>14. QED
    BY <2>1, <2>2, <2>3, <2>4, <2>5, <2>6, <2>7, <2>8, <2>9, <2>10, <2>11,
       <2>12, <2>13 DEF Next
<1>3. QED BY <1>1, <1>2, PTL DEF Spec
-----------------------------------------------------------------------------
(* Which events there are *)

\* Made already: in an earlier run, or earlier in this one.
Past(e) == e.run < crashes \/ (e.run = crashes /\ e.seq < seq)

\* An event is known by its run and its number, whatever time its frame was read
\* at.
NumberedApart ==
  /\ \A e \in accepted \cup held : Past(e)
  /\ \A e, f \in accepted \cup held : e.run = f.run /\ e.seq = f.seq => e = f

\* And the thread has events in hand only where publish_event and flush_cache keep
\* them in locals.
MadeInv ==
  /\ NumberedApart
  /\ pc # "store" => held = {}
  /\ pc # "send" => queue = {}
  /\ queue \subseteq stored

\* What is past stays so, and what is made next is not past yet.
LEMMA PastStays ==
  ASSUME TypeOK, [Next]_vars, NEW e \in Event, Past(e) PROVE Past(e)'
<1>1. e.run \in Nat /\ e.seq \in Nat /\ seq \in Nat /\ crashes \in Nat
  BY DEF TypeOK, Event
<1>2. \/ crashes' = crashes /\ seq' \in {seq, seq + 1}
      \/ crashes' = crashes + 1
  BY Zenon DEF Next, vars, PublishOffline, PublishOnline, MakeEvent, StoreRefused,
     OnDisconnect, Connect, FlushCache, FlushRaises, ReadCache, FlushNext,
     FlushDone, RemoveSent, ForgetKeys, Crash
<1>3. CASE crashes' = crashes + 1
  BY <1>1, <1>3 DEF Past
<1>4. CASE crashes' = crashes /\ seq' \in {seq, seq + 1}
  BY <1>1, <1>4 DEF Past
<1>5. QED BY <1>2, <1>3, <1>4

LEMMA NextEventIsNew ==
  ASSUME TypeOK, NEW t \in Time, NEW e, e = NextEvent(t)
  PROVE  /\ e \in Event /\ e.run = crashes /\ e.seq = seq /\ e.ts = t
         /\ \A f \in Event : Past(f) <=> MadeBefore(f, e)
         /\ ~Past(e)
<1>1. e \in Event /\ e.run = crashes /\ e.seq = seq /\ e.ts = t
  BY NextEventType DEF NextEvent
<1>2. crashes \in Nat /\ seq \in Nat
  BY DEF TypeOK
<1>3. QED BY <1>1, <1>2 DEF Past, MadeBefore

\* The events a step adds to those accepted or in hand: at most the one it made.
LEMMA AtMostOneNew ==
  ASSUME TypeOK, Next
  PROVE  \/ accepted' \cup held' \subseteq accepted \cup held
         \/ /\ crashes' = crashes /\ seq' = seq + 1
            /\ \E t \in Time : accepted' \cup held'
                                 \subseteq accepted \cup held \cup {NextEvent(t)}
<1>1. CASE PublishOffline
  BY <1>1, Zenon DEF PublishOffline, MakeEvent
<1>2. CASE PublishOnline
  <2>1. PICK t \in Time :
          \/ accepted' = accepted \cup {NextEvent(t)} /\ held' = held
          \/ held' = {NextEvent(t)} /\ accepted' = accepted
    BY <1>2 DEF PublishOnline
  <2>2. crashes' = crashes /\ seq' = seq + 1
    BY <1>2 DEF PublishOnline, MakeEvent
  <2>3. QED BY <2>1, <2>2
<1>3. CASE StoreRefused
  BY <1>3 DEF StoreRefused
<1>4. CASE ~(PublishOffline \/ PublishOnline \/ StoreRefused)
  BY <1>4 DEF Next, OnDisconnect, Connect, FlushCache, FlushRaises, ReadCache,
     FlushNext, FlushDone, RemoveSent, ForgetKeys, Crash
<1>5. QED BY <1>1, <1>2, <1>3, <1>4

LEMMA MadeInit == Init => MadeInv
BY DEF Init, MadeInv, NumberedApart

LEMMA MadeStep == TypeOK /\ MadeInv /\ [Next]_vars => MadeInv'
<1> SUFFICES ASSUME TypeOK, MadeInv, [Next]_vars PROVE MadeInv'
  OBVIOUS
<1>1. accepted \cup held \subseteq Event
  BY DEF TypeOK
<1>2. ASSUME NEW e, e \in accepted \cup held PROVE Past(e)'
  BY <1>1, <1>2, PastStays DEF MadeInv, NumberedApart
<1>3. ASSUME Next PROVE NumberedApart'
  <2>1. CASE accepted' \cup held' \subseteq accepted \cup held
    BY <1>2, <2>1 DEF MadeInv, NumberedApart
  <2>2. CASE /\ crashes' = crashes /\ seq' = seq + 1
             /\ \E t \in Time : accepted' \cup held'
                                  \subseteq accepted \cup held \cup {NextEvent(t)}
    <3>1. PICK t \in Time, e \in Event :
             /\ e = NextEvent(t)
             /\ accepted' \cup held' \subseteq accepted \cup held \cup {e}
      BY <2>2, NextEventType
    <3>2. e \in Event /\ e.run = crashes /\ e.seq = seq /\ ~Past(e)
      BY <3>1, NextEventIsNew
    <3>3. Past(e)'
      BY <2>2, <3>2 DEF Past, TypeOK
    <3>4. \A f \in accepted \cup held : ~(f.run = crashes /\ f.seq = seq)
      BY <1>1, <3>2 DEF MadeInv, NumberedApart, Past, TypeOK, Event
    <3>5. QED BY <1>2, <3>1, <3>2, <3>3, <3>4 DEF MadeInv, NumberedApart
  <2>3. QED BY <1>3, <2>1, <2>2, AtMostOneNew
<1>4. ASSUME UNCHANGED vars PROVE NumberedApart'
  BY <1>4 DEF vars, MadeInv, NumberedApart, Past
<1>5. NumberedApart'
  BY <1>3, <1>4
<1>6. /\ pc' # "store" => held' = {}
      /\ pc' # "send" => queue' = {}
      /\ queue' \subseteq stored'
  <2>1. CASE PublishOffline
    BY <2>1 DEF PublishOffline, MakeEvent, MadeInv, StoredWith
  <2>2. CASE PublishOnline
    <3>1. /\ pc = "idle"
          /\ queue' = queue /\ stored' = stored
          /\ (pc' = pc /\ held' = held) \/ pc' = "store"
      BY <2>2 DEF PublishOnline, MakeEvent
    <3>2. QED BY <3>1 DEF MadeInv
  <2>3. CASE StoreRefused
    BY <2>3 DEF StoreRefused, MadeInv, StoredWith
  <2>4. CASE FlushNext
    <3>1. PICK e \in queue : SkipSent(e) \/ SendCached(e) \/ StopFlush(e)
      BY <2>4 DEF FlushNext
    <3>2. QED BY <2>4, <3>1 DEF FlushNext, SkipSent, SendCached, StopFlush, MadeInv
  <2>5. CASE OnDisconnect \/ FlushCache \/ FlushDone \/ Connect \/ FlushRaises
               \/ ForgetKeys \/ ReadCache \/ RemoveSent \/ Crash
    BY <2>5 DEF OnDisconnect, FlushCache, FlushDone, Connect, FlushRaises,
       ForgetKeys, ReadCache, RemoveSent, Crash, NoFlush, MadeInv
  <2>6. CASE UNCHANGED vars
    BY <2>6 DEF vars, MadeInv
  <2>7. QED BY <2>1, <2>2, <2>3, <2>4, <2>5, <2>6 DEF Next
<1>7. QED BY <1>5, <1>6 DEF MadeInv

LEMMA MadeInvariance == Spec => []MadeInv
BY MadeInit, MadeStep, TypeCorrect, PTL DEF Spec

-----------------------------------------------------------------------------
(* Nothing is lost *)

\* An event publish_event returned for is taken or stored, or its key is that of
\* another run's event.
Kept(e) == Safe(e) \/ \E f \in accepted : f.seq = e.seq /\ f.run # e.run

\* What the gateway handles was accepted before, and what a flush counts as sent
\* has the key of a taken event.
DeliveryInv ==
  /\ taken \subseteq accepted /\ stored \subseteq accepted /\ queue \subseteq accepted
  /\ KeysOf(flushed) \subseteq KeysOf(taken)
  /\ sentKeys \subseteq KeysOf(taken)
  /\ pc = "store" => \E e \in Event : held = {e}
  /\ \A e \in accepted : Kept(e)

\* Storing an event keeps it or finds its key taken by another stored event.
LEMMA StoringKeeps ==
  ASSUME NEW e, NEW S,
         S = StoredWith(e)
  PROVE  stored \subseteq S /\ S \subseteq stored \cup {e}
           /\ (e \in S \/ \E f \in stored : f # e /\ f.seq = e.seq)
BY DEF StoredWith, KeysOf

\* More accepted, taken and stored events: what was kept stays kept.
LEMMA KeptGrows ==
  ASSUME taken \subseteq taken', stored \subseteq stored', accepted \subseteq accepted',
         NEW e, Kept(e)
  PROVE  Kept(e)'
BY DEF Kept, Safe

LEMMA KeysGrow ==
  ASSUME NEW S, NEW T, S \subseteq T PROVE KeysOf(S) \subseteq KeysOf(T)
BY DEF KeysOf

LEMMA DeliveryInit == Init => DeliveryInv
BY DEF Init, DeliveryInv, KeysOf

LEMMA DeliveryStep ==
  TypeOK /\ MadeInv /\ MadeInv' /\ DeliveryInv /\ [Next]_vars => DeliveryInv'
<1> SUFFICES ASSUME TypeOK, MadeInv, MadeInv', DeliveryInv, [Next]_vars
             PROVE  DeliveryInv'
  OBVIOUS
<1> USE DEF DeliveryInv
\* Two events with one key are of two runs: then and after the step.
<1>a. \A e, f \in accepted \cup held : e # f /\ e.seq = f.seq => e.run # f.run
  BY DEF MadeInv, NumberedApart
<1>b. \A e, f \in accepted' : e # f /\ e.seq = f.seq => e.run # f.run
  BY DEF MadeInv, NumberedApart
<1>1. ASSUME PublishOffline PROVE DeliveryInv'
  <2>1. CASE UNCHANGED <<stored, accepted>>
    BY <1>1, <2>1 DEF PublishOffline, MakeEvent, TypeOK, Kept, Safe
  <2>2. CASE ~ UNCHANGED <<stored, accepted>>
    <3>1. PICK t \in Time, e \in Event : /\ e = NextEvent(t)
                                          /\ stored' = StoredWith(e)
                                          /\ accepted' = accepted \cup {e}
      BY <1>1, <2>2, NextEventType DEF PublishOffline
    <3>2. /\ stored \subseteq stored' /\ stored' \subseteq stored \cup {e}
          /\ (e \in stored' \/ \E f \in stored : f # e /\ f.seq = e.seq)
      BY <3>1, StoringKeeps
    <3>3. taken' = taken
      BY <1>1 DEF PublishOffline
    <3>4. \A f \in accepted : Kept(f)'
      BY <3>1, <3>2, <3>3, KeptGrows
    <3>5. Kept(e)'
      BY <1>b, <3>1, <3>2 DEF Kept, Safe
    <3>6. QED
      BY <1>1, <3>1, <3>2, <3>3, <3>4, <3>5 DEF PublishOffline, MakeEvent, TypeOK
  <2>3. QED BY <2>1, <2>2
<1>2. ASSUME PublishOnline PROVE DeliveryInv'
  <2>1. PICK t \in Time, e \in Event :
          /\ e = NextEvent(t)
          /\ \/ ClientTakes(e) /\ accepted' = accepted \cup {e} /\ UNCHANGED <<pc, held>>
             \/ ClientRefuses(e) /\ pc' = "store" /\ held' = {e} /\ UNCHANGED accepted
    BY <1>2, NextEventType DEF PublishOnline
  <2>2. e \in Event
    BY <2>1, NextEventType
  <2>3. CASE ClientTakes(e) /\ accepted' = accepted \cup {e} /\ UNCHANGED <<pc, held>>
    <3>1. taken' = taken \cup {e} /\ stored' = stored
      BY <1>2, <2>3 DEF PublishOnline, ClientTakes
    <3>2. \A f \in accepted : Kept(f)'
      BY <2>3, <3>1, KeptGrows
    <3>3. Kept(e)'
      BY <3>1 DEF Kept, Safe
    <3>4. /\ KeysOf(taken) \subseteq KeysOf(taken') /\ e.seq \in KeysOf(taken')
          /\ sentKeys' = sentKeys \cup {e.seq}
      BY <2>3, <3>1, KeysGrow DEF KeysOf, ClientTakes
    <3>5. QED
      BY <1>2, <2>3, <3>1, <3>2, <3>3, <3>4 DEF PublishOnline, MakeEvent, TypeOK
  <2>4. CASE ClientRefuses(e) /\ pc' = "store" /\ held' = {e} /\ UNCHANGED accepted
    BY <1>2, <2>2, <2>4
       DEF PublishOnline, MakeEvent, ClientRefuses, TypeOK, Kept, Safe
  <2>5. QED BY <2>1, <2>3, <2>4
<1>3. ASSUME StoreRefused PROVE DeliveryInv'
  <2>1. PICK e \in Event : held = {e}
    BY <1>3 DEF StoreRefused
  <2>2. CASE stored' = StoredWith(e) /\ accepted' = accepted \cup held
    <3>1. /\ stored \subseteq stored' /\ stored' \subseteq stored \cup {e}
          /\ (e \in stored' \/ \E f \in stored : f # e /\ f.seq = e.seq)
      BY <2>2, StoringKeeps
    <3>2. taken' = taken
      BY <1>3 DEF StoreRefused
    <3>3. \A f \in accepted : Kept(f)'
      BY <2>2, <3>1, <3>2, KeptGrows
    <3>4. Kept(e)'
      BY <1>b, <2>1, <2>2, <3>1 DEF Kept, Safe
    <3>5. QED
      BY <1>3, <2>1, <2>2, <3>1, <3>2, <3>3, <3>4 DEF StoreRefused
  <2>3. CASE UNCHANGED <<stored, accepted>>
    BY <1>3, <2>3 DEF StoreRefused, Kept, Safe
  <2>4. QED BY <1>3, <2>1, <2>2, <2>3 DEF StoreRefused
<1>4. ASSUME OnDisconnect \/ FlushCache \/ FlushDone PROVE DeliveryInv'
  BY <1>4 DEF OnDisconnect, FlushCache, FlushDone, Kept, Safe
<1>5. ASSUME Connect PROVE DeliveryInv'
  BY <1>5 DEF Connect, Kept, Safe
<1>6. ASSUME FlushRaises PROVE DeliveryInv'
  BY <1>6 DEF FlushRaises, NoFlush, Kept, Safe, KeysOf
<1>7. ASSUME ReadCache PROVE DeliveryInv'
  BY <1>7 DEF ReadCache, Kept, Safe
<1>8. ASSUME FlushNext PROVE DeliveryInv'
  <2>1. PICK e \in queue : SkipSent(e) \/ SendCached(e) \/ StopFlush(e)
    BY <1>8 DEF FlushNext
  <2>2. UNCHANGED <<processor, held, stored, accepted, crashes>> /\ pc # "store"
        /\ pc' # "store"
    BY <1>8, <2>1 DEF FlushNext, SkipSent, SendCached, StopFlush
  <2>3. taken' = taken \/ taken' = taken \cup {e}
    BY <2>1 DEF SkipSent, SendCached, StopFlush, ClientTakes, ClientRefuses
  <2>4. KeysOf(taken) \subseteq KeysOf(taken')
    BY <2>3, KeysGrow
  <2>5. KeysOf(flushed') \subseteq KeysOf(taken') /\ sentKeys' \subseteq KeysOf(taken')
    <3>1. CASE SkipSent(e)
      BY <2>4, <3>1 DEF SkipSent, KeysOf
    <3>2. CASE SendCached(e)
      BY <2>4, <3>2 DEF SendCached, ClientTakes, KeysOf
    <3>3. CASE StopFlush(e)
      BY <2>4, <3>3 DEF StopFlush, ClientRefuses
    <3>4. QED BY <2>1, <3>1, <3>2, <3>3
  <2>6. \A f \in accepted : Kept(f)'
    BY <2>2, <2>3, KeptGrows
  <2>7. taken' \subseteq accepted' /\ queue' \subseteq accepted'
    BY <2>1, <2>2, <2>3 DEF SkipSent, SendCached, StopFlush
  <2>8. QED BY <2>2, <2>5, <2>6, <2>7
<1>9. ASSUME RemoveSent PROVE DeliveryInv'
  <2>1. /\ stored' = Without(flushed) /\ pc' = "forget"
        /\ UNCHANGED <<processor, held, gateway, flush, history, crashes>>
    BY <1>9 DEF RemoveSent
  <2>2. ASSUME NEW e \in accepted PROVE Kept(e)'
    <3>1. CASE e \in stored /\ e \notin stored'
      <4>1. e.seq \in KeysOf(taken)
        BY <2>1, <3>1 DEF Without
      <4>2. PICK t \in taken : t.seq = e.seq
        BY <4>1 DEF KeysOf
      <4>3. CASE t = e
        BY <2>1, <4>3 DEF Kept, Safe
      <4>4. CASE t # e
        BY <1>a, <2>1, <4>2, <4>4 DEF Kept
      <4>5. QED BY <4>3, <4>4
    <3>2. CASE e \in stored /\ e \in stored'
      BY <3>2 DEF Kept, Safe
    <3>3. CASE e \notin stored
      BY <2>1, <3>3 DEF Kept, Safe
    <3>4. QED BY <3>1, <3>2, <3>3
  <2>3. QED BY <2>1, <2>2 DEF Without
<1>10. ASSUME ForgetKeys PROVE DeliveryInv'
  BY <1>10 DEF ForgetKeys, NoFlush, Kept, Safe, KeysOf
<1>11. ASSUME Crash PROVE DeliveryInv'
  BY <1>11 DEF Crash, NoFlush, Kept, Safe, KeysOf, TypeOK
<1>12. CASE UNCHANGED vars
  BY <1>12 DEF vars, Kept, Safe
<1>13. QED
  BY <1>1, <1>2, <1>3, <1>4, <1>5, <1>6, <1>7, <1>8, <1>9, <1>10, <1>11,
     <1>12 DEF Next

LEMMA DeliveryInvariance == Spec => []DeliveryInv
BY DeliveryInit, DeliveryStep, TypeCorrect, MadeInvariance, PTL DEF Spec

\* However the program crashes, the client refuses and the cache times out: an
\* event publish_event returned for is taken, or cached, or has the key of another
\* run's event.  Within one run nothing is lost.
THEOREM NothingLostExceptReusedKeys == Spec => []NothingLostUnlessKeyReused
<1>1. DeliveryInv => NothingLostUnlessKeyReused
  BY DEF DeliveryInv, Kept, NothingLostUnlessKeyReused
<1>2. QED BY <1>1, DeliveryInvariance, PTL

\* flush_cache never skips an event whose key was not taken before.
THEOREM SentKeysSound == Spec => []SentKeysWereTaken
<1>1. DeliveryInv => SentKeysWereTaken
  BY DEF DeliveryInv, SentKeysWereTaken
<1>2. QED BY <1>1, DeliveryInvariance, PTL

\* Only remove_sent takes events out of the cache file, and only events whose key
\* was taken.
THEOREM CacheShrinksSafely == Spec => CacheShrinksOnlyAfterTaking
<1>1. DeliveryInv /\ [Next]_vars =>
        [\A e \in stored \ stored' : e.seq \in KeysOf(taken)]_vars
  <2> SUFFICES ASSUME DeliveryInv, Next, NEW e \in stored \ stored'
               PROVE  e.seq \in KeysOf(taken)
    BY DEF vars
  <2>1. CASE RemoveSent
    BY <2>1 DEF RemoveSent, Without, DeliveryInv
  <2>2. CASE PublishOffline \/ StoreRefused
    BY <2>2 DEF PublishOffline, StoreRefused, StoredWith
  <2>3. CASE ~RemoveSent /\ ~PublishOffline /\ ~StoreRefused
    BY <2>3 DEF Next, PublishOnline, OnDisconnect, Connect, FlushCache,
       FlushRaises, ReadCache, FlushNext, FlushDone, ForgetKeys, Crash
  <2>4. QED BY <2>1, <2>2, <2>3
<1>2. QED
  BY <1>1, DeliveryInvariance, PTL DEF Spec, CacheShrinksOnlyAfterTaking
-----------------------------------------------------------------------------
(* What the broker sees *)

\* A sequence and one more element.
LEMMA OneMore ==
  ASSUME NEW S, NEW s \in Seq(S), NEW e \in S, NEW t, t = Append(s, e)
  PROVE  /\ Len(s) \in Nat /\ DOMAIN s = 1..Len(s)
         /\ DOMAIN t = 1..(Len(s) + 1)
         /\ \A i \in 1..Len(s) : t[i] = s[i]
         /\ t[Len(s) + 1] = e
<1>1. /\ t \in Seq(S) /\ Len(t) = Len(s) + 1
      /\ \A i \in 1..Len(s) : t[i] = s[i]
      /\ t[Len(s) + 1] = e
  BY AppendProperties
<1>2. QED BY <1>1, LenProperties

\* Whatever reached the broker was made before.
PastInv == \A i \in DOMAIN broker : Past(broker[i])

\* What a publish leaves of the broker and the history.
LEMMA ClientCalls ==
  ASSUME TypeOK, NEW e \in Event, ClientTakes(e) \/ ClientRefuses(e)
  PROVE  /\ broker' \in {broker, Append(broker, e)}
         /\ taken \subseteq taken' /\ taken' \subseteq taken \cup {e}
         /\ doubted \subseteq doubted' /\ sentKeys \subseteq sentKeys'
BY DEF ClientTakes, ClientRefuses

LEMMA InBroker ==
  ASSUME TypeOK
  PROVE  /\ Len(broker) \in Nat /\ DOMAIN broker = 1..Len(broker)
         /\ \A i \in 1..Len(broker) :
              /\ broker[i] \in Event
              /\ broker[i].ts \in Nat /\ broker[i].seq \in Nat /\ broker[i].run \in Nat
<1>1. broker \in Seq(Event)
  BY DEF TypeOK
<1>2. Len(broker) \in Nat /\ DOMAIN broker = 1..Len(broker)
  BY <1>1, LenProperties
<1>3. \A i \in 1..Len(broker) : broker[i] \in Event
  BY <1>1, ElementOfSeq
<1>4. \A e \in Event : e.ts \in Nat /\ e.seq \in Nat /\ e.run \in Nat
  BY DEF Event
<1>5. QED BY <1>2, <1>3, <1>4

LEMMA PastInit == Init => PastInv
<1>1. DOMAIN <<>> = {}
  OBVIOUS
<1>2. QED BY <1>1 DEF Init, PastInv

\* The event a step publishes, if it publishes one.
LEMMA WhatIsSent ==
  ASSUME TypeOK, MadeInv, DeliveryInv, Next
  PROVE  \/ broker' = broker
         \/ \E e \in Event : broker' = Append(broker, e) /\ Past(e)'
<1>1. CASE PublishOnline
  <2>1. PICK t \in Time, e \in Event :
          e = NextEvent(t) /\ (ClientTakes(e) \/ ClientRefuses(e))
    BY <1>1, NextEventType DEF PublishOnline
  <2>2. e \in Event /\ broker' \in {broker, Append(broker, e)}
    BY <2>1, NextEventIsNew, ClientCalls
  <2>3. Past(e)'
    BY <1>1, <2>1, NextEventIsNew DEF PublishOnline, MakeEvent, Past, TypeOK
  <2>4. QED BY <2>2, <2>3
<1>2. CASE FlushNext
  <2>1. PICK e \in queue : SkipSent(e) \/ SendCached(e) \/ StopFlush(e)
    BY <1>2 DEF FlushNext
  <2>2. e \in Event /\ Past(e)
    BY <2>1 DEF TypeOK, DeliveryInv, MadeInv, NumberedApart
  <2>3. Past(e)'
    BY <2>2, PastStays
  <2>4. broker' \in {broker, Append(broker, e)}
    BY <2>1, <2>2, ClientCalls DEF SkipSent, SendCached, StopFlush
  <2>5. QED BY <2>2, <2>3, <2>4
<1>3. CASE ~PublishOnline /\ ~FlushNext
  BY <1>3 DEF Next, PublishOffline, StoreRefused, OnDisconnect, Connect,
     FlushCache, FlushRaises, ReadCache, FlushDone, RemoveSent, ForgetKeys, Crash
<1>4. QED BY <1>1, <1>2, <1>3

LEMMA PastStep ==
  TypeOK /\ MadeInv /\ DeliveryInv /\ PastInv /\ [Next]_vars => PastInv'
<1> SUFFICES ASSUME TypeOK, MadeInv, DeliveryInv, PastInv, [Next]_vars
             PROVE  PastInv'
  OBVIOUS
<1>1. /\ broker \in Seq(Event) /\ Len(broker) \in Nat /\ DOMAIN broker = 1..Len(broker)
      /\ \A i \in 1..Len(broker) : \A e : e = broker[i] => Past(e)'
  <2>1. broker \in Seq(Event) /\ Len(broker) \in Nat /\ DOMAIN broker = 1..Len(broker)
    BY InBroker DEF TypeOK
  <2>2. ASSUME NEW e \in Event, Past(e) PROVE Past(e)'
    BY <2>2, PastStays
  <2>3. \A i \in 1..Len(broker) : broker[i] \in Event /\ Past(broker[i])
    BY <2>1, InBroker DEF PastInv
  <2>4. QED BY <2>1, <2>2, <2>3
<1>2. CASE broker' = broker
  BY <1>1, <1>2 DEF PastInv, Past
<1>3. CASE \E e \in Event : broker' = Append(broker, e) /\ Past(e)'
  <2>1. PICK e \in Event : broker' = Append(broker, e) /\ Past(e)'
    BY <1>3
  <2>2. /\ DOMAIN broker' = 1..(Len(broker) + 1)
        /\ \A i \in 1..Len(broker) : broker'[i] = broker[i]
        /\ broker'[Len(broker) + 1] = e
    BY <1>1, <2>1, OneMore
  <2>3. QED BY <1>1, <2>1, <2>2 DEF PastInv, Past
<1>4. CASE UNCHANGED vars
  BY <1>2, <1>4 DEF vars
<1>5. QED BY <1>2, <1>3, <1>4, WhatIsSent

LEMMA PastInvariance == Spec => []PastInv
BY PastInit, PastStep, TypeCorrect, MadeInvariance, DeliveryInvariance,
   PTL DEF Spec

-----------------------------------------------------------------------------
(* Nothing is sent twice without a doubt or a crash *)

\* The keys noted as sent cover what is cached although it was taken, but for what
\* a crash left there: this, and not only that noted keys were taken, is what keeps
\* a flush from sending again what an interrupted flush left in the cache.
NotedInv ==
  /\ \A i \in DOMAIN broker : broker[i] \in taken \cup doubted
  /\ held \cap taken = {}
  /\ \A e \in stored \cap taken : e.seq \in sentKeys \/ e \in interrupted
  /\ TwiceOnlyIfDoubtedOrInterrupted

LEMMA NotedInit == Init => NotedInv
<1>1. DOMAIN <<>> = {}
  OBVIOUS
<1>2. QED BY <1>1 DEF Init, NotedInv, TwiceOnlyIfDoubtedOrInterrupted

\* One more publish, of an event that was not taken before a crash.
LEMMA SentOnce ==
  ASSUME TypeOK, NotedInv, NEW e \in Event, ClientTakes(e) \/ ClientRefuses(e),
         e \notin taken \/ e \in interrupted, interrupted' = interrupted
  PROVE  /\ \A i \in DOMAIN broker' : broker'[i] \in taken' \cup doubted'
         /\ TwiceOnlyIfDoubtedOrInterrupted'
<1>1. /\ broker \in Seq(Event) /\ broker' \in {broker, Append(broker, e)}
      /\ taken \subseteq taken' /\ doubted \subseteq doubted'
  BY ClientCalls DEF TypeOK
<1>2. CASE broker' = broker
  BY <1>1, <1>2 DEF NotedInv, TwiceOnlyIfDoubtedOrInterrupted
<1>3. CASE broker' = Append(broker, e) /\ (e \in taken' \/ e \in doubted')
  <2>1. /\ Len(broker) \in Nat /\ DOMAIN broker = 1..Len(broker)
        /\ DOMAIN broker' = 1..(Len(broker) + 1)
        /\ \A i \in 1..Len(broker) : broker'[i] = broker[i]
        /\ broker'[Len(broker) + 1] = e
    BY <1>1, <1>3, OneMore
  <2>2. \A i \in DOMAIN broker' : broker'[i] \in taken' \cup doubted'
    BY <1>1, <1>3, <2>1 DEF NotedInv
  <2>3. ASSUME NEW i \in DOMAIN broker, broker[i] = e
        PROVE  e \in doubted' \cup interrupted'
    BY <1>1, <2>3 DEF NotedInv
  <2>4. ASSUME NEW i \in DOMAIN broker', NEW j \in DOMAIN broker',
               i < j, broker'[i] = broker'[j]
        PROVE  broker'[i] \in doubted' \cup interrupted'
    <3>1. CASE j = Len(broker) + 1
      <4>1. i \in DOMAIN broker /\ broker[i] = e
        BY <2>1, <2>4, <3>1
      <4>2. QED BY <2>1, <2>3, <2>4, <4>1
    <3>2. CASE j # Len(broker) + 1
      <4>1. /\ i \in DOMAIN broker /\ j \in DOMAIN broker
            /\ broker[i] = broker[j] /\ broker'[i] = broker[i]
        BY <2>1, <2>4, <3>2
      <4>2. QED BY <1>1, <2>4, <4>1 DEF NotedInv, TwiceOnlyIfDoubtedOrInterrupted
    <3>3. QED BY <3>1, <3>2
  <2>5. QED BY <2>2, <2>4 DEF TwiceOnlyIfDoubtedOrInterrupted
<1>4. QED BY <1>1, <1>2, <1>3 DEF ClientTakes, ClientRefuses

LEMMA NotedStep ==
  TypeOK /\ MadeInv /\ DeliveryInv /\ NotedInv /\ [Next]_vars => NotedInv'
<1> SUFFICES ASSUME TypeOK, MadeInv, DeliveryInv, NotedInv, [Next]_vars
             PROVE  NotedInv'
  OBVIOUS
<1>1. ASSUME NEW t \in Time, NEW e, e = NextEvent(t)
      PROVE  e \in Event /\ e \notin accepted \cup held \cup taken \cup stored
  BY <1>1, NextEventIsNew DEF MadeInv, NumberedApart, DeliveryInv
<1>2. ASSUME PublishOffline PROVE NotedInv'
  <2>1. \/ stored' = stored
        \/ \E t \in Time : stored' \subseteq stored \cup {NextEvent(t)}
    BY <1>2 DEF PublishOffline, StoredWith
  <2>2. stored' \cap taken \subseteq stored
    BY <1>1, <2>1
  <2>3. UNCHANGED <<broker, taken, doubted, interrupted, held, sentKeys>>
    BY <1>2 DEF PublishOffline
  <2>4. QED BY <2>2, <2>3 DEF NotedInv, TwiceOnlyIfDoubtedOrInterrupted
<1>3. ASSUME PublishOnline PROVE NotedInv'
  <2>1. PICK t \in Time, e \in Event :
          /\ e = NextEvent(t)
          /\ \/ ClientTakes(e) /\ held' = held
             \/ ClientRefuses(e) /\ held' = {e}
    BY <1>3, NextEventType DEF PublishOnline
  <2>2. /\ e \in Event /\ e \notin accepted \cup held \cup taken \cup stored
        /\ interrupted' = interrupted /\ stored' = stored /\ held = {}
    BY <1>1, <1>3, <2>1 DEF PublishOnline, MakeEvent, MadeInv
  <2>3. /\ \A i \in DOMAIN broker' : broker'[i] \in taken' \cup doubted'
        /\ TwiceOnlyIfDoubtedOrInterrupted'
    BY <2>1, <2>2, SentOnce
  <2>4. held' \cap taken' = {}
    BY <2>1, <2>2 DEF ClientTakes, ClientRefuses
  <2>5. stored' \cap taken' = stored \cap taken /\ sentKeys \subseteq sentKeys'
    BY <2>1, <2>2 DEF ClientTakes, ClientRefuses
  <2>6. QED BY <2>2, <2>3, <2>4, <2>5 DEF NotedInv
<1>4. ASSUME StoreRefused PROVE NotedInv'
  <2>1. stored' \subseteq stored \cup held /\ held' = {}
    BY <1>4 DEF StoreRefused, StoredWith
  <2>2. UNCHANGED <<broker, taken, doubted, interrupted, sentKeys>>
    BY <1>4 DEF StoreRefused
  <2>3. QED BY <2>1, <2>2 DEF NotedInv, TwiceOnlyIfDoubtedOrInterrupted
<1>5. ASSUME OnDisconnect \/ Connect \/ FlushCache \/ FlushRaises \/ ReadCache
               \/ FlushDone \/ RemoveSent
      PROVE  NotedInv'
  <2>1. stored' \subseteq stored
    BY <1>5 DEF OnDisconnect, Connect, FlushCache, FlushRaises, ReadCache,
                FlushDone, RemoveSent, Without
  <2>2. UNCHANGED <<broker, taken, doubted, interrupted, held, sentKeys>>
    BY <1>5 DEF OnDisconnect, Connect, FlushCache, FlushRaises, ReadCache,
                FlushDone, RemoveSent
  <2>3. QED BY <2>1, <2>2 DEF NotedInv, TwiceOnlyIfDoubtedOrInterrupted
<1>6. ASSUME FlushNext PROVE NotedInv'
  <2>1. PICK e \in queue : SkipSent(e) \/ SendCached(e) \/ StopFlush(e)
    BY <1>6 DEF FlushNext
  <2>2. e \in Event /\ e \in stored
    BY <2>1 DEF TypeOK, MadeInv
  <2>3. UNCHANGED <<interrupted, held, stored>> /\ held = {}
    BY <1>6 DEF FlushNext, MadeInv
  <2>4. CASE SkipSent(e)
    BY <2>3, <2>4 DEF SkipSent, NotedInv, TwiceOnlyIfDoubtedOrInterrupted
  <2>5. CASE SendCached(e) \/ StopFlush(e)
    <3>1. (ClientTakes(e) \/ ClientRefuses(e)) /\ e.seq \notin sentKeys
      BY <2>5 DEF SendCached, StopFlush
    <3>2. e \notin taken \/ e \in interrupted
      BY <2>2, <3>1 DEF NotedInv
    <3>3. /\ \A i \in DOMAIN broker' : broker'[i] \in taken' \cup doubted'
          /\ TwiceOnlyIfDoubtedOrInterrupted'
      BY <2>2, <2>3, <3>1, <3>2, SentOnce
    <3>4. \A f \in stored' \cap taken' : f.seq \in sentKeys' \/ f \in interrupted
      BY <2>3, <3>1 DEF ClientTakes, ClientRefuses, NotedInv
    <3>5. QED BY <2>3, <3>3, <3>4 DEF NotedInv
  <2>6. QED BY <2>1, <2>4, <2>5
<1>7. ASSUME ForgetKeys PROVE NotedInv'
  BY <1>7 DEF ForgetKeys, KeysOf, NotedInv, TwiceOnlyIfDoubtedOrInterrupted
<1>8. ASSUME Crash PROVE NotedInv'
  <2>1. /\ held' = {} /\ interrupted' = interrupted \cup (stored \cap taken)
        /\ UNCHANGED <<broker, taken, doubted, stored>>
    BY <1>8 DEF Crash
  <2>2. QED BY <2>1 DEF NotedInv, TwiceOnlyIfDoubtedOrInterrupted
<1>9. CASE UNCHANGED vars
  BY <1>9 DEF vars, NotedInv, TwiceOnlyIfDoubtedOrInterrupted
<1>10. QED
  BY <1>2, <1>3, <1>4, <1>5, <1>6, <1>7, <1>8, <1>9 DEF Next

\* Whatever crashes, timeouts and refused publishes there are: an event goes out a
\* second time only if its publish was reported as failed although it reached the
\* broker, or a crash came between its sending and its removal from the cache.
THEOREM SentTwiceOnlyIfUnsure == Spec => []TwiceOnlyIfDoubtedOrInterrupted
<1>1. NotedInv => TwiceOnlyIfDoubtedOrInterrupted
  BY DEF NotedInv
<1>2. QED
  BY <1>1, NotedInit, NotedStep, TypeCorrect, MadeInvariance,
     DeliveryInvariance, PTL DEF Spec

-----------------------------------------------------------------------------
(* The order in which events reach the broker *)

SentBy(n, key) == \E k \in 1..n : broker[k].seq = key

\* Nothing made later than e went out before it without a flush having left e
\* behind, an event having gone out with its key, or sorting before it.
OvertakenFairly(e) ==
  \A i \in DOMAIN broker :
    MadeBefore(e, broker[i]) =>
      e \in leftOver \/ SentBy(i, e.seq) \/ SortsBefore(broker[i], e)

\* The order the broker has seen says nothing of what is still cached: that no
\* cached or held event was overtaken is what has to be carried from step to
\* step, and with it, place by place, what a flush has not looked at yet.
OrderInv ==
  /\ \A e \in taken : \E i \in DOMAIN broker : broker[i] = e
  /\ pc = "send" => stored \subseteq queue \cup flushed
  /\ pc = "remove" => stored \ flushed \subseteq leftOver
  /\ pc = "forget" => stored \subseteq leftOver
  /\ connected /\ pc \in {"idle", "store"} => stored \subseteq leftOver
  /\ \A e \in stored \cup held : OvertakenFairly(e)
  /\ InOrderUnlessLeftOver

LEMMA OrderInit == Init => OrderInv
<1>1. DOMAIN <<>> = {}
  OBVIOUS
<1>2. QED BY <1>1 DEF Init, OrderInv, OvertakenFairly, InOrderUnlessLeftOver

\* The second half of InOrderUnlessLeftOver.
SentInOrder ==
  \A i, j \in DOMAIN broker :
    i < j /\ MadeBefore(broker[j], broker[i]) =>
      \/ broker[j] \in leftOver
      \/ SentBy(i, broker[j].seq)
      \/ SortsBefore(broker[i], broker[j])

\* One more publish, of an event that none overtook, and that overtakes none.
LEMMA SentInTurn ==
  ASSUME TypeOK, OrderInv, NEW e \in Event, ClientTakes(e) \/ ClientRefuses(e),
         leftOver \subseteq leftOver', OvertakenFairly(e),
         NEW W, W \subseteq Event,
         \A f \in W : OvertakenFairly(f),
         \A f \in W : MadeBefore(f, e) =>
           f \in leftOver \/ SentBy(Len(broker), f.seq) \/ SortsBefore(e, f)
  PROVE  /\ \A f \in taken' : \E i \in DOMAIN broker' : broker'[i] = f
         /\ SentInOrder'
         /\ \A f \in W : OvertakenFairly(f)'
<1>1. /\ broker \in Seq(Event) /\ broker' \in {broker, Append(broker, e)}
      /\ taken' \subseteq taken \cup {e}
      /\ SentInOrder
  BY ClientCalls DEF TypeOK, OrderInv, InOrderUnlessLeftOver, SentInOrder, SentBy
<1>2. CASE broker' = broker /\ taken' = taken
  BY <1>1, <1>2 DEF OrderInv, SentInOrder, OvertakenFairly, SentBy
<1>3. CASE broker' = Append(broker, e)
  <2>1. /\ Len(broker) \in Nat /\ DOMAIN broker = 1..Len(broker)
        /\ DOMAIN broker' = 1..(Len(broker) + 1)
        /\ \A i \in 1..Len(broker) : broker'[i] = broker[i]
        /\ broker'[Len(broker) + 1] = e
    BY <1>1, <1>3, OneMore
  <2>2. \A f \in taken' : \E i \in DOMAIN broker' : broker'[i] = f
    <3>1. Len(broker) + 1 \in DOMAIN broker'
      BY <2>1
    <3>2. \A f \in taken : \E i \in DOMAIN broker' : broker'[i] = f
      BY <2>1 DEF OrderInv
    <3>3. QED BY <1>1, <2>1, <3>1, <3>2
  <2>3. \A key : \A i \in 1..Len(broker) : SentBy(i, key) => \E k \in 1..i : broker'[k].seq = key
    <3>1. \A i \in 1..Len(broker) : \A k \in 1..i : broker'[k] = broker[k]
      BY <2>1
    <3>2. QED BY <3>1 DEF SentBy
  <2>4. \A key : SentBy(Len(broker), key) =>
                   \E k \in 1..(Len(broker) + 1) : broker'[k].seq = key
    <3>1. \A k \in 1..Len(broker) : broker'[k] = broker[k] /\ k \in 1..(Len(broker) + 1)
      BY <2>1
    <3>2. QED BY <2>1, <3>1 DEF SentBy
  <2>5. \A f \in W : OvertakenFairly(f)'
    <3> SUFFICES ASSUME NEW f \in W, NEW i \in DOMAIN broker',
                        MadeBefore(f, broker'[i])
                 PROVE  \/ f \in leftOver'
                        \/ \E k \in 1..i : broker'[k].seq = f.seq
                        \/ SortsBefore(broker'[i], f)
      BY DEF OvertakenFairly, SentBy
    <3>1. CASE i \in 1..Len(broker)
      <4>1. MadeBefore(f, broker[i]) /\ broker'[i] = broker[i]
        BY <2>1, <3>1
      <4>2. f \in leftOver \/ SentBy(i, f.seq) \/ SortsBefore(broker[i], f)
        BY <2>1, <3>1, <4>1 DEF OvertakenFairly
      <4>3. QED BY <2>3, <3>1, <4>1, <4>2
    <3>2. CASE i = Len(broker) + 1
      BY <2>1, <2>4, <3>2
    <3>3. QED BY <2>1, <3>1, <3>2
  <2>6. SentInOrder'
    <3> SUFFICES ASSUME NEW i \in DOMAIN broker', NEW j \in DOMAIN broker',
                        i < j, MadeBefore(broker'[j], broker'[i])
                 PROVE  \/ broker'[j] \in leftOver'
                        \/ \E k \in 1..i : broker'[k].seq = broker'[j].seq
                        \/ SortsBefore(broker'[i], broker'[j])
      BY DEF SentInOrder, SentBy
    <3>1. i \in 1..Len(broker)
      BY <2>1
    <3>2. CASE j \in 1..Len(broker)
      <4>1. /\ broker'[j] = broker[j] /\ broker'[i] = broker[i]
            /\ MadeBefore(broker[j], broker[i])
        BY <2>1, <3>1, <3>2
      <4>2. \/ broker[j] \in leftOver
            \/ SentBy(i, broker[j].seq)
            \/ SortsBefore(broker[i], broker[j])
        BY <1>1, <2>1, <3>1, <3>2, <4>1 DEF SentInOrder
      <4>3. QED BY <2>3, <3>1, <4>1, <4>2
    <3>3. CASE j = Len(broker) + 1
      <4>1. MadeBefore(e, broker[i]) /\ broker'[j] = e /\ broker'[i] = broker[i]
        BY <2>1, <3>1, <3>3
      <4>2. e \in leftOver \/ SentBy(i, e.seq) \/ SortsBefore(broker[i], e)
        BY <2>1, <3>1, <4>1 DEF OvertakenFairly
      <4>3. QED BY <2>3, <3>1, <4>1, <4>2
    <3>4. QED BY <2>1, <3>2, <3>3
  <2>7. QED BY <2>2, <2>5, <2>6
<1>4. QED BY <1>1, <1>2, <1>3 DEF ClientTakes, ClientRefuses

\* Steps that send nothing.
LEMMA NothingSent ==
  ASSUME OrderInv, UNCHANGED <<broker, taken>>, leftOver \subseteq leftOver'
  PROVE  /\ \A f \in taken' : \E i \in DOMAIN broker' : broker'[i] = f
         /\ SentInOrder'
         /\ \A f \in stored \cup held : OvertakenFairly(f)'
<1>1. \A i, key : SentBy(i, key)' <=> SentBy(i, key)
  BY DEF SentBy
<1>2. SentInOrder
  BY DEF OrderInv, InOrderUnlessLeftOver, SentInOrder, SentBy
<1>3. SentInOrder'
  BY <1>1, <1>2 DEF SentInOrder
<1>4. \A f \in stored \cup held : OvertakenFairly(f)'
  BY <1>1 DEF OrderInv, OvertakenFairly
<1>5. QED BY <1>3, <1>4 DEF OrderInv

LEMMA OrderStep ==
  TypeOK /\ MadeInv /\ DeliveryInv /\ PastInv /\ OrderInv /\ [Next]_vars => OrderInv'
<1> SUFFICES ASSUME TypeOK, MadeInv, DeliveryInv, PastInv, OrderInv, [Next]_vars
             PROVE  OrderInv'
  OBVIOUS
\* The places, without what was sent.
<1> DEFINE Places == /\ pc = "send" => stored \subseteq queue \cup flushed
                     /\ pc = "remove" => stored \ flushed \subseteq leftOver
                     /\ pc = "forget" => stored \subseteq leftOver
                     /\ connected /\ pc \in {"idle", "store"} => stored \subseteq leftOver
<1>a. Places
  BY DEF OrderInv
<1>b. ASSUME Places', SentInOrder',
             \A f \in taken' : \E i \in DOMAIN broker' : broker'[i] = f,
             \A f \in stored' \cup held' : OvertakenFairly(f)'
      PROVE  OrderInv'
  BY <1>b DEF OrderInv, InOrderUnlessLeftOver, SentInOrder, SentBy
<1>c. stored \subseteq Event /\ stored \subseteq accepted
  BY DEF TypeOK, DeliveryInv
\* A new event was made later than all there are.
<1>d. ASSUME NEW t \in Time, NEW e, e = NextEvent(t)
      PROVE  e \in Event /\ OvertakenFairly(e)
  <2>1. e \in Event /\ e.run = crashes /\ e.seq = seq /\ crashes \in Nat /\ seq \in Nat
    BY <1>d, NextEventIsNew DEF TypeOK
  <2>2. \A i \in DOMAIN broker : ~MadeBefore(e, broker[i])
    BY <2>1, InBroker DEF PastInv, Past, MadeBefore
  <2>3. QED BY <2>1, <2>2 DEF OvertakenFairly
<1>1. ASSUME PublishOffline PROVE OrderInv'
  <2>1. /\ UNCHANGED <<pc, connected, broker, taken, leftOver, held, queue, flushed>>
        /\ pc = "idle" /\ ~connected
    BY <1>1 DEF PublishOffline, MakeEvent
  <2>2. \A f : OvertakenFairly(f) => OvertakenFairly(f)'
    BY <2>1 DEF OvertakenFairly, SentBy
  <2>3. \/ stored' = stored
        \/ \E t \in Time : stored' \subseteq stored \cup {NextEvent(t)}
    BY <1>1 DEF PublishOffline, StoredWith
  <2>4. \A f \in stored' \cup held' : OvertakenFairly(f)
    BY <1>d, <2>1, <2>3 DEF OrderInv
  <2>5. \A f \in stored' \cup held' : OvertakenFairly(f)'
    BY <2>2, <2>4
  <2>6. Places'
    BY <2>1
  <2>7. QED BY <1>b, <2>1, <2>5, <2>6, NothingSent
<1>2. ASSUME PublishOnline PROVE OrderInv'
  <2>1. PICK t \in Time, e \in Event :
          /\ e = NextEvent(t)
          /\ ClientTakes(e) \/ ClientRefuses(e)
          /\ held' \subseteq held \cup {e}
          /\ pc' = pc \/ pc' = "store"
    BY <1>2, NextEventType DEF PublishOnline
  <2>2. /\ UNCHANGED <<stored, leftOver, connected, queue, flushed>>
        /\ pc = "idle" /\ connected /\ pc' \in {"idle", "store"}
        /\ stored \subseteq leftOver /\ held = {}
    BY <1>2, <2>1 DEF PublishOnline, MakeEvent, OrderInv, MadeInv
  <2>3. PICK W : W = stored \cup {e}
    OBVIOUS
  <2>4. e \in Event /\ W \subseteq Event /\ \A f \in W : OvertakenFairly(f)
    BY <1>c, <1>d, <2>1, <2>3 DEF OrderInv
  <2>5. \A f \in W : MadeBefore(f, e) =>
          f \in leftOver \/ SentBy(Len(broker), f.seq) \/ SortsBefore(e, f)
    <3>1. ~MadeBefore(e, e)
      BY <2>4 DEF MadeBefore, Event
    <3>2. QED BY <2>2, <2>3, <3>1
  <2>6. /\ \A f \in taken' : \E i \in DOMAIN broker' : broker'[i] = f
        /\ SentInOrder'
        /\ \A f \in W : OvertakenFairly(f)'
    <3>1. OvertakenFairly(e) /\ leftOver \subseteq leftOver'
      BY <2>2, <2>3, <2>4
    <3>2. QED BY <2>1, <2>4, <2>5, <3>1, SentInTurn
  <2>7. Places'
    BY <2>2
  <2>8. \A f \in stored' \cup held' : OvertakenFairly(f)'
    BY <2>1, <2>2, <2>3, <2>6
  <2>9. QED BY <1>b, <2>6, <2>7, <2>8
<1>3. ASSUME StoreRefused PROVE OrderInv'
  <2>1. /\ UNCHANGED <<broker, taken, leftOver>>
        /\ stored' \subseteq stored \cup held /\ held' = {}
        /\ pc = "store" /\ pc' = "idle"
        /\ ~connected' \/ (connected' = connected /\ stored' = stored)
    BY <1>3 DEF StoreRefused, StoredWith, GoesOffline
  <2>2. Places'
    BY <1>a, <2>1
  <2>3. QED BY <1>b, <2>1, <2>2, NothingSent
<1>4. ASSUME OnDisconnect \/ Connect \/ FlushCache \/ FlushRaises \/ ReadCache
               \/ FlushDone \/ RemoveSent \/ ForgetKeys \/ Crash
      PROVE  OrderInv'
  <2>1. /\ UNCHANGED <<broker, taken>> /\ leftOver \subseteq leftOver'
        /\ stored' \subseteq stored /\ held' \subseteq held
    BY <1>4 DEF OnDisconnect, Connect, FlushCache, FlushRaises, ReadCache,
                FlushDone, RemoveSent, ForgetKeys, Crash, Without
  <2>2. Places'
    <3>1. CASE OnDisconnect \/ Crash
      BY <3>1 DEF OnDisconnect, Crash
    <3>2. CASE Connect \/ FlushCache
      BY <1>a, <3>2 DEF Connect, ConnectFailed, FlushCache
    <3>3. CASE FlushRaises
      BY <3>3 DEF FlushRaises
    <3>4. CASE ReadCache \/ FlushDone \/ ForgetKeys
      BY <1>a, <3>4 DEF ReadCache, FlushDone, ForgetKeys
    <3>5. CASE RemoveSent
      BY <1>a, <3>5 DEF RemoveSent, Without, KeysOf
    <3>6. QED BY <1>4, <3>1, <3>2, <3>3, <3>4, <3>5
  <2>3. QED BY <1>b, <2>1, <2>2, NothingSent
<1>5. ASSUME FlushNext PROVE OrderInv'
  <2>1. PICK e \in queue :
          IsFirst(e, queue) /\ (SkipSent(e) \/ SendCached(e) \/ StopFlush(e))
    BY <1>5 DEF FlushNext
  <2>2. /\ pc = "send" /\ held = {} /\ stored \subseteq queue \cup flushed
        /\ UNCHANGED <<held, stored, connected>>
    BY <1>5 DEF FlushNext, MadeInv, OrderInv
  <2>3. e \in Event /\ e \in stored /\ OvertakenFairly(e)
    BY <2>1 DEF TypeOK, MadeInv, OrderInv
  <2>4. Places'
    BY <2>1, <2>2 DEF SkipSent, SendCached, StopFlush
  <2>5. CASE SkipSent(e)
    BY <1>b, <2>2, <2>4, <2>5, NothingSent DEF SkipSent
  <2>6. CASE SendCached(e) \/ StopFlush(e)
    <3>1. (ClientTakes(e) \/ ClientRefuses(e)) /\ leftOver \subseteq leftOver'
      BY <2>6 DEF SendCached, StopFlush
    \* What is cached and does not sort after e was flushed, so that its key has
    \* gone out.
    <3>2. ASSUME NEW f \in stored, MadeBefore(f, e)
          PROVE  SentBy(Len(broker), f.seq) \/ SortsBefore(e, f)
      <4>1. CASE f \in queue
        <5>1. f # e
          BY <2>3, <3>2 DEF MadeBefore, Event
        <5>2. QED BY <2>1, <4>1, <5>1 DEF IsFirst
      <4>2. CASE f \notin queue
        <5>1. f.seq \in KeysOf(taken)
          BY <2>2, <4>2 DEF DeliveryInv, KeysOf
        <5>2. PICK t \in taken : t.seq = f.seq
          BY <5>1 DEF KeysOf
        <5>3. PICK i \in DOMAIN broker : broker[i] = t
          BY DEF OrderInv
        <5>4. QED BY <5>2, <5>3, InBroker DEF SentBy
      <4>3. QED BY <4>1, <4>2
    <3>3. stored \subseteq Event /\ \A f \in stored : OvertakenFairly(f)
      BY DEF TypeOK, OrderInv
    <3>4. /\ \A f \in taken' : \E i \in DOMAIN broker' : broker'[i] = f
          /\ SentInOrder'
          /\ \A f \in stored : OvertakenFairly(f)'
      BY <2>3, <3>1, <3>2, <3>3, SentInTurn
    <3>5. QED BY <1>b, <2>2, <2>4, <3>4
  <2>7. QED BY <2>1, <2>5, <2>6
<1>6. CASE UNCHANGED vars
  <2>1. UNCHANGED <<broker, taken, leftOver, stored, held, pc, connected, queue, flushed>>
    BY <1>6 DEF vars
  <2>2. Places'
    BY <1>a, <2>1
  <2>3. QED BY <1>b, <2>1, <2>2, NothingSent
<1>7. QED
  BY <1>1, <1>2, <1>3, <1>4, <1>5, <1>6 DEF Next

\* Through caching, reconnecting and restarts events first reach the broker in the
\* order in which they were made, whatever the wall clock shows, but for those that
\* an interrupted flush left behind, those whose key had gone out, and those cached
\* with a later one that sorts before them; and the gateway is never connected and
\* idle with an event waiting that no flush gave up on.
THEOREM EventsGoOutInOrder == Spec => []InOrderUnlessLeftOver
<1>1. OrderInv => InOrderUnlessLeftOver
  BY DEF OrderInv
<1>2. QED
  BY <1>1, OrderInit, OrderStep, TypeCorrect, MadeInvariance,
     DeliveryInvariance, PastInvariance, PTL DEF Spec
=============================================================================
