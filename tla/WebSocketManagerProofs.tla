----------------------- MODULE WebSocketManagerProofs -----------------------
(***************************************************************************)
(* Proofs about WebSocketManager, for every set of sockets and of messages *)
(* and every cap: the cap on connections holds, exactly the sockets whose  *)
(* endpoint is in its receive loop are registered, each once, and a        *)
(* broadcast reaches everybody unless one of its clients left.             *)
(***************************************************************************)
EXTENDS WebSocketManager, SequenceTheorems, TLAPS

USE SocketAssumption, CapAssumption

-----------------------------------------------------------------------------
(* Sequences *)

LEMMA AppendedSet ==
  ASSUME NEW S, NEW s \in Seq(S), NEW e \in S, e \notin ToSet(s), IsInjective(s)
  PROVE  /\ ToSet(Append(s, e)) = ToSet(s) \cup {e}
         /\ IsInjective(Append(s, e))
<1>1. PICK t \in Seq(S) : t = Append(s, e)
  BY AppendProperties
<1>2. /\ Len(t) = Len(s) + 1 /\ Len(s) \in Nat
      /\ \A i \in 1..Len(s) : t[i] = s[i]
      /\ t[Len(s) + 1] = e
      /\ DOMAIN t = 1..Len(t) /\ DOMAIN s = 1..Len(s)
  BY <1>1, AppendProperties, LenProperties
<1>3. ToSet(t) = ToSet(s) \cup {e}
  BY <1>2 DEF ToSet
<1>4. \A i \in 1..Len(s) : s[i] # e
  BY <1>2 DEF ToSet
<1>5. \A i, j \in 1..Len(t) : t[i] = t[j] => i = j
  BY <1>2, <1>4 DEF IsInjective
<1>6. QED BY <1>1, <1>2, <1>3, <1>5 DEF IsInjective

LEMMA HeadAndTail ==
  ASSUME NEW S, NEW s \in Seq(S), s # <<>>, IsInjective(s)
  PROVE  /\ Head(s) \in S /\ Tail(s) \in Seq(S)
         /\ Head(s) \in ToSet(s)
         /\ ToSet(Tail(s)) = ToSet(s) \ {Head(s)}
         /\ IsInjective(Tail(s))
<1>1. PICK t \in Seq(S) : t = Tail(s)
  BY HeadTailProperties
<1>2. /\ Len(t) = Len(s) - 1 /\ Len(s) \in Nat \ {0}
      /\ \A i \in 1..Len(t) : t[i] = s[i + 1]
      /\ DOMAIN t = 1..Len(t) /\ DOMAIN s = 1..Len(s)
      /\ Head(s) = s[1] /\ Head(s) \in S
  BY <1>1, HeadTailProperties, LenProperties, EmptySeq
<1>3. \A i, j \in 1..Len(s) : s[i] = s[j] => i = j
  BY <1>2 DEF IsInjective
<1>4. ASSUME NEW i \in 1..Len(t) PROVE t[i] \in ToSet(s) \ {s[1]}
  <2>1. i + 1 \in 1..Len(s) /\ 1 \in 1..Len(s) /\ i + 1 # 1
    BY <1>2
  <2>2. t[i] = s[i + 1] /\ s[i + 1] # s[1]
    BY <2>1, <1>2, <1>3
  <2>3. QED BY <2>1, <2>2, <1>2 DEF ToSet
<1>5. ASSUME NEW i \in 1..Len(s), s[i] # s[1] PROVE s[i] \in ToSet(t)
  <2>1. i - 1 \in 1..Len(t) /\ (i - 1) + 1 = i
    BY <1>5, <1>2
  <2>2. t[i - 1] = s[i]
    BY <2>1, <1>2
  <2>3. QED BY <2>1, <2>2, <1>2 DEF ToSet
<1>6. ToSet(t) = ToSet(s) \ {s[1]}
  BY <1>2, <1>4, <1>5 DEF ToSet
<1>7. ASSUME NEW i \in 1..Len(t), NEW j \in 1..Len(t), t[i] = t[j] PROVE i = j
  <2>1. i + 1 \in 1..Len(s) /\ j + 1 \in 1..Len(s) /\ s[i + 1] = s[j + 1]
    BY <1>7, <1>2
  <2>2. i + 1 = j + 1
    BY <2>1, <1>3
  <2>3. QED BY <2>2, <1>2
<1>8. s[1] \in ToSet(s)
  BY <1>2 DEF ToSet
<1>9. QED BY <1>1, <1>2, <1>6, <1>7, <1>8 DEF IsInjective

\* Taking an element out of a sequence without repetitions.
LEMMA RemovedSet ==
  ASSUME NEW S, NEW s \in Seq(S), IsInjective(s), NEW k \in DOMAIN s
  PROVE  /\ RemoveAt(s, k) \in Seq(S)
         /\ Len(RemoveAt(s, k)) = Len(s) - 1
         /\ ToSet(RemoveAt(s, k)) = ToSet(s) \ {s[k]}
         /\ IsInjective(RemoveAt(s, k))
<1>1. Len(s) \in Nat /\ DOMAIN s = 1..Len(s) /\ k \in 1..Len(s)
  BY LenProperties
<1>2. PICK n \in Nat : n = Len(s)
  BY <1>1
<1>3. \A i \in 1..n : s[i] \in S
  BY <1>2, ElementOfSeq
<1>4. PICK a \in Seq(S) :
        /\ a = SubSeq(s, 1, k - 1) /\ Len(a) = k - 1
        /\ \A i \in 1..(k - 1) : a[i] = s[i]
  <2>1. PICK l \in Int : l = k - 1 /\ \A i \in 1..l : s[i] \in S
    BY <1>1, <1>2, <1>3
  <2>2. /\ SubSeq(s, 1, l) \in Seq(S)
        /\ Len(SubSeq(s, 1, l)) = IF 1 <= l THEN l - 1 + 1 ELSE 0
        /\ \A i \in 1..(l - 1 + 1) : SubSeq(s, 1, l)[i] = s[1 + i - 1]
    BY <2>1, SubSeqProperties
  <2>3. (IF 1 <= l THEN l - 1 + 1 ELSE 0) = l /\ l - 1 + 1 = l
    BY <2>1, <1>1
  <2>4. \A i \in 1..l : SubSeq(s, 1, l)[i] = s[i]
    <3> SUFFICES ASSUME NEW i \in 1..l PROVE SubSeq(s, 1, l)[i] = s[i]
      OBVIOUS
    <3>1. 1 + i - 1 = i
      BY <2>1
    <3>2. QED BY <2>2, <2>3, <3>1
  <2>5. QED BY <2>1, <2>2, <2>3, <2>4
<1>5. PICK b \in Seq(S) :
        /\ b = SubSeq(s, k + 1, n) /\ Len(b) = n - k
        /\ \A i \in 1..(n - k) : b[i] = s[k + i]
  <2>1. PICK f \in Int : f = k + 1 /\ \A i \in f..n : s[i] \in S
    BY <1>1, <1>2, <1>3
  <2>2. /\ SubSeq(s, f, n) \in Seq(S)
        /\ Len(SubSeq(s, f, n)) = IF f <= n THEN n - f + 1 ELSE 0
        /\ \A i \in 1..(n - f + 1) : SubSeq(s, f, n)[i] = s[f + i - 1]
    BY <2>1, <1>2, SubSeqProperties
  <2>3. (IF f <= n THEN n - f + 1 ELSE 0) = n - k /\ n - f + 1 = n - k
    BY <2>1, <1>1, <1>2
  <2>4. \A i \in 1..(n - k) : SubSeq(s, f, n)[i] = s[k + i]
    <3> SUFFICES ASSUME NEW i \in 1..(n - k) PROVE SubSeq(s, f, n)[i] = s[k + i]
      OBVIOUS
    <3>1. f + i - 1 = k + i
      BY <2>1, <1>1, <1>2
    <3>2. QED BY <2>2, <2>3, <3>1
  <2>5. QED BY <2>1, <2>2, <2>3, <2>4
<1>6. PICK t \in Seq(S) :
        /\ t = RemoveAt(s, k) /\ Len(t) = n - 1
        /\ \A i \in 1..(n - 1) : t[i] = IF i <= k - 1 THEN a[i] ELSE b[i - (k - 1)]
  <2>1. RemoveAt(s, k) = a \o b
    BY <1>2, <1>4, <1>5 DEF RemoveAt
  <2>2. k - 1 \in Nat /\ n - k \in Nat /\ (k - 1) + (n - k) = n - 1
    BY <1>1, <1>2
  <2>3. PICK la \in Nat, lb \in Nat : la = k - 1 /\ lb = n - k
    BY <2>2
  <2>4. la + lb = n - 1
    BY <2>2, <2>3
  <2>5. Len(a) = la /\ Len(b) = lb
    BY <2>3, <1>4, <1>5
  <2>6. /\ a \o b \in Seq(S)
        /\ Len(a \o b) = la + lb
        /\ \A i \in 1..(la + lb) : (a \o b)[i] = IF i <= la THEN a[i] ELSE b[i - la]
    <3>1. a \o b \in Seq(S)
      BY ConcatProperties
    <3>2. Len(a \o b) = la + lb
      BY <2>5, ConcatProperties
    <3>3. \A i \in 1..(la + lb) : (a \o b)[i] = IF i <= la THEN a[i] ELSE b[i - la]
      BY <2>5, ConcatProperties
    <3>4. QED BY <3>1, <3>2, <3>3
  <2>7. QED BY <2>1, <2>3, <2>4, <2>6
<1>7. \A i \in 1..(n - 1) : t[i] = IF i < k THEN s[i] ELSE s[i + 1]
  <2> SUFFICES ASSUME NEW i \in 1..(n - 1)
               PROVE  t[i] = IF i < k THEN s[i] ELSE s[i + 1]
    OBVIOUS
  <2>1. CASE i < k
    BY <2>1, <1>1, <1>2, <1>4, <1>6
  <2>2. CASE ~(i < k)
    <3>1. /\ i - (k - 1) \in 1..(n - k) /\ k + (i - (k - 1)) = i + 1
          /\ ~(i <= k - 1)
      BY <2>2, <1>1, <1>2
    <3>2. QED BY <3>1, <2>2, <1>5, <1>6
  <2>3. QED BY <2>1, <2>2
<1>8. DOMAIN t = 1..(n - 1)
  BY <1>6, LenProperties
<1>9. \A i, j \in 1..n : s[i] = s[j] => i = j
  BY <1>1, <1>2 DEF IsInjective
<1>10. ToSet(t) = ToSet(s) \ {s[k]}
  <2>1. ASSUME NEW i \in 1..(n - 1) PROVE t[i] \in ToSet(s) \ {s[k]}
    <3>1. PICK j \in 1..n : t[i] = s[j] /\ j # k
      BY <1>1, <1>2, <1>7
    <3>2. s[j] # s[k]
      BY <3>1, <1>1, <1>2, <1>9
    <3>3. QED BY <3>1, <3>2, <1>1, <1>2 DEF ToSet
  <2>2. ASSUME NEW j \in 1..n, s[j] # s[k] PROVE s[j] \in ToSet(t)
    <3>1. CASE j < k
      <4>1. j \in 1..(n - 1)
        BY <3>1, <1>1, <1>2
      <4>2. t[j] = s[j]
        BY <4>1, <3>1, <1>7
      <4>3. QED BY <4>1, <4>2, <1>8 DEF ToSet
    <3>2. CASE j > k
      <4>1. j - 1 \in 1..(n - 1) /\ ~(j - 1 < k) /\ (j - 1) + 1 = j
        BY <3>2, <1>1, <1>2
      <4>2. t[j - 1] = s[j]
        BY <4>1, <1>7
      <4>3. QED BY <4>1, <4>2, <1>8 DEF ToSet
    <3>3. QED BY <2>2, <3>1, <3>2, <1>1, <1>2
  <2>3. QED BY <2>1, <2>2, <1>1, <1>2, <1>8 DEF ToSet
<1>11. IsInjective(t)
  <2> SUFFICES ASSUME NEW i \in 1..(n - 1), NEW j \in 1..(n - 1), t[i] = t[j]
               PROVE  i = j
    BY <1>8 DEF IsInjective
  <2>1. i \in 1..n /\ j \in 1..n /\ i + 1 \in 1..n /\ j + 1 \in 1..n
    BY <1>2
  <2>2. CASE i < k /\ j < k
    BY <2>1, <2>2, <1>7, <1>9
  <2>3. CASE ~(i < k) /\ ~(j < k)
    <3>1. s[i + 1] = s[j + 1]
      BY <2>3, <1>7
    <3>2. i + 1 = j + 1
      BY <3>1, <2>1, <1>9
    <3>3. QED BY <3>2
  <2>4. CASE i < k /\ ~(j < k)
    <3>1. s[i] = s[j + 1]
      BY <2>4, <1>7
    <3>2. i = j + 1
      BY <3>1, <2>1, <1>9
    <3>3. QED BY <3>2, <2>4, <1>1
  <2>5. CASE ~(i < k) /\ j < k
    <3>1. s[i + 1] = s[j]
      BY <2>5, <1>7
    <3>2. i + 1 = j
      BY <3>1, <2>1, <1>9
    <3>3. QED BY <3>2, <2>5, <1>1
  <2>6. QED BY <2>2, <2>3, <2>4, <2>5
<1>12. QED BY <1>2, <1>6, <1>10, <1>11

-----------------------------------------------------------------------------
(* The cap, and who is registered *)

\* The part of the type invariant that this proof needs.
HubType == /\ handler \in [Socket -> Place]
           /\ waiting \in Seq(Socket)
           /\ holder \in Socket \cup {Nobody}
           /\ active \in Seq(Socket)

\* The lock is held by the endpoint that is in its handshake, and by no other.
LockIsForAccepting ==
  \A s \in Socket : handler[s] = "accepting" <=> holder = s

\* A place below the cap is kept for it.
PlaceIsKept == holder # Nobody => Len(active) < MaxConnections

WaitingInLine == /\ \A s \in ToSet(waiting) : handler[s] = "waiting"
                 /\ IsInjective(waiting)

\* The inductive invariant: the cap alone is not inductive, since the endpoint
\* that registers does not look at the cap again.
HubInv == /\ HubType
          /\ LockIsForAccepting
          /\ PlaceIsKept
          /\ WaitingInLine
          /\ CapIsEnforced
          /\ RegisteredAreOpen

LEMMA HubInit == Init => HubInv
<1> SUFFICES ASSUME Init PROVE HubInv
  OBVIOUS
<1>1. <<>> \in Seq(Socket) /\ Len(<<>>) = 0 /\ ToSet(<<>>) = {} /\ IsInjective(<<>>)
  BY EmptySeq DEF ToSet, IsInjective
<1>2. HubType
  BY <1>1 DEF Init, HubType, Place
<1>3. LockIsForAccepting /\ PlaceIsKept
  BY DEF Init, LockIsForAccepting, PlaceIsKept
<1>4. WaitingInLine
  BY <1>1 DEF Init, WaitingInLine
<1>5. CapIsEnforced /\ RegisteredAreOpen
  BY <1>1 DEF Init, CapIsEnforced, RegisteredAreOpen
<1>6. QED BY <1>2, <1>3, <1>4, <1>5 DEF HubInv

\* The first in line.
LEMMA InLine ==
  ASSUME HubInv, NEW s \in Socket, NextInLine(s)
  PROVE  /\ waiting # <<>> /\ handler[s] = "waiting" /\ holder = Nobody
         /\ Tail(waiting) \in Seq(Socket) /\ IsInjective(Tail(waiting))
         /\ ToSet(Tail(waiting)) = ToSet(waiting) \ {s}
<1>1. waiting # <<>> /\ Head(waiting) = s /\ holder = Nobody
  BY DEF NextInLine
<1>2. /\ s \in ToSet(waiting) /\ Tail(waiting) \in Seq(Socket)
      /\ IsInjective(Tail(waiting))
      /\ ToSet(Tail(waiting)) = ToSet(waiting) \ {s}
  BY <1>1, HeadAndTail DEF HubInv, HubType, WaitingInLine
<1>3. QED BY <1>1, <1>2 DEF HubInv, WaitingInLine

LEMMA HubStep == ASSUME HubInv, [Next]_vars PROVE HubInv'
<1> USE DEF connecting, sending, Goto
<1>1. CASE UNCHANGED <<handler, waiting, holder, active>>
  BY <1>1 DEF HubInv, HubType, LockIsForAccepting, PlaceIsKept, WaitingInLine,
              CapIsEnforced, RegisteredAreOpen
<1>2. ASSUME NEW s \in Socket, Connect(s) PROVE HubInv'
  <2>1. /\ handler[s] = "new" /\ handler' = [handler EXCEPT ![s] = "waiting"]
        /\ waiting' = Append(waiting, s) /\ UNCHANGED <<holder, active>>
    BY <1>2 DEF Connect
  <2>2. s \notin ToSet(waiting)
    BY <2>1 DEF HubInv, WaitingInLine
  <2>3. /\ waiting' \in Seq(Socket) /\ IsInjective(waiting')
        /\ ToSet(waiting') = ToSet(waiting) \cup {s}
    BY <2>1, <2>2, AppendedSet, AppendProperties
       DEF HubInv, HubType, WaitingInLine
  <2>4. HubType' /\ LockIsForAccepting' /\ PlaceIsKept' /\ CapIsEnforced'
    BY <2>1, <2>3 DEF HubInv, HubType, LockIsForAccepting, PlaceIsKept,
                      CapIsEnforced, Place
  <2>5. WaitingInLine' /\ RegisteredAreOpen'
    BY <2>1, <2>3 DEF HubInv, HubType, WaitingInLine, RegisteredAreOpen
  <2>6. QED BY <2>4, <2>5 DEF HubInv
<1>3. ASSUME NEW s \in Socket, Refuse(s) PROVE HubInv'
  <2>1. /\ NextInLine(s) /\ handler' = [handler EXCEPT ![s] = "refused"]
        /\ waiting' = Tail(waiting) /\ UNCHANGED <<holder, active>>
    BY <1>3 DEF Refuse
  <2>2. /\ handler[s] = "waiting" /\ waiting' \in Seq(Socket)
        /\ IsInjective(waiting') /\ ToSet(waiting') = ToSet(waiting) \ {s}
    BY <2>1, InLine
  <2>3. HubType' /\ LockIsForAccepting' /\ PlaceIsKept' /\ CapIsEnforced'
    BY <2>1, <2>2 DEF HubInv, HubType, LockIsForAccepting, PlaceIsKept,
                      CapIsEnforced, Place
  <2>4. WaitingInLine' /\ RegisteredAreOpen'
    BY <2>1, <2>2 DEF HubInv, HubType, WaitingInLine, RegisteredAreOpen
  <2>5. QED BY <2>3, <2>4 DEF HubInv
<1>4. ASSUME NEW s \in Socket, StartAccept(s) PROVE HubInv'
  <2>1. /\ NextInLine(s) /\ handler' = [handler EXCEPT ![s] = "accepting"]
        /\ waiting' = Tail(waiting) /\ holder' = s /\ active' = active
        /\ ~(Len(active) >= MaxConnections)
    BY <1>4 DEF StartAccept, LockWhileAccepting, Full
  <2>2. /\ handler[s] = "waiting" /\ waiting' \in Seq(Socket) /\ holder = Nobody
        /\ IsInjective(waiting') /\ ToSet(waiting') = ToSet(waiting) \ {s}
    BY <2>1, InLine
  <2>3. Len(active) \in Nat
    BY LenProperties DEF HubInv, HubType
  <2>4. HubType' /\ PlaceIsKept' /\ CapIsEnforced'
    BY <2>1, <2>2, <2>3 DEF HubInv, HubType, PlaceIsKept, CapIsEnforced, Place
  <2>5. LockIsForAccepting'
    BY <2>1, <2>2 DEF HubInv, HubType, LockIsForAccepting
  <2>6. WaitingInLine' /\ RegisteredAreOpen'
    BY <2>1, <2>2 DEF HubInv, HubType, WaitingInLine, RegisteredAreOpen
  <2>7. QED BY <2>4, <2>5, <2>6 DEF HubInv
<1>5. ASSUME NEW s \in Socket, Accepted(s) PROVE HubInv'
  <2>1. /\ handler[s] = "accepting" /\ handler' = [handler EXCEPT ![s] = "open"]
        /\ active' = Append(active, s) /\ holder' = Nobody /\ waiting' = waiting
    BY <1>5 DEF Accepted
  <2>2. holder = s /\ s # Nobody
    BY <2>1 DEF HubInv, LockIsForAccepting
  <2>3. s \notin ToSet(active)
    BY <2>1 DEF HubInv, RegisteredAreOpen
  <2>4. /\ active' \in Seq(Socket) /\ Len(active') = Len(active) + 1
        /\ ToSet(active') = ToSet(active) \cup {s} /\ IsInjective(active')
    BY <2>1, <2>3, AppendedSet, AppendProperties
       DEF HubInv, HubType, RegisteredAreOpen
  <2>5. Len(active) \in Nat /\ Len(active) < MaxConnections
    BY <2>2, LenProperties DEF HubInv, HubType, PlaceIsKept
  <2>6. HubType' /\ PlaceIsKept'
    BY <2>1, <2>4 DEF HubInv, HubType, PlaceIsKept, Place
  <2>7. CapIsEnforced'
    BY <2>4, <2>5 DEF CapIsEnforced
  <2>8. LockIsForAccepting'
    BY <2>1, <2>2 DEF HubInv, HubType, LockIsForAccepting
  <2>9. WaitingInLine' /\ RegisteredAreOpen'
    BY <2>1, <2>4 DEF HubInv, HubType, WaitingInLine, RegisteredAreOpen
  <2>10. QED BY <2>6, <2>7, <2>8, <2>9 DEF HubInv
<1>6. ASSUME NEW s \in Socket, AcceptRaises(s) PROVE HubInv'
  <2>1. /\ handler[s] = "accepting" /\ handler' = [handler EXCEPT ![s] = "closed"]
        /\ holder' = Nobody /\ UNCHANGED <<waiting, active>>
    BY <1>6 DEF AcceptRaises
  <2>2. holder = s /\ s # Nobody
    BY <2>1 DEF HubInv, LockIsForAccepting
  <2>3. HubType' /\ PlaceIsKept' /\ CapIsEnforced'
    BY <2>1 DEF HubInv, HubType, PlaceIsKept, CapIsEnforced, Place
  <2>4. LockIsForAccepting'
    BY <2>1, <2>2 DEF HubInv, HubType, LockIsForAccepting
  <2>5. WaitingInLine' /\ RegisteredAreOpen'
    BY <2>1 DEF HubInv, HubType, WaitingInLine, RegisteredAreOpen
  <2>6. QED BY <2>3, <2>4, <2>5 DEF HubInv
<1>7. ASSUME NEW s \in Socket, Disconnect(s) PROVE HubInv'
  <2>1. /\ handler[s] = "open" /\ handler' = [handler EXCEPT ![s] = "closed"]
        /\ active' = RemovedFrom(s) /\ UNCHANGED <<waiting, holder>>
    BY <1>7 DEF Disconnect
  <2>2. s \in ToSet(active)
    BY <2>1 DEF HubInv, RegisteredAreOpen
  <2>3. PICK i \in DOMAIN active : active[i] = s
    BY <2>2 DEF ToSet
  <2>4. \A j \in 1..(i - 1) : active[j] # s
    BY <2>3, LenProperties DEF HubInv, HubType, RegisteredAreOpen, IsInjective
  <2>5. PICK k \in DOMAIN active : k = FirstPlaceOf(s) /\ active[k] = s
    BY <2>3, <2>4 DEF FirstPlaceOf
  <2>6. active' = RemoveAt(active, k)
    BY <2>1, <2>2, <2>5 DEF RemovedFrom
  <2>7. /\ active' \in Seq(Socket) /\ Len(active') = Len(active) - 1
        /\ ToSet(active') = ToSet(active) \ {s} /\ IsInjective(active')
    BY <2>5, <2>6, RemovedSet DEF HubInv, HubType, RegisteredAreOpen
  <2>8. Len(active) \in Nat
    BY LenProperties DEF HubInv, HubType
  <2>9. HubType' /\ PlaceIsKept' /\ CapIsEnforced'
    BY <2>1, <2>7, <2>8 DEF HubInv, HubType, PlaceIsKept, CapIsEnforced, Place
  <2>10. LockIsForAccepting'
    BY <2>1 DEF HubInv, HubType, LockIsForAccepting
  <2>11. WaitingInLine' /\ RegisteredAreOpen'
    BY <2>1, <2>7 DEF HubInv, HubType, WaitingInLine, RegisteredAreOpen
  <2>12. QED BY <2>9, <2>10, <2>11 DEF HubInv
<1>8. ASSUME NEW s \in Socket, Leave(s) PROVE HubInv'
  BY <1>1, <1>8 DEF Leave
<1>9. ASSUME NEW m \in Message, Broadcast(m) \/ SendNext(m) PROVE HubInv'
  BY <1>1, <1>9 DEF Broadcast, SendNext
<1>10. CASE UNCHANGED vars
  BY <1>1, <1>10 DEF vars
<1>11. QED
  BY <1>2, <1>3, <1>4, <1>5, <1>6, <1>7, <1>8, <1>9, <1>10 DEF Next, Endpoint

\* The cap holds at every moment, whatever happens while a handshake is awaited.
THEOREM CapHolds == Spec => []CapIsEnforced
<1>1. HubInv => CapIsEnforced
  BY DEF HubInv
<1>2. QED BY <1>1, HubInit, HubStep, PTL DEF Spec

\* Exactly the sockets whose endpoint is in its receive loop are registered, and
\* each of them once.
THEOREM RegistrationIsExact == Spec => []RegisteredAreOpen
<1>1. HubInv => RegisteredAreOpen
  BY DEF HubInv
<1>2. QED BY <1>1, HubInit, HubStep, PTL DEF Spec
-----------------------------------------------------------------------------
(* What overlapping broadcasts give *)

SendType == /\ gone \in SUBSET Socket
            /\ history \in Seq(Message)
            /\ todo \in [Message -> Seq(Socket)]
            /\ got \in [Socket -> Seq(Message)]
            /\ audience \in [Message -> SUBSET Socket]
            /\ front \in [Message -> Socket \cup {Nobody}]

\* A message that was not broadcast yet is nowhere.
UnknownBefore ==
  \A m \in Message \ ToSet(history) :
     /\ todo[m] = <<>> /\ audience[m] = {}
     /\ \A s \in Socket : m \notin ToSet(got[s])

\* A broadcast goes on to sockets of its audience that do not have the message,
\* and no more to the first of them.
OnTheWay ==
  \A m \in Message :
     /\ IsInjective(todo[m])
     /\ ToSet(todo[m]) \subseteq audience[m]
     /\ front[m] \notin ToSet(todo[m])
     /\ \A s \in ToSet(todo[m]) : m \notin ToSet(got[s])

\* Who was there is still to be sent the message, or has it, or some client of
\* the audience left.
Reached ==
  \A m \in ToSet(history) : \A s \in audience[m] :
     \/ s \in ToSet(todo[m])
     \/ m \in ToSet(got[s])
     \/ audience[m] \cap gone # {}

\* The property looks at broadcasts that are over and at what has arrived; its
\* invariant follows each broadcast through the sockets that are still to come.
BroadcastInv == /\ SendType
                /\ IsInjective(history)
                /\ UnknownBefore
                /\ OnTheWay
                /\ Reached
                /\ ReceivedOnce
                /\ LongestConnectedInOrder

LEMMA BroadcastInit == Init => BroadcastInv
<1> SUFFICES ASSUME Init PROVE BroadcastInv
  OBVIOUS
<1>1. \A S : <<>> \in Seq(S)
  BY EmptySeq
<1>2. ToSet(<<>>) = {} /\ IsInjective(<<>>) /\ DOMAIN <<>> = {}
  BY DEF ToSet, IsInjective
<1>3. SendType
  BY <1>1 DEF Init, SendType
<1>4. /\ \A m \in Message : todo[m] = <<>> /\ audience[m] = {} /\ front[m] = Nobody
      /\ \A s \in Socket : got[s] = <<>>
      /\ history = <<>>
  BY DEF Init
<1>5. UnknownBefore /\ OnTheWay /\ Reached
  BY <1>2, <1>4 DEF UnknownBefore, OnTheWay, Reached
<1>6. ReceivedOnce /\ LongestConnectedInOrder
  BY <1>2, <1>4 DEF ReceivedOnce, LongestConnectedInOrder
<1>7. QED BY <1>2, <1>3, <1>4, <1>5, <1>6 DEF BroadcastInv

\* One send: whether it arrives, is ignored or raises, the rest of the broadcast
\* is some of the other sockets.
LEMMA SendEffect ==
  ASSUME SendType, NEW m \in Message, NEW sockets \in Seq(Socket), sockets # <<>>,
         IsInjective(sockets), SendFirst(m, sockets)
  PROVE  \E s \in Socket, rest \in Seq(Socket) :
           /\ s = Head(sockets) /\ s \in ToSet(sockets)
           /\ todo' = [todo EXCEPT ![m] = rest]
           /\ IsInjective(rest) /\ ToSet(rest) \subseteq ToSet(sockets) \ {s}
           /\ \/ /\ got' = [got EXCEPT ![s] = Append(got[s], m)]
                 /\ ToSet(rest) = ToSet(sockets) \ {s}
              \/ s \in gone /\ got' = got
<1>1. PICK s \in Socket : s = Head(sockets)
  BY HeadAndTail
<1>2. PICK rest \in Seq(Socket) : rest = Tail(sockets)
  BY HeadAndTail
<1>3. /\ s \in ToSet(sockets) /\ IsInjective(rest)
      /\ ToSet(rest) = ToSet(sockets) \ {s}
  BY <1>1, <1>2, HeadAndTail
<1>4. <<>> \in Seq(Socket) /\ ToSet(<<>>) = {} /\ IsInjective(<<>>)
  BY EmptySeq DEF ToSet, IsInjective
<1>5. CASE s \notin gone
  BY <1>1, <1>2, <1>3, <1>5 DEF SendFirst
<1>6. CASE s \in gone
  <2>1. CASE todo' = [todo EXCEPT ![m] = rest]
    BY <1>1, <1>2, <1>3, <1>6, <2>1 DEF SendFirst
  <2>2. CASE todo' = [todo EXCEPT ![m] = <<>>]
    BY <1>1, <1>3, <1>4, <1>6, <2>2 DEF SendFirst
  <2>3. QED BY <1>1, <1>2, <1>6, <2>1, <2>2 DEF SendFirst
<1>7. QED BY <1>5, <1>6

\* What the clients have after a send of m to s.
LEMMA GotAfter ==
  ASSUME SendType, ReceivedOnce, NEW m \in Message, NEW s \in Socket,
         m \notin ToSet(got[s]),
         got' = [got EXCEPT ![s] = Append(got[s], m)]
  PROVE  /\ got' \in [Socket -> Seq(Message)]
         /\ \A r \in Socket \ {s} : got'[r] = got[r]
         /\ Len(got[s]) \in Nat /\ DOMAIN got[s] = 1..Len(got[s])
         /\ DOMAIN got'[s] = 1..(Len(got[s]) + 1)
         /\ \A i \in 1..Len(got[s]) : got'[s][i] = got[s][i]
         /\ got'[s][Len(got[s]) + 1] = m
         /\ ToSet(got'[s]) = ToSet(got[s]) \cup {m}
         /\ IsInjective(got'[s])
<1>1. PICK g \in Seq(Message) : g = got[s]
  BY DEF SendType
<1>2. PICK h \in Seq(Message) : h = Append(g, m)
  BY AppendProperties
<1>3. got'[s] = h /\ \A r \in Socket \ {s} : got'[r] = got[r]
  BY <1>1, <1>2 DEF SendType
<1>4. got' \in [Socket -> Seq(Message)]
  BY <1>1, <1>2 DEF SendType
<1>5. /\ Len(h) = Len(g) + 1 /\ Len(g) \in Nat
      /\ \A i \in 1..Len(g) : h[i] = g[i]
      /\ h[Len(g) + 1] = m
      /\ DOMAIN h = 1..Len(h) /\ DOMAIN g = 1..Len(g)
  BY <1>2, AppendProperties, LenProperties
<1>6. IsInjective(g)
  BY <1>1 DEF ReceivedOnce
<1>7. ToSet(h) = ToSet(g) \cup {m} /\ IsInjective(h)
  BY <1>1, <1>2, <1>6, AppendedSet
<1>8. QED BY <1>1, <1>3, <1>4, <1>5, <1>7

\* The same for every client, for the order of messages.
Grew(m) ==
  \A r \in Socket : \E n \in Nat :
    /\ DOMAIN got[r] = 1..n
    /\ \/ got'[r] = got[r]
       \/ /\ DOMAIN got'[r] = 1..(n + 1)
          /\ \A i \in 1..n : got'[r][i] = got[r][i]
          /\ got'[r][n + 1] = m
          /\ m \in ToSet(history) => front[m] # r

LEMMA LengthOfGot ==
  ASSUME SendType, NEW r \in Socket
  PROVE  Len(got[r]) \in Nat /\ DOMAIN got[r] = 1..Len(got[r])
<1>1. got[r] \in Seq(Message)
  BY DEF SendType
<1>2. QED BY <1>1, LenProperties

\* The client first in line gets a message at once or never: what it gets from
\* older broadcasts does not come after what it has.
LEMMA OrderAfterSend ==
  ASSUME LongestConnectedInOrder, NEW m \in Message, Grew(m),
         UNCHANGED <<history, front>>, m \in ToSet(history)
  PROVE  LongestConnectedInOrder'
<1> SUFFICES ASSUME NEW r \in Socket, NEW i \in DOMAIN got'[r], NEW j \in DOMAIN got'[r],
                    NEW k \in DOMAIN history, NEW l \in DOMAIN history,
                    k < l, front[history[k]] = r,
                    got'[r][i] = history[k], got'[r][j] = history[l]
             PROVE  i < j
  BY DEF LongestConnectedInOrder
<1>1. PICK n \in Nat :
        /\ DOMAIN got[r] = 1..n
        /\ \/ got'[r] = got[r]
           \/ /\ DOMAIN got'[r] = 1..(n + 1)
              /\ \A x \in 1..n : got'[r][x] = got[r][x]
              /\ got'[r][n + 1] = m
              /\ front[m] # r
  BY DEF Grew
<1>2. \A x, y \in 1..n : got[r][x] = history[k] /\ got[r][y] = history[l] => x < y
  BY <1>1 DEF LongestConnectedInOrder
<1>3. CASE got'[r] = got[r]
  BY <1>1, <1>2, <1>3
<1>4. CASE /\ DOMAIN got'[r] = 1..(n + 1)
           /\ \A x \in 1..n : got'[r][x] = got[r][x]
           /\ got'[r][n + 1] = m
           /\ front[m] # r
  <2>1. i \in 1..n /\ got[r][i] = history[k]
    BY <1>4
  <2>2. CASE j \in 1..n
    BY <1>2, <1>4, <2>1, <2>2
  <2>3. CASE j = n + 1
    BY <2>1, <2>3
  <2>4. QED BY <1>4, <2>2, <2>3
<1>5. QED BY <1>1, <1>3, <1>4

LEMMA OrderAfterBroadcast ==
  ASSUME SendType, LongestConnectedInOrder, NEW m \in Message, Grew(m),
         m \notin ToSet(history), history' = Append(history, m),
         \A r \in Socket : m \notin ToSet(got[r]),
         \A x \in Message \ {m} : front'[x] = front[x]
  PROVE  LongestConnectedInOrder'
<1>1. /\ Len(history) \in Nat /\ DOMAIN history = 1..Len(history)
      /\ DOMAIN history' = 1..(Len(history) + 1)
      /\ \A k \in 1..Len(history) : history'[k] = history[k] /\ history[k] \in Message
      /\ history'[Len(history) + 1] = m
  <2>1. PICK h \in Seq(Message) : h = Append(history, m)
    BY AppendProperties DEF SendType
  <2>2. /\ Len(h) = Len(history) + 1 /\ h[Len(history) + 1] = m
        /\ \A k \in 1..Len(history) : h[k] = history[k]
    BY <2>1, AppendProperties DEF SendType
  <2>3. /\ DOMAIN h = 1..Len(h) /\ DOMAIN history = 1..Len(history)
        /\ Len(history) \in Nat
    BY LenProperties DEF SendType
  <2>4. \A k \in 1..Len(history) : history[k] \in Message
    BY ElementOfSeq DEF SendType
  <2>5. QED BY <2>1, <2>2, <2>3, <2>4
<1>2. \A k \in 1..Len(history) : history[k] # m
  BY <1>1 DEF ToSet
<1> SUFFICES ASSUME NEW r \in Socket, NEW i \in DOMAIN got'[r], NEW j \in DOMAIN got'[r],
                    NEW k \in DOMAIN history', NEW l \in DOMAIN history',
                    k < l, front'[history'[k]] = r,
                    got'[r][i] = history'[k], got'[r][j] = history'[l]
             PROVE  i < j
  BY DEF LongestConnectedInOrder
<1>3. PICK n \in Nat :
        /\ DOMAIN got[r] = 1..n
        /\ \/ got'[r] = got[r]
           \/ /\ DOMAIN got'[r] = 1..(n + 1)
              /\ \A x \in 1..n : got'[r][x] = got[r][x]
              /\ got'[r][n + 1] = m
  BY DEF Grew
<1>4. \A x \in 1..n : got[r][x] # m
  BY <1>3 DEF ToSet
<1>5. /\ k \in 1..Len(history) /\ history'[k] = history[k] /\ history[k] # m
      /\ front[history[k]] = r
  BY <1>1, <1>2
<1>6. i \in 1..n /\ got[r][i] = history[k]
  BY <1>3, <1>5
<1>7. CASE l \in 1..Len(history)
  <2>1. history'[l] = history[l] /\ history[l] # m
    BY <1>1, <1>2, <1>7
  <2>2. j \in 1..n /\ got[r][j] = history[l]
    BY <1>3, <2>1
  <2>3. QED BY <1>1, <1>3, <1>5, <1>6, <1>7, <2>2 DEF LongestConnectedInOrder
<1>8. CASE l = Len(history) + 1
  <2>1. j = n + 1
    BY <1>1, <1>3, <1>4, <1>8
  <2>2. QED BY <1>6, <2>1
<1>9. QED BY <1>1, <1>7, <1>8

LEMMA HistoryGrows ==
  ASSUME SendType, NEW m \in Message, m \notin ToSet(history), IsInjective(history),
         history' = Append(history, m)
  PROVE  /\ history' \in Seq(Message) /\ IsInjective(history')
         /\ ToSet(history') = ToSet(history) \cup {m}
BY AppendedSet, AppendProperties DEF SendType

\* After a send of m to one of the sockets it was still to be sent to: what holds
\* of the other messages holds on.
LEMMA SendKeeps ==
  ASSUME BroadcastInv, NEW m \in Message, NEW s \in Socket, NEW rest \in Seq(Socket),
         todo' = [todo EXCEPT ![m] = rest],
         IsInjective(rest), s \notin ToSet(rest),
         \A x \in Message \ {m} :
            audience'[x] = audience[x] /\ front'[x] = front[x],
         audience' \in [Message -> SUBSET Socket],
         front' \in [Message -> Socket \cup {Nobody}],
         gone' = gone,
         history' \in Seq(Message), IsInjective(history'),
         ToSet(history') = ToSet(history) \cup {m},
         s \in audience'[m], ToSet(rest) \subseteq audience'[m],
         front'[m] \notin ToSet(rest),
         m \notin ToSet(got[s]), \A r \in ToSet(rest) : m \notin ToSet(got[r]),
         \A r \in Socket : m \in ToSet(got[r]) => r \in audience'[m],
         \A r \in audience'[m] \ {s} :
            r \in ToSet(rest) \/ m \in ToSet(got[r]) \/ audience'[m] \cap gone # {}
            \/ s \in gone,
         \/ got' = [got EXCEPT ![s] = Append(got[s], m)]
         \/ s \in gone /\ got' = got,
         LongestConnectedInOrder'
  PROVE  BroadcastInv'
<1>1. /\ got' \in [Socket -> Seq(Message)]
      /\ \A r \in Socket \ {s} : got'[r] = got[r]
      /\ IsInjective(got'[s])
      /\ ToSet(got'[s]) = ToSet(got[s]) \cup (IF got' = got THEN {} ELSE {m})
      /\ got' = got => s \in gone
  <2>1. CASE got' = [got EXCEPT ![s] = Append(got[s], m)]
    <3>1. /\ got' \in [Socket -> Seq(Message)]
          /\ \A r \in Socket \ {s} : got'[r] = got[r]
          /\ ToSet(got'[s]) = ToSet(got[s]) \cup {m}
          /\ IsInjective(got'[s])
      BY <2>1, GotAfter, Zenon DEF BroadcastInv
    <3>2. got' # got
      BY <3>1
    <3>3. QED BY <3>1, <3>2
  <2>2. CASE s \in gone /\ got' = got
    BY <2>2 DEF BroadcastInv, SendType, ReceivedOnce
  <2>3. QED BY <2>1, <2>2
<1>2. /\ todo' \in [Message -> Seq(Socket)] /\ todo'[m] = rest
      /\ \A x \in Message \ {m} : todo'[x] = todo[x]
  BY DEF BroadcastInv, SendType
<1>3. SendType'
  BY <1>1, <1>2 DEF BroadcastInv, SendType
<1>4. \A r \in Socket, x \in Message \ {m} : x \in ToSet(got'[r]) <=> x \in ToSet(got[r])
  BY <1>1
<1>5. \A r \in Socket \ {s} : m \in ToSet(got'[r]) <=> m \in ToSet(got[r])
  BY <1>1
<1>6. UnknownBefore'
  BY <1>2, <1>4 DEF BroadcastInv, UnknownBefore
<1>7. OnTheWay'
  <2> SUFFICES ASSUME NEW x \in Message
               PROVE  /\ IsInjective(todo'[x])
                      /\ ToSet(todo'[x]) \subseteq audience'[x]
                      /\ front'[x] \notin ToSet(todo'[x])
                      /\ \A r \in ToSet(todo'[x]) : x \notin ToSet(got'[r])
    BY DEF OnTheWay
  <2>1. CASE x = m
    <3>1. \A r \in ToSet(rest) : r \in Socket \ {s}
      BY <1>3 DEF SendType
    <3>2. QED BY <1>2, <1>5, <2>1, <3>1
  <2>2. CASE x # m
    <3>1. \A r \in ToSet(todo[x]) : r \in Socket
      BY DEF BroadcastInv, OnTheWay, SendType
    <3>2. QED BY <1>2, <1>4, <2>2, <3>1 DEF BroadcastInv, OnTheWay
  <2>3. QED BY <2>1, <2>2
<1>8. Reached'
  <2> SUFFICES ASSUME NEW x \in ToSet(history'), NEW r \in audience'[x]
               PROVE  \/ r \in ToSet(todo'[x]) \/ x \in ToSet(got'[r])
                      \/ audience'[x] \cap gone' # {}
    BY DEF Reached
  <2>1. x \in Message /\ r \in Socket
    <3>1. ToSet(history') \subseteq Message
      BY ElementOfSeq, LenProperties DEF ToSet
    <3>2. QED BY <3>1
  <2>2. CASE x = m /\ r = s
    BY <1>1, <2>2
  <2>3. CASE x = m /\ r # s
    BY <1>2, <1>5, <2>1, <2>3
  <2>4. CASE x # m
    BY <1>2, <1>4, <2>1, <2>4 DEF BroadcastInv, Reached
  <2>5. QED BY <2>2, <2>3, <2>4
<1>9. ReceivedOnce'
  <2> SUFFICES ASSUME NEW r \in Socket
               PROVE  /\ IsInjective(got'[r])
                      /\ \A x \in ToSet(got'[r]) : r \in audience'[x]
    BY DEF ReceivedOnce
  <2>1. IsInjective(got'[r])
    BY <1>1 DEF BroadcastInv, ReceivedOnce
  <2>2. ASSUME NEW x \in ToSet(got'[r]) PROVE r \in audience'[x]
    <3>1. x \in Message
      BY <1>1, ElementOfSeq, LenProperties DEF ToSet
    <3>2. CASE x = m
      BY <1>5, <2>2, <3>2
    <3>3. CASE x # m
      BY <1>4, <2>2, <3>1, <3>3 DEF BroadcastInv, ReceivedOnce
    <3>4. QED BY <3>2, <3>3
  <2>3. QED BY <2>1, <2>2
<1>10. QED BY <1>3, <1>6, <1>7, <1>8, <1>9 DEF BroadcastInv

\* A send lets what the clients have grow as the order of messages needs it.
LEMMA SendGrows ==
  ASSUME SendType, ReceivedOnce, NEW m \in Message, NEW s \in Socket,
         m \notin ToSet(got[s]),
         \/ got' = [got EXCEPT ![s] = Append(got[s], m)]
         \/ got' = got,
         m \in ToSet(history) => front[m] # s
  PROVE  Grew(m)
<1> SUFFICES ASSUME NEW r \in Socket
             PROVE  \E n \in Nat :
                      /\ DOMAIN got[r] = 1..n
                      /\ \/ got'[r] = got[r]
                         \/ /\ DOMAIN got'[r] = 1..(n + 1)
                            /\ \A i \in 1..n : got'[r][i] = got[r][i]
                            /\ got'[r][n + 1] = m
                            /\ m \in ToSet(history) => front[m] # r
  BY DEF Grew
<1>1. PICK n \in Nat : n = Len(got[r]) /\ DOMAIN got[r] = 1..n
  BY LengthOfGot
<1>2. CASE got' = got
  BY <1>1, <1>2
<1>3. CASE got' = [got EXCEPT ![s] = Append(got[s], m)]
  <2>1. /\ \A q \in Socket \ {s} : got'[q] = got[q]
        /\ DOMAIN got'[s] = 1..(Len(got[s]) + 1)
        /\ \A i \in 1..Len(got[s]) : got'[s][i] = got[s][i]
        /\ got'[s][Len(got[s]) + 1] = m
    BY <1>3, GotAfter, Zenon
  <2>2. CASE r = s
    BY <1>1, <2>1, <2>2
  <2>3. CASE r # s
    BY <1>1, <2>1, <2>3
  <2>4. QED BY <2>2, <2>3
<1>4. QED BY <1>2, <1>3

LEMMA BroadcastStep == ASSUME HubInv, BroadcastInv, [Next]_vars PROVE BroadcastInv'
<1>0. SendType /\ ReceivedOnce /\ IsInjective(history) /\ LongestConnectedInOrder
  BY DEF BroadcastInv
<1>1. ASSUME UNCHANGED sending, gone \subseteq gone', gone' \in SUBSET Socket
      PROVE  BroadcastInv'
  <2>1. UNCHANGED <<history, todo, got, audience, front>>
    BY <1>1 DEF sending
  <2>2. SendType' /\ IsInjective(history')
    BY <1>1, <2>1 DEF BroadcastInv, SendType
  <2>3. UnknownBefore' /\ OnTheWay' /\ Reached'
    BY <1>1, <2>1 DEF BroadcastInv, UnknownBefore, OnTheWay, Reached
  <2>4. ReceivedOnce' /\ LongestConnectedInOrder'
    BY <2>1 DEF BroadcastInv, ReceivedOnce, LongestConnectedInOrder
  <2>5. QED BY <2>2, <2>3, <2>4 DEF BroadcastInv
<1>2. ASSUME NEW s \in Socket, Connect(s) \/ Leave(s) \/ Endpoint(s)
      PROVE  BroadcastInv'
  <2>1. UNCHANGED sending /\ (gone' = gone \/ gone' = gone \cup {s})
    BY <1>2 DEF Connect, Leave, Endpoint, Refuse, StartAccept, Accepted,
                AcceptRaises, Disconnect
  <2>2. gone \subseteq gone' /\ gone' \in SUBSET Socket
    BY <1>0, <2>1 DEF SendType
  <2>3. QED BY <1>1, <2>1, <2>2
<1>3. ASSUME NEW m \in Message, Broadcast(m) PROVE BroadcastInv'
  <2>1. /\ m \notin ToSet(history) /\ history' = Append(history, m)
        /\ audience' = [audience EXCEPT ![m] = ToSet(active)]
        /\ gone' = gone
    BY <1>3 DEF Broadcast
  <2>2. active \in Seq(Socket) /\ IsInjective(active) /\ ToSet(active) \subseteq Socket
    BY DEF HubInv, HubType, RegisteredAreOpen
  <2>3. /\ history' \in Seq(Message) /\ IsInjective(history')
        /\ ToSet(history') = ToSet(history) \cup {m}
    BY <1>0, <2>1, HistoryGrows
  <2>4. /\ \A x \in Message \ {m} : audience'[x] = audience[x]
        /\ audience' \in [Message -> SUBSET Socket] /\ audience'[m] = ToSet(active)
    BY <1>0, <2>1, <2>2 DEF SendType
  <2>5. /\ \A r \in Socket : m \notin ToSet(got[r])
        /\ todo[m] = <<>> /\ ToSet(<<>>) = {}
    BY <2>1 DEF BroadcastInv, UnknownBefore, ToSet
  <2>6. CASE active = <<>> /\ UNCHANGED <<todo, got, front>>
    <3>1. audience'[m] = {}
      BY <2>4, <2>5, <2>6
    <3>2. SendType'
      BY <1>0, <2>1, <2>3, <2>4, <2>6 DEF SendType
    <3>3. \A r \in Socket : \E n \in Nat : DOMAIN got[r] = 1..n
      BY <1>0, LengthOfGot
    <3>4. Grew(m)
      BY <2>6, <3>3 DEF Grew
    <3>5. LongestConnectedInOrder'
      BY <1>0, <2>1, <2>5, <2>6, <3>4, OrderAfterBroadcast
    <3>6. UnknownBefore' /\ OnTheWay'
      BY <2>3, <2>4, <2>5, <2>6 DEF BroadcastInv, UnknownBefore, OnTheWay
    <3>7. Reached'
      <4>1. ToSet(history') \subseteq Message
        BY <2>3, ElementOfSeq, LenProperties DEF ToSet
      <4>2. QED BY <2>1, <2>3, <2>4, <2>6, <3>1, <4>1 DEF BroadcastInv, Reached
    <3>8. ReceivedOnce'
      <4>1. \A r \in Socket : ToSet(got[r]) \subseteq Message \ {m}
        BY <1>0, <2>5, ElementOfSeq, LenProperties DEF ToSet, SendType
      <4>2. QED BY <2>4, <2>6, <4>1 DEF BroadcastInv, ReceivedOnce
    <3>9. QED BY <2>3, <3>2, <3>5, <3>6, <3>7, <3>8 DEF BroadcastInv
  <2>7. CASE active # <<>> /\ front' = [front EXCEPT ![m] = Head(active)]
             /\ SendFirst(m, active)
    <3>1. PICK s \in Socket, rest \in Seq(Socket) :
            /\ s = Head(active) /\ s \in ToSet(active)
            /\ todo' = [todo EXCEPT ![m] = rest]
            /\ IsInjective(rest) /\ ToSet(rest) \subseteq ToSet(active) \ {s}
            /\ \/ /\ got' = [got EXCEPT ![s] = Append(got[s], m)]
                  /\ ToSet(rest) = ToSet(active) \ {s}
               \/ s \in gone /\ got' = got
      BY <1>0, <2>2, <2>7, SendEffect
    <3>2. /\ \A x \in Message \ {m} : front'[x] = front[x]
          /\ front' \in [Message -> Socket \cup {Nobody}] /\ front'[m] = s
      BY <1>0, <2>7, <3>1 DEF SendType
    <3>3. Grew(m)
      BY <1>0, <2>1, <2>5, <3>1, SendGrows
    <3>4. LongestConnectedInOrder'
      BY <1>0, <2>1, <2>5, <3>2, <3>3, OrderAfterBroadcast
    <3>5. \A r \in audience'[m] \ {s} : r \in ToSet(rest) \/ s \in gone
      BY <2>4, <3>1
    <3>6. \A r \in ToSet(rest) : r \in Socket
      BY <2>2, <3>1
    <3>7. QED
      BY <2>1, <2>3, <2>4, <2>5, <3>1, <3>2, <3>4, <3>5, <3>6, SendKeeps
  <2>8. QED BY <1>3, <2>6, <2>7 DEF Broadcast, Recipients
<1>4. ASSUME NEW m \in Message, SendNext(m) PROVE BroadcastInv'
  <2>1. /\ todo[m] # <<>> /\ SendFirst(m, todo[m])
        /\ UNCHANGED <<gone, history, audience, front>>
    BY <1>4 DEF SendNext
  <2>2. m \in ToSet(history)
    BY <2>1 DEF BroadcastInv, UnknownBefore
  <2>3. /\ todo[m] \in Seq(Socket) /\ IsInjective(todo[m])
        /\ ToSet(todo[m]) \subseteq audience[m] /\ audience[m] \subseteq Socket
        /\ front[m] \notin ToSet(todo[m])
        /\ \A r \in ToSet(todo[m]) : m \notin ToSet(got[r])
    BY <1>0 DEF BroadcastInv, OnTheWay, SendType
  <2>4. PICK s \in Socket, rest \in Seq(Socket) :
          /\ s = Head(todo[m]) /\ s \in ToSet(todo[m])
          /\ todo' = [todo EXCEPT ![m] = rest]
          /\ IsInjective(rest) /\ ToSet(rest) \subseteq ToSet(todo[m]) \ {s}
          /\ \/ /\ got' = [got EXCEPT ![s] = Append(got[s], m)]
                /\ ToSet(rest) = ToSet(todo[m]) \ {s}
             \/ s \in gone /\ got' = got
    BY <1>0, <2>1, <2>3, SendEffect
  <2>5. m \notin ToSet(got[s]) /\ front[m] # s
    BY <2>3, <2>4
  <2>6. LongestConnectedInOrder'
    <3>1. Grew(m)
      BY <1>0, <2>4, <2>5, SendGrows
    <3>2. QED BY <1>0, <2>1, <2>2, <3>1, OrderAfterSend
  <2>7. /\ \A x \in Message \ {m} : audience'[x] = audience[x] /\ front'[x] = front[x]
        /\ audience' \in [Message -> SUBSET Socket]
        /\ front' \in [Message -> Socket \cup {Nobody}]
        /\ history' \in Seq(Message) /\ IsInjective(history')
        /\ ToSet(history') = ToSet(history) \cup {m}
    BY <1>0, <2>1, <2>2 DEF SendType
  <2>8. \A r \in Socket : m \in ToSet(got[r]) => r \in audience'[m]
    BY <1>0, <2>1 DEF ReceivedOnce
  <2>9. \A r \in audience'[m] \ {s} :
          r \in ToSet(rest) \/ m \in ToSet(got[r]) \/ audience'[m] \cap gone # {}
          \/ s \in gone
    BY <2>1, <2>2, <2>4 DEF BroadcastInv, Reached
  <2>10. /\ s \in audience'[m] /\ ToSet(rest) \subseteq audience'[m]
         /\ s \notin ToSet(rest) /\ front'[m] \notin ToSet(rest)
         /\ \A r \in ToSet(rest) : m \notin ToSet(got[r])
    BY <2>1, <2>3, <2>4
  <2>11. QED
    BY <2>1, <2>4, <2>5, <2>6, <2>7, <2>8, <2>9, <2>10, SendKeeps
<1>5. CASE UNCHANGED vars
  <2>1. UNCHANGED sending /\ gone' = gone
    BY <1>5 DEF vars
  <2>2. QED BY <1>0, <1>1, <2>1 DEF SendType
<1>6. QED BY <1>2, <1>3, <1>4, <1>5 DEF Next

\* Every variable keeps its type.
THEOREM TypeCorrect == Spec => []TypeOK
<1>1. HubInv /\ BroadcastInv => TypeOK
  BY DEF HubInv, BroadcastInv, HubType, SendType, TypeOK
<1>2. QED
  BY <1>1, HubInit, HubStep, BroadcastInit, BroadcastStep, PTL DEF Spec

\* However broadcasts overlap and clients come and go: a client gets a message at
\* most once and only if it was there when the message was broadcast, the client
\* connected longest gets the messages in order, and a client misses one only if
\* some client of that message's audience left.
THEOREM BroadcastsReachWhoStays == Spec => []MissedOnlyIfSomeoneLeft
<1>1. HubInv /\ BroadcastInv => MissedOnlyIfSomeoneLeft
  <2> SUFFICES ASSUME BroadcastInv, NEW m \in ToSet(history) \ Unfinished,
                      NEW s \in audience[m]
               PROVE  m \in ToSet(got[s]) \/ audience[m] \cap gone # {}
    BY DEF BroadcastInv, MissedOnlyIfSomeoneLeft
  <2>1. m \in Message
    BY ElementOfSeq, LenProperties DEF BroadcastInv, SendType, ToSet
  <2>2. todo[m] = <<>> /\ ToSet(<<>>) = {}
    BY <2>1 DEF Unfinished, ToSet
  <2>3. QED BY <2>2 DEF BroadcastInv, Reached
<1>2. QED
  BY <1>1, HubInit, HubStep, BroadcastInit, BroadcastStep, PTL DEF Spec
=============================================================================
