-------------------------- MODULE LiveMonitorProofs --------------------------
(* Proofs that the page has one realtime connection, that its screen is honest and
   what may take an alert off it, for any number of mounts, sockets and polls, any
   traffic, any failures and any limits of the lists. *)
EXTENDS LiveMonitor, ListLemmas, SequenceTheorems, TLAPS

Phases       == {"connecting", "open", "failed", "closing", "closed"}
StatusRecord == [edge : Level3, mqtt : Level3, ws : Level3, last : Message \cup {NoMessage}]
MountRecord  == [socket : Nat, disposed : BOOLEAN, reconnect : BOOLEAN, stale : BOOLEAN]
SocketRecord == [mount : Nat, phase : Phases, inbox : Seq(Message)]

Typed ==
    /\ status \in StatusRecord
    /\ mounts \in Seq(MountRecord) /\ Len(mounts) >= 1
    /\ sockets \in Seq(SocketRecord)
    /\ sent \in Nat

\* A mount and its last socket know one another, and a socket its mount.
Linked ==
    /\ \A m \in Mount : /\ mounts[m].socket \in Socket
                        /\ sockets[mounts[m].socket].mount = m
    /\ \A s \in Socket : sockets[s].mount \in Mount

\* All mounts but the last were disposed of.
OneMount == \A m \in Mount : mounts[m].disposed <=> m # Current

\* Only the cleanup of a mount closes a socket.
ClosedByCleanup == \A s \in Socket : sockets[s].phase = "closing" => Disposed(s)

\* The page knows that its open socket is.
OpenIsOnline == sockets[mounts[Current].socket].phase = "open" => status.ws = "online"

ConnectionInv ==
    Typed /\ Linked /\ OneMount /\ ClosedByCleanup /\ OpenIsOnline /\ OneConnection

-----------------------------------------------------------------------------
(* Sequences. *)

\* What EXCEPT and Append leave of a sequence.
LEMMA SeqExcept ==
    ASSUME NEW S, NEW seq \in Seq(S), NEW i \in DOMAIN seq, NEW x \in S
    PROVE  /\ [seq EXCEPT ![i] = x] \in Seq(S)
           /\ Len([seq EXCEPT ![i] = x]) = Len(seq)
           /\ DOMAIN [seq EXCEPT ![i] = x] = DOMAIN seq
           /\ [seq EXCEPT ![i] = x][i] = x
           /\ \A j \in DOMAIN seq : j # i => [seq EXCEPT ![i] = x][j] = seq[j]
OBVIOUS

LEMMA SeqAppend ==
    ASSUME NEW S, NEW seq \in Seq(S), NEW x \in S
    PROVE  /\ Append(seq, x) \in Seq(S)
           /\ Len(Append(seq, x)) = Len(seq) + 1
           /\ DOMAIN Append(seq, x) = DOMAIN seq \cup {Len(seq) + 1}
           /\ Append(seq, x)[Len(seq) + 1] = x
           /\ \A j \in DOMAIN seq : Append(seq, x)[j] = seq[j]
           /\ DOMAIN seq = 1 .. Len(seq) /\ Len(seq) \in Nat
BY AppendProperties

-----------------------------------------------------------------------------
(* The steps, one lemma for each kind. *)

\* Initially there is one mount, with one socket.
LEMMA InitInv == Init => ConnectionInv
<1> SUFFICES ASSUME Init PROVE ConnectionInv
  OBVIOUS
<1> USE DEF Init, RealtimeInit, NewMount, NewSocket
<1>1. /\ NewMount(1) \in MountRecord /\ NewSocket(1) \in SocketRecord
  BY EmptySeq DEF MountRecord, SocketRecord, Phases
<1>2. /\ Len(mounts) = 1 /\ Len(sockets) = 1 /\ Mount = {1} /\ Socket = {1}
      /\ mounts[1] = NewMount(1) /\ sockets[1] = NewSocket(1)
  BY DEF Mount, Socket
<1>3. Typed
  BY <1>1, <1>2, LiveAssumption DEF Typed, StatusRecord, Level3
<1>4. Linked /\ OneMount /\ ClosedByCleanup /\ OpenIsOnline
  BY <1>2 DEF Linked, OneMount, ClosedByCleanup, OpenIsOnline, Current
<1>5. OneConnection
  BY <1>2 DEF OneConnection, Current, Closable
<1> QED  BY <1>3, <1>4, <1>5 DEF ConnectionInv

\* What a step does that changes one socket, and of mounts no more than the timers.
LEMMA SocketStep ==
    ASSUME ConnectionInv, NEW s \in Socket, NEW r \in SocketRecord,
           r.mount = sockets[s].mount,
           sockets' = [sockets EXCEPT ![s] = r],
           status' \in StatusRecord, sent' \in Nat,
           mounts' \in Seq(MountRecord), Len(mounts') = Len(mounts),
           \A m \in Mount : /\ mounts'[m].socket = mounts[m].socket
                            /\ mounts'[m].disposed <=> mounts[m].disposed
    PROVE  /\ Typed' /\ Linked' /\ OneMount'
           /\ Socket' = Socket /\ Mount' = Mount /\ Current' = Current
           /\ sockets'[s] = r /\ \A other \in Socket : other # s => sockets'[other] = sockets[other]
           /\ \A other \in Socket : (Disposed(other)' <=> Disposed(other))
           /\ Current \in Mount /\ mounts[Current].socket \in Socket
<1>1. /\ sockets' \in Seq(SocketRecord) /\ Socket' = Socket /\ sockets'[s] = r
      /\ \A other \in Socket : other # s => sockets'[other] = sockets[other]
  BY SeqExcept DEF ConnectionInv, Typed, Socket
<1>2. Mount' = Mount /\ Current' = Current /\ Current \in Mount
  BY DEF ConnectionInv, Typed, Mount, Current
<1>3. \A other \in Socket : sockets'[other].mount = sockets[other].mount
  BY <1>1
<1>4. Typed'
  BY <1>1 DEF Typed, ConnectionInv
<1>5. Linked' /\ mounts[Current].socket \in Socket
  BY <1>1, <1>2, <1>3 DEF Linked, ConnectionInv
<1>6. OneMount'
  BY <1>2 DEF OneMount, ConnectionInv
<1>7. \A other \in Socket : (Disposed(other)' <=> Disposed(other))
  BY <1>3 DEF Disposed, ConnectionInv, Linked
<1> QED  BY <1>1, <1>2, <1>4, <1>5, <1>6, <1>7

\* A callback of a socket whose mount was disposed of: nothing but the socket
\* changes.
LEMMA DisposedStep ==
    ASSUME ConnectionInv, NEW s \in Socket, NEW r \in SocketRecord, Disposed(s),
           r.mount = sockets[s].mount,
           sockets' = [sockets EXCEPT ![s] = r],
           r.phase \in Closable => sockets[s].phase \in Closable,
           UNCHANGED <<status, mounts, sent>>
    PROVE  ConnectionInv'
<1>1. s # mounts[Current].socket
  BY DEF ConnectionInv, Linked, OneMount, Disposed, Typed, Current, Mount
<1>2. /\ Typed' /\ Linked' /\ OneMount'
      /\ Socket' = Socket /\ Mount' = Mount /\ Current' = Current
      /\ sockets'[s] = r /\ \A other \in Socket : other # s => sockets'[other] = sockets[other]
      /\ \A other \in Socket : (Disposed(other)' <=> Disposed(other))
      /\ Current \in Mount /\ mounts[Current].socket \in Socket
  <2>1. /\ status' \in StatusRecord /\ sent' \in Nat /\ mounts' \in Seq(MountRecord)
        /\ Len(mounts') = Len(mounts)
    BY DEF ConnectionInv, Typed
  <2> QED  BY <2>1, SocketStep
<1>3. ClosedByCleanup' /\ OpenIsOnline'
  BY <1>1, <1>2 DEF ConnectionInv, ClosedByCleanup, OpenIsOnline
<1>4. OneConnection'
  BY <1>1, <1>2 DEF ConnectionInv, OneConnection
<1> QED  BY <1>2, <1>3, <1>4 DEF ConnectionInv

\* A callback of the socket in use, or of its mount's timer.
LEMMA CurrentStep ==
    ASSUME ConnectionInv, NEW s \in Socket, s = mounts[Current].socket,
           NEW r \in SocketRecord, r.mount = sockets[s].mount, r.phase # "closing",
           sockets' = [sockets EXCEPT ![s] = r],
           NEW q \in MountRecord, q.socket = s, ~q.disposed,
           mounts' = [mounts EXCEPT ![Current] = q],
           status' \in StatusRecord, sent' = sent,
           r.phase = "open" =>
              /\ status'.ws = "online"
              /\ status'.edge = "online" \/ status'.mqtt = "online" => q.stale,
           q.reconnect => r.phase = "closed"
    PROVE  ConnectionInv'
<1>1. Current \in Mount /\ mounts \in Seq(MountRecord) /\ sent' \in Nat
  BY DEF ConnectionInv, Typed, Current, Mount
<1>2. /\ mounts' \in Seq(MountRecord) /\ Len(mounts') = Len(mounts)
      /\ mounts'[Current] = q
      /\ \A k \in Mount : k # Current => mounts'[k] = mounts[k]
  BY <1>1, SeqExcept DEF Mount
<1>3. ~mounts[Current].disposed
  BY <1>1 DEF ConnectionInv, OneMount
<1>4. \A k \in Mount : /\ mounts'[k].socket = mounts[k].socket
                       /\ mounts'[k].disposed <=> mounts[k].disposed
  <2>1. q.disposed <=> mounts[Current].disposed
    BY <1>3
  <2> QED  BY <1>2, <2>1
<1>5. /\ Typed' /\ Linked' /\ OneMount'
      /\ Socket' = Socket /\ Mount' = Mount /\ Current' = Current
      /\ sockets'[s] = r /\ \A other \in Socket : other # s => sockets'[other] = sockets[other]
      /\ \A other \in Socket : (Disposed(other)' <=> Disposed(other))
  BY <1>1, <1>2, <1>4, SocketStep
<1>6. ClosedByCleanup' /\ OpenIsOnline'
  BY <1>2, <1>5 DEF ConnectionInv, ClosedByCleanup, OpenIsOnline
<1>7. OneConnection'
  <2>1. \A k \in Mount : mounts'[k].disposed => ~mounts'[k].stale /\ ~mounts'[k].reconnect
    BY <1>2 DEF ConnectionInv, OneConnection
  <2> QED  BY <1>1, <1>2, <1>5, <2>1 DEF ConnectionInv, OneConnection
<1> QED  BY <1>5, <1>6, <1>7 DEF ConnectionInv

\* A socket is one.
LEMMA SocketFields ==
    ASSUME Typed, NEW s \in Socket
    PROVE  /\ sockets[s] \in SocketRecord
           /\ sockets[s].phase \in Phases /\ sockets[s].inbox \in Seq(Message)
<1>1. sockets[s] \in SocketRecord
  BY DEF Typed, Socket
<1> QED  BY <1>1 DEF SocketRecord

\* A socket that is not closed is the one in use, unless its mount was disposed of.
LEMMA SocketInUse ==
    ASSUME ConnectionInv, NEW s \in Socket, sockets[s].phase # "closed", ~Disposed(s)
    PROVE  /\ s = mounts[Current].socket /\ sockets[s].mount = Current
           /\ Current \in Mount /\ mounts[Current] \in MountRecord
           /\ mounts[Current].socket = s /\ ~mounts[Current].disposed
<1>1. sockets[s].phase \in Closable
  <2>1. sockets[s].phase \in Phases /\ sockets[s].phase # "closing"
    BY SocketFields DEF ConnectionInv, ClosedByCleanup
  <2> QED  BY <2>1 DEF Phases, Closable
<1> QED  BY <1>1 DEF ConnectionInv, OneConnection, Linked, OneMount, Disposed, Typed, Mount

\* A socket in a changed phase.
LEMMA SocketTypes ==
    ASSUME Typed, NEW s \in Socket, NEW phase \in Phases
    PROVE  /\ [sockets[s] EXCEPT !.phase = phase] \in SocketRecord
           /\ [sockets[s] EXCEPT !.phase = phase].mount = sockets[s].mount
           /\ [sockets[s] EXCEPT !.phase = phase].phase = phase
           /\ sockets[s] \in SocketRecord
<1>1. sockets[s] \in SocketRecord
  BY DEF Typed, Socket
<1> QED  BY <1>1 DEF SocketRecord

LEMMA OpenInv ==
    ASSUME ConnectionInv, NEW s \in Socket, Open(s), sent' = sent
    PROVE  ConnectionInv'
<1> DEFINE r == [sockets[s] EXCEPT !.phase = "open"]
<1>1. /\ r \in SocketRecord /\ r.mount = sockets[s].mount /\ r.phase = "open"
      /\ sockets' = [sockets EXCEPT ![s] = r]
      /\ sockets[s].phase = "connecting"
  BY SocketTypes DEF ConnectionInv, Open, Phase, Phases
<1> HIDE DEF r
<1>2. CASE Disposed(s)
  BY <1>1, <1>2, DisposedStep DEF Open, Closable
<1>3. CASE ~Disposed(s)
  <2> DEFINE q == [mounts[Current] EXCEPT !.stale = TRUE]
  <2>1. /\ s = mounts[Current].socket /\ sockets[s].mount = Current
        /\ mounts[Current] \in MountRecord /\ ~mounts[Current].disposed
    BY <1>1, <1>3, SocketInUse
  <2>2. /\ q \in MountRecord /\ q.socket = s /\ ~q.disposed /\ q.stale
        /\ q.reconnect = mounts[Current].reconnect
    BY <2>1 DEF MountRecord
  <2>3. mounts' = [mounts EXCEPT ![Current] = q]
    BY <1>3, <2>1 DEF Open
  <2>4. status' \in StatusRecord /\ status'.ws = "online"
    BY <1>3 DEF Open, ConnectionInv, Typed, StatusRecord, Level3
  <2>5. ~q.reconnect
    BY <1>1, <2>1, <2>2 DEF ConnectionInv, OneConnection
  <2> HIDE DEF q
  <2> QED  BY <1>1, <2>1, <2>2, <2>3, <2>4, <2>5, CurrentStep
<1> QED  BY <1>2, <1>3

LEMMA FailInv ==
    ASSUME ConnectionInv, NEW s \in Socket, Fail(s), sent' = sent
    PROVE  ConnectionInv'
<1> DEFINE r == [sockets[s] EXCEPT !.phase = "failed"]
<1>1. /\ r \in SocketRecord /\ r.mount = sockets[s].mount /\ r.phase = "failed"
      /\ sockets' = [sockets EXCEPT ![s] = r]
      /\ sockets[s].phase \in {"connecting", "open"}
  BY SocketTypes DEF ConnectionInv, Fail, Phase, Phases
<1> HIDE DEF r
<1>2. CASE Disposed(s)
  BY <1>1, <1>2, DisposedStep DEF Fail, Closable
<1>3. CASE ~Disposed(s)
  <2> DEFINE q == mounts[Current]
  <2>1. /\ s = mounts[Current].socket /\ Current \in Mount
        /\ q \in MountRecord /\ q.socket = s /\ ~q.disposed
    BY <1>1, <1>3, SocketInUse
  <2>2. mounts' = [mounts EXCEPT ![Current] = q]
    BY <2>1 DEF Fail, ConnectionInv, Typed, Mount
  <2>3. status' \in StatusRecord
    BY <1>3 DEF Fail, ConnectionInv, Typed, StatusRecord, Level3
  <2>4. ~q.reconnect
    BY <1>1, <2>1 DEF ConnectionInv, OneConnection
  <2> HIDE DEF q
  <2> QED  BY <1>1, <2>1, <2>2, <2>3, <2>4, CurrentStep
<1> QED  BY <1>2, <1>3

LEMMA CloseInv ==
    ASSUME ConnectionInv, NEW s \in Socket, CloseEnds(s) \/ CloseBreaks(s), sent' = sent
    PROVE  ConnectionInv'
<1> DEFINE r == [sockets[s] EXCEPT !.phase = "closed"]
<1>1. /\ r \in SocketRecord /\ r.mount = sockets[s].mount /\ r.phase = "closed"
      /\ sockets' = [sockets EXCEPT ![s] = r]
      /\ sockets[s].phase # "closed"
  BY SocketTypes DEF ConnectionInv, CloseEnds, CloseBreaks, Close, Phase, Phases
<1> HIDE DEF r
<1>2. CASE Disposed(s)
  BY <1>1, <1>2, DisposedStep DEF CloseEnds, CloseBreaks, Close, Ignored, Closable
<1>3. CASE ~Disposed(s)
  <2> DEFINE q == [mounts[Current] EXCEPT !.stale = FALSE, !.reconnect = TRUE]
  <2>1. /\ s = mounts[Current].socket /\ sockets[s].mount = Current
        /\ Current \in Mount
        /\ mounts[Current] \in MountRecord /\ ~mounts[Current].disposed
    BY <1>1, <1>3, SocketInUse
  <2>2. q \in MountRecord /\ q.socket = s /\ ~q.disposed
    BY <2>1 DEF MountRecord
  <2>3. mounts' = [mounts EXCEPT ![Current] = q]
    BY <1>3, <2>1 DEF CloseEnds, CloseBreaks, Close, Ignored, ConnectionInv, Typed, Mount
  <2>4. status' \in StatusRecord
    BY <1>3 DEF CloseEnds, CloseBreaks, Close, Ignored, ConnectionInv, Typed, StatusRecord, Level3
  <2> HIDE DEF q
  <2> QED  BY <1>1, <2>1, <2>2, <2>3, <2>4, CurrentStep
<1> QED  BY <1>2, <1>3

LEMMA ReceiveInv ==
    ASSUME ConnectionInv, NEW s \in Socket, Receive(s), sent' = sent
    PROVE  ConnectionInv'
<1> DEFINE r == [sockets[s] EXCEPT !.inbox = Tail(sockets[s].inbox)]
           m == Head(sockets[s].inbox)
<1>1. /\ sockets[s] \in SocketRecord /\ sockets[s].phase = "open"
      /\ sockets[s].inbox \in Seq(Message) /\ sockets[s].inbox # <<>>
      /\ sockets' = [sockets EXCEPT ![s] = r]
  BY SocketFields DEF Receive, ConnectionInv
<1>2. Tail(sockets[s].inbox) \in Seq(Message) /\ m \in Message
  BY <1>1, HeadTailProperties
<1>3. r \in SocketRecord /\ r.mount = sockets[s].mount /\ r.phase = "open"
  BY <1>1, <1>2 DEF SocketRecord
<1> HIDE DEF r, m
<1>4. CASE Disposed(s)
  BY <1>1, <1>3, <1>4, DisposedStep DEF Receive, Closable
<1>5. CASE ~Disposed(s)
  <2> DEFINE q == [mounts[Current] EXCEPT !.stale = TRUE]
  <2>1. /\ s = mounts[Current].socket /\ sockets[s].mount = Current
        /\ mounts[Current] \in MountRecord /\ ~mounts[Current].disposed
    BY <1>1, <1>5, SocketInUse
  <2>2. /\ q \in MountRecord /\ q.socket = s /\ ~q.disposed /\ q.stale
        /\ q.reconnect = mounts[Current].reconnect
    BY <2>1 DEF MountRecord
  <2>3. mounts' = [mounts EXCEPT ![Current] = q]
    BY <1>5, <2>1 DEF Receive, ResetStaleTimer
  <2>4. status' = StatusFromMessage(status, m)
    BY <1>5 DEF Receive, m
  <2>5. status' \in StatusRecord /\ status'.ws = "online"
    BY <1>2, <2>4 DEF StatusFromMessage, ConnectionInv, Typed, StatusRecord, Level3
  <2>6. ~q.reconnect
    BY <1>1, <2>1, <2>2 DEF ConnectionInv, OneConnection
  <2> HIDE DEF q
  <2> QED  BY <1>3, <1>1, <2>1, <2>2, <2>3, <2>5, <2>6, CurrentStep
<1> QED  BY <1>4, <1>5

LEMMA StaleInv ==
    ASSUME ConnectionInv, NEW m \in Mount, StaleFires(m), sent' = sent
    PROVE  ConnectionInv'
<1> DEFINE s == mounts[Current].socket
           r == sockets[s]
           q == [mounts[Current] EXCEPT !.stale = FALSE]
<1>1. m = Current
  BY DEF StaleFires, ConnectionInv, OneConnection, OneMount
<1>2. s \in Socket /\ r.mount = Current /\ ~mounts[Current].disposed
  BY <1>1 DEF ConnectionInv, Linked, OneMount
<1>3. r \in SocketRecord /\ r.phase # "closing"
  BY <1>2 DEF ConnectionInv, Typed, ClosedByCleanup, Disposed, Socket
<1>4. sockets' = [sockets EXCEPT ![s] = r]
  BY <1>2 DEF StaleFires, ConnectionInv, Typed, Socket
<1>5. mounts[Current] \in MountRecord
  BY <1>1 DEF ConnectionInv, Typed, Mount
<1>6. /\ q \in MountRecord /\ q.socket = s /\ ~q.disposed
      /\ q.reconnect = mounts[Current].reconnect
  BY <1>2, <1>5 DEF MountRecord
<1>7. mounts' = [mounts EXCEPT ![Current] = q]
  BY <1>1 DEF StaleFires
<1>8. status' \in StatusRecord
  BY DEF StaleFires, ConnectionInv, Typed, StatusRecord, Level3
<1>9. ASSUME r.phase = "open"
      PROVE  status'.ws = "online" /\ status'.edge # "online" /\ status'.mqtt # "online"
  BY <1>9 DEF StaleFires, ConnectionInv, OpenIsOnline, Typed, StatusRecord
<1>10. q.reconnect => r.phase = "closed"
  BY <1>6 DEF ConnectionInv, OneConnection
<1> HIDE DEF q, r
<1> QED  BY <1>2, <1>3, <1>4, <1>6, <1>7, <1>8, <1>9, <1>10, CurrentStep DEF r

\* A new socket is a socket.
LEMMA NewSocketType ==
    ASSUME NEW m \in Nat
    PROVE  /\ NewSocket(m) \in SocketRecord
           /\ NewSocket(m).mount = m /\ NewSocket(m).phase = "connecting"
<1>1. <<>> \in Seq(Message)
  BY EmptySeq
<1>2. "connecting" \in Phases
  BY DEF Phases
<1> QED  BY <1>1, <1>2 DEF NewSocket, SocketRecord

LEMMA ReconnectInv ==
    ASSUME ConnectionInv, NEW m \in Mount, ReconnectFires(m), sent' = sent
    PROVE  ConnectionInv'
<1> DEFINE n == Len(sockets) + 1
           q == [mounts[m] EXCEPT !.reconnect = FALSE, !.socket = n]
<1>1. /\ m = Current /\ ~mounts[m].disposed
      /\ sockets[mounts[m].socket].phase = "closed"
  BY DEF ReconnectFires, ConnectionInv, OneConnection, OneMount
<1>2. /\ mounts[m] \in MountRecord /\ m \in Nat
      /\ n \in Nat /\ n \notin Socket
  BY DEF ConnectionInv, Typed, Mount, Socket
<1>3. q \in MountRecord /\ q.socket = n /\ ~q.disposed /\ ~q.reconnect
  BY <1>1, <1>2 DEF MountRecord
<1>4. mounts' = [mounts EXCEPT ![m] = q]
  BY DEF ReconnectFires
<1> HIDE DEF q
<1>5. /\ mounts' \in Seq(MountRecord) /\ Len(mounts') = Len(mounts)
      /\ Mount' = Mount /\ Current' = Current /\ mounts'[m] = q
      /\ \A k \in Mount : k # m => mounts'[k] = mounts[k]
  BY <1>3, <1>4, SeqExcept DEF ConnectionInv, Typed, Mount, Current
<1>6. /\ sockets' \in Seq(SocketRecord) /\ Socket' = Socket \cup {n}
      /\ sockets'[n] = NewSocket(m)
      /\ \A s \in Socket : sockets'[s] = sockets[s]
  BY <1>2, NewSocketType, SeqAppend DEF ReconnectFires, ConnectionInv, Typed, Socket
<1>7. status' \in StatusRecord
  BY DEF ReconnectFires, ConnectionInv, Typed, StatusRecord, Level3
<1>8. NewSocket(m).mount = m /\ NewSocket(m).phase = "connecting"
  BY <1>2, NewSocketType
<1>9. Typed'
  BY <1>5, <1>6, <1>7 DEF Typed, ConnectionInv
<1>10. Linked'
  BY <1>3, <1>5, <1>6, <1>8 DEF Linked, ConnectionInv
<1>11. OneMount'
  BY <1>1, <1>3, <1>5 DEF OneMount, ConnectionInv
<1>12. ClosedByCleanup'
  <2>1. \A s \in Socket : Disposed(s)' <=> Disposed(s)
    BY <1>1, <1>3, <1>5, <1>6 DEF Disposed, ConnectionInv, Linked
  <2> QED  BY <1>6, <1>8, <2>1 DEF ClosedByCleanup, ConnectionInv
<1>13. OpenIsOnline'
  BY <1>1, <1>3, <1>5, <1>6, <1>8 DEF OpenIsOnline
<1>14. OneConnection'
  <2>1. \A k \in Mount : mounts'[k].disposed => ~mounts'[k].stale /\ ~mounts'[k].reconnect
    BY <1>3, <1>5 DEF ConnectionInv, OneConnection
  <2>2. \A s \in Socket : sockets[s].phase \notin Closable
    BY <1>1 DEF ConnectionInv, OneConnection, Closable
  <2> QED  BY <1>1, <1>3, <1>5, <1>6, <1>8, <2>1, <2>2 DEF OneConnection
<1> QED  BY <1>9, <1>10, <1>11, <1>12, <1>13, <1>14 DEF ConnectionInv

LEMMA RemountInv ==
    ASSUME ConnectionInv, Remount, sent' = sent
    PROVE  ConnectionInv'
<1> DEFINE old == mounts[Current].socket
           n   == Len(sockets) + 1
           c   == Current + 1
           q   == [mounts[Current] EXCEPT !.disposed = TRUE, !.reconnect = FALSE,
                                          !.stale = FALSE]
           r   == [sockets[old] EXCEPT !.phase = IF sockets[old].phase \in Closable
                                                 THEN "closing" ELSE sockets[old].phase]
           left   == [mounts EXCEPT ![Current] = q]
           closed == [sockets EXCEPT ![old] = r]
<1>1. /\ Current \in Mount /\ mounts[Current] \in MountRecord
      /\ old \in Socket /\ sockets[old].mount = Current
      /\ n \in Nat /\ n \notin Socket /\ c \in Nat /\ c \notin Mount
  BY DEF ConnectionInv, Typed, Linked, Mount, Socket, Current
<1>2. q \in MountRecord /\ q.socket = old /\ q.disposed /\ ~q.reconnect /\ ~q.stale
  BY <1>1 DEF MountRecord
<1>3. /\ r \in SocketRecord /\ r.mount = Current /\ r.phase \notin Closable
  <2>1. sockets[old] \in SocketRecord /\ sockets[old].phase \in Phases
    BY <1>1, SocketFields DEF ConnectionInv
  <2>2. (IF sockets[old].phase \in Closable THEN "closing" ELSE sockets[old].phase)
           \in Phases \ Closable
    BY <2>1 DEF Phases, Closable
  <2> HIDE DEF old
  <2> QED  BY <1>1, <2>1, <2>2 DEF SocketRecord
<1>4. /\ mounts' = Append(left, NewMount(n))
      /\ sockets' = Append(closed, NewSocket(c))
      /\ status' = [status EXCEPT !.ws = "degraded"]
  BY DEF Remount
<1> HIDE DEF q, r
<1>5. /\ left \in Seq(MountRecord) /\ Len(left) = Len(mounts) /\ DOMAIN left = Mount
      /\ left[Current] = q
      /\ \A k \in Mount : k # Current => left[k] = mounts[k]
  BY <1>1, <1>2, SeqExcept DEF ConnectionInv, Typed, Mount
<1>6. /\ closed \in Seq(SocketRecord) /\ Len(closed) = Len(sockets) /\ DOMAIN closed = Socket
      /\ closed[old] = r
      /\ \A s \in Socket : s # old => closed[s] = sockets[s]
  BY <1>1, <1>3, SeqExcept DEF ConnectionInv, Typed, Socket
<1> HIDE DEF left, closed, old
<1>7. NewMount(n) \in MountRecord /\ NewMount(n) = [socket |-> n, disposed |-> FALSE,
                                                   reconnect |-> FALSE, stale |-> FALSE]
  BY <1>1 DEF NewMount, MountRecord
<1>8. /\ NewSocket(c) \in SocketRecord
      /\ NewSocket(c).mount = c /\ NewSocket(c).phase = "connecting"
  BY <1>1, NewSocketType
<1>9. /\ mounts' \in Seq(MountRecord) /\ Mount' = Mount \cup {c} /\ Current' = c
      /\ Len(mounts') >= 1
      /\ mounts'[c] = NewMount(n) /\ \A k \in Mount : mounts'[k] = left[k]
  BY <1>4, <1>5, <1>7, SeqAppend DEF Mount, Current, ConnectionInv, Typed
<1>10. /\ sockets' \in Seq(SocketRecord) /\ Socket' = Socket \cup {n}
       /\ sockets'[n] = NewSocket(c) /\ \A s \in Socket : sockets'[s] = closed[s]
  BY <1>4, <1>6, <1>8, SeqAppend DEF Socket
<1>11. status' \in StatusRecord
  BY <1>4 DEF ConnectionInv, Typed, StatusRecord, Level3
<1>12. Typed'
  BY <1>9, <1>10, <1>11 DEF Typed, ConnectionInv
<1> HIDE DEF n, c
<1>13. /\ \A s \in Socket : sockets'[s].mount = sockets[s].mount
       /\ \A k \in Mount : mounts'[k].socket = mounts[k].socket
  <2>1. mounts[Current].socket = old
    BY DEF old
  <2>2. ASSUME NEW s \in Socket PROVE sockets'[s].mount = sockets[s].mount
    BY <1>1, <1>3, <1>6, <1>10
  <2>3. ASSUME NEW k \in Mount PROVE mounts'[k].socket = mounts[k].socket
    BY <1>2, <1>5, <1>9, <2>1
  <2> QED  BY <2>2, <2>3
<1>14. Linked'
  <2>1. ASSUME NEW k \in Mount
        PROVE  mounts'[k].socket \in Socket' /\ sockets'[mounts'[k].socket].mount = k
    BY <1>10, <1>13 DEF Linked, ConnectionInv
  <2>2. mounts'[c].socket \in Socket' /\ sockets'[mounts'[c].socket].mount = c
    BY <1>7, <1>8, <1>9, <1>10
  <2>3. ASSUME NEW s \in Socket'
        PROVE  sockets'[s].mount \in Mount'
    BY <1>8, <1>9, <1>10, <1>13 DEF Linked, ConnectionInv
  <2> QED  BY <1>9, <2>1, <2>2, <2>3 DEF Linked
<1>15. OneMount'
  BY <1>1, <1>2, <1>5, <1>7, <1>9 DEF OneMount, ConnectionInv
<1>16. ClosedByCleanup'
  <2> SUFFICES ASSUME NEW s \in Socket', sockets'[s].phase = "closing"
               PROVE  Disposed(s)'
    BY DEF ClosedByCleanup
  <2>1. s \in Socket
    BY <1>8, <1>10
  <2>2. CASE s = old
    BY <1>1, <1>2, <1>5, <1>9, <1>13, <2>1, <2>2 DEF Disposed
  <2>3. CASE s # old
    <3>1. sockets[s].phase = "closing"
      BY <1>6, <1>10, <2>1, <2>3
    <3>2. sockets[s].mount \in Mount /\ mounts[sockets[s].mount].disposed
      BY <2>1, <3>1 DEF ConnectionInv, ClosedByCleanup, Disposed, Linked
    <3>3. mounts'[sockets[s].mount].disposed
      BY <1>2, <1>5, <1>9, <3>2
    <3> QED  BY <1>13, <2>1, <3>3 DEF Disposed
  <2> QED  BY <2>2, <2>3
<1>17. OpenIsOnline'
  BY <1>7, <1>8, <1>9, <1>10 DEF OpenIsOnline
<1>18. OneConnection'
  <2>1. \A k \in Mount' : mounts'[k].disposed => ~mounts'[k].stale /\ ~mounts'[k].reconnect
    BY <1>2, <1>5, <1>7, <1>9 DEF ConnectionInv, OneConnection
  <2>2. \A s \in Socket : sockets'[s].phase \notin Closable
    BY <1>3, <1>6, <1>10 DEF ConnectionInv, OneConnection, old
  <2> QED  BY <1>7, <1>8, <1>9, <1>10, <2>1, <2>2 DEF OneConnection
<1> QED  BY <1>12, <1>14, <1>15, <1>16, <1>17, <1>18 DEF ConnectionInv

LEMMA SendInv ==
    ASSUME ConnectionInv, Send
    PROVE  ConnectionInv'
<1>1. PICK early \in SUBSET {s \in Socket : sockets[s].phase = "connecting"} :
          sockets' = [s \in Socket |->
                        IF sockets[s].phase = "open" \/ s \in early
                        THEN [sockets[s] EXCEPT !.inbox = Append(@, Traffic[sent + 1])]
                        ELSE sockets[s]]
  BY DEF Send
<1>2. Traffic[sent + 1] \in Message /\ sent' \in Nat
  BY LiveAssumption DEF Send, ConnectionInv, Typed
<1>3. \A s \in Socket : /\ sockets'[s] \in SocketRecord
                        /\ sockets'[s].mount = sockets[s].mount
                        /\ sockets'[s].phase = sockets[s].phase
  <2> SUFFICES ASSUME NEW s \in Socket
               PROVE  /\ sockets'[s] \in SocketRecord
                      /\ sockets'[s].mount = sockets[s].mount
                      /\ sockets'[s].phase = sockets[s].phase
    OBVIOUS
  <2>1. sockets[s] \in SocketRecord /\ sockets[s].inbox \in Seq(Message)
    BY SocketFields DEF ConnectionInv
  <2>2. Append(sockets[s].inbox, Traffic[sent + 1]) \in Seq(Message)
    BY <1>2, <2>1, AppendProperties
  <2>3. \/ sockets'[s] = sockets[s]
        \/ sockets'[s] = [sockets[s] EXCEPT !.inbox =
                            Append(sockets[s].inbox, Traffic[sent + 1])]
    BY <1>1
  <2> QED  BY <2>1, <2>2, <2>3 DEF SocketRecord
<1>4. sockets' \in Seq(SocketRecord) /\ Socket' = Socket
  <2>1. Socket = 1 .. Len(sockets) /\ Len(sockets) \in Nat
    BY DEF Socket, ConnectionInv, Typed
  <2>2. sockets' \in [1 .. Len(sockets) -> SocketRecord]
    BY <1>1, <1>3, <2>1
  <2> QED  BY <2>1, <2>2 DEF Socket
<1>5. UNCHANGED <<status, mounts>>
  BY DEF Send
<1>6. Typed'
  BY <1>2, <1>4, <1>5 DEF Typed, ConnectionInv
<1>7. Mount' = Mount /\ Current' = Current
  BY <1>5 DEF Mount, Current
<1>8. /\ Linked' /\ OneMount' /\ ClosedByCleanup'
  BY <1>3, <1>4, <1>5, <1>7 DEF Linked, OneMount, ClosedByCleanup, Disposed, ConnectionInv
<1>9. Current \in Mount /\ mounts[Current].socket \in Socket
  BY DEF ConnectionInv, Typed, Linked, Mount, Current
<1>10. OpenIsOnline' /\ OneConnection'
  BY <1>3, <1>4, <1>5, <1>7, <1>9 DEF OpenIsOnline, OneConnection, ConnectionInv
<1> QED  BY <1>6, <1>8, <1>10 DEF ConnectionInv

\* Steps of the page alone.
LEMMA PageInv ==
    ASSUME ConnectionInv, UNCHANGED <<realtime, sent>>
    PROVE  ConnectionInv'
BY DEF realtime, ConnectionInv, Typed, Linked, OneMount, ClosedByCleanup, OpenIsOnline,
       OneConnection, Mount, Socket, Current, Disposed

-----------------------------------------------------------------------------
LEMMA ConnectionStep == ConnectionInv /\ [Next]_vars => ConnectionInv'
<1> SUFFICES ASSUME ConnectionInv, [Next]_vars
             PROVE  ConnectionInv'
  OBVIOUS
<1>1. CASE Send
  BY <1>1, SendInv
<1>2. CASE Tick \/ StartPoll \/ SetApiToken \/ Render \/ \E k \in DOMAIN polls : EndPoll(k)
  BY <1>2, PageInv DEF Tick, StartPoll, SetApiToken, Render, EndPoll, FinishPoll, FailPoll, cloud
<1>3. CASE RunEffectsAgain
  BY <1>3, RemountInv DEF RunEffectsAgain, cloud
<1>4. ASSUME NEW m \in Mount, ReconnectFires(m) \/ StaleFires(m), UNCHANGED page
      PROVE  ConnectionInv'
  BY <1>4, ReconnectInv, StaleInv DEF page, cloud
<1>5. ASSUME NEW s \in Socket, Callback(s), UNCHANGED page
      PROVE  ConnectionInv'
  BY <1>5, OpenInv, ReceiveInv, FailInv, CloseInv DEF Callback, page, cloud
<1>6. CASE UNCHANGED vars
  BY <1>6, PageInv DEF vars, page, cloud
<1> QED  BY <1>1, <1>2, <1>3, <1>4, <1>5, <1>6 DEF Next

\* However the mounts of the effect, the timers and the closing sockets interleave,
\* the page has one connection, and while it is open what counts as online is
\* watched by the stale timer (useRealtimeStatus).
THEOREM OneConnectionHolds == Spec => []OneConnection
<1>1. Init => ConnectionInv
  BY InitInv
<1>2. ConnectionInv /\ [Next]_vars => ConnectionInv'
  BY ConnectionStep
<1>3. ConnectionInv => OneConnection
  BY DEF ConnectionInv
<1> QED  BY <1>1, <1>2, <1>3, PTL DEF Spec

-----------------------------------------------------------------------------
(* The screen *)

Levels  == {"low", "medium", "high", "none"}
Devices == {m.device : m \in Message}
Abouts  == {m.about : m \in Message}

AlertRecord  == [id : (Devices \X Nat) \cup {None}, device : Devices \cup {None},
                 vessel : Devices \cup {None}, level : Levels, time : Nat \cup {None}]
DeviceRecord == [id : Devices \cup {DemoDevice}, device : Devices \cup {None},
                 online : BOOLEAN]
VesselRecord == [id : Abouts \cup {None}, device : Devices \cup {None}, at : Nat,
                 risk : Levels]
SensorRecord == [id : Devices \X Abouts \X Nat, device : Devices]
ScreenRecord == [alerts : Seq(AlertRecord), devices : Seq(DeviceRecord),
                 vessels : Seq(VesselRecord), sensors : Seq(SensorRecord),
                 mode : {"demo", "mixed", "live"}, api : {"idle", "online", "offline"}]

Once(items) == \A i, j \in DOMAIN items : items[i].id = items[j].id => i = j

\* Two alerts that are one, with a database (base) and without.
SameAlert(base, a, b) == a.id = b.id /\ (base => Shows(a) = Shows(b))
Differ(base) == IF base THEN PointsDiffer ELSE NumbersDiffer
AlertsOnce(base, items) ==
    Differ(base) => \A i, j \in DOMAIN items : SameAlert(base, items[i], items[j]) => i = j
AllLive(items) == \A k \in DOMAIN items : LiveItem(items[k])
AllDemo(items) == \A k \in DOMAIN items : ~LiveItem(items[k])

\* What an honest screen is.
Honest(base, s) ==
    /\ s \in ScreenRecord
    /\ AlertsOnce(base, s.alerts) /\ Once(s.devices)
    /\ s.mode = "live" => AllLive(s.alerts) /\ AllLive(s.devices) /\ AllLive(s.vessels)
    /\ s.mode = "demo" => /\ s.sensors = <<>>
                          /\ AllDemo(s.alerts) /\ AllDemo(s.devices) /\ AllDemo(s.vessels)

\* What a route answers: a message, or what the database has kept of one.
Row == Message \cup {DatabaseRow(k) : k \in DOMAIN Traffic}

LEMMA MessageFields ==
    ASSUME NEW m \in Message
    PROVE  /\ m.type \in Types /\ m.device # None /\ m.online \in BOOLEAN
           /\ m.device \in Devices /\ m.about \in Abouts
           /\ m.seq \in Nat /\ m.stamp \in Nat /\ Number(m) \in Nat
<1>1. m.online \in BOOLEAN
  BY RealtimeAssumption
<1>2. m.type \in Types /\ m.device # None /\ m.seq \in Nat /\ m.stamp \in Nat
  BY LiveAssumption
<1>3. m.device \in Devices /\ m.about \in Abouts
  BY DEF Devices, Abouts
<1>4. Number(m) \in Nat
  BY <1>2 DEF Number
<1> QED  BY <1>1, <1>2, <1>3, <1>4

\* A row of the database lacks the number, and nothing else.
LEMMA DatabaseRowIs ==
    ASSUME NEW k \in DOMAIN Traffic
    PROVE  /\ Traffic[k] \in Message /\ DatabaseRow(k) \in Row
           /\ DatabaseRow(k).device = Traffic[k].device
           /\ DatabaseRow(k).about = Traffic[k].about
           /\ DatabaseRow(k).stamp = Traffic[k].stamp
           /\ Number(DatabaseRow(k)) = Traffic[k].stamp
<1>1. Traffic[k] \in Message
  BY LiveAssumption
<1>2. DOMAIN Traffic[k] = Fields
  BY <1>1, LiveAssumption
<1>3. /\ DatabaseRow(k).device = Traffic[k].device
      /\ DatabaseRow(k).about = Traffic[k].about
      /\ DatabaseRow(k).stamp = Traffic[k].stamp
      /\ DatabaseRow(k).seq = None
  BY <1>2 DEF DatabaseRow, Fields
<1>4. Number(DatabaseRow(k)) = Traffic[k].stamp
  BY <1>3 DEF Number
<1>5. DatabaseRow(k) \in Row
  BY DEF Row
<1> QED  BY <1>1, <1>3, <1>4, <1>5

LEMMA RowFields ==
    ASSUME NEW m \in Row
    PROVE  /\ m.device # None /\ m.device \in Devices /\ m.about \in Abouts
           /\ m.stamp \in Nat /\ Number(m) \in Nat
<1>1. CASE m \in Message
  BY <1>1, MessageFields
<1>2. ASSUME NEW k \in DOMAIN Traffic, m = DatabaseRow(k)
      PROVE  /\ m.device # None /\ m.device \in Devices /\ m.about \in Abouts
             /\ m.stamp \in Nat /\ Number(m) \in Nat
  BY <1>2, DatabaseRowIs, MessageFields
<1> QED  BY <1>1, <1>2 DEF Row

\* A function on the first numbers is a sequence.
LEMMA IsSeq ==
    ASSUME NEW T, NEW n \in Nat, NEW f, DOMAIN f = 1 .. n, f = [k \in 1 .. n |-> f[k]],
           \A k \in 1 .. n : f[k] \in T
    PROVE  f \in Seq(T) /\ Len(f) = n
<1>1. f \in [1 .. n -> T]
  OBVIOUS
<1> QED  BY <1>1

\* A part of a list.
LEMMA PartIs ==
    ASSUME NEW S, NEW list \in Seq(S), NEW L \in Nat, L = Len(list),
           NEW a \in 1 .. L + 1, NEW b \in 0 .. L, a <= b + 1
    PROVE  /\ SubSeq(list, a, b) \in Seq(S) /\ Len(SubSeq(list, a, b)) = b - a + 1
           /\ DOMAIN SubSeq(list, a, b) = 1 .. b - a + 1
           /\ \A k \in 1 .. b - a + 1 : SubSeq(list, a, b)[k] = list[a + k - 1]
<1> DEFINE part == SubSeq(list, a, b)
<1>1. \A i \in a .. b : list[i] \in S
  BY ElementOfSeq
<1>2. a \in Int /\ b \in Int
  OBVIOUS
<1>3. /\ part \in Seq(S) /\ Len(part) = IF a <= b THEN b - a + 1 ELSE 0
      /\ \A k \in 1 .. b - a + 1 : part[k] = list[a + k - 1]
  BY <1>1, <1>2, SubSeqProperties
<1> HIDE DEF part
<1>4. Len(part) = b - a + 1 /\ DOMAIN part = 1 .. b - a + 1
  BY <1>2, <1>3
<1> QED  BY <1>3, <1>4 DEF part

LEMMA LastRowsAre ==
    ASSUME NEW S, NEW list \in Seq(S)
    PROVE  /\ LastRows(list) \in Seq(S)
           /\ Len(LastRows(list)) = IF Len(list) <= MaxRows THEN Len(list) ELSE MaxRows
           /\ \A k \in DOMAIN LastRows(list) :
                 /\ Len(list) - Len(LastRows(list)) + k \in DOMAIN list
                 /\ LastRows(list)[k] = list[Len(list) - Len(LastRows(list)) + k]
<1>1. PICK L \in Nat : L = Len(list) /\ DOMAIN list = 1 .. L
  BY LenProperties
<1>2. MaxRows \in Nat \ {0}
  BY LiveAssumption
<1>3. PICK a \in 1 .. L + 1 : /\ a = Max({1, L - MaxRows + 1})
                              /\ L - a + 1 = IF L <= MaxRows THEN L ELSE MaxRows
  <2>1. L - MaxRows + 1 \in Int /\ 1 \in Int
    BY <1>2
  <2>2. Max({1, L - MaxRows + 1}) = IF 1 <= L - MaxRows + 1 THEN L - MaxRows + 1 ELSE 1
    BY <2>1, MinOfTwo
  <2>3. CASE L <= MaxRows
    <3>1. Max({1, L - MaxRows + 1}) = 1 /\ 1 \in 1 .. L + 1 /\ L - 1 + 1 = L
      BY <1>2, <2>2, <2>3
    <3> QED  BY <2>3, <3>1
  <2>4. CASE ~(L <= MaxRows)
    <3>1. /\ Max({1, L - MaxRows + 1}) = L - MaxRows + 1
          /\ L - MaxRows + 1 \in 1 .. L + 1 /\ L - (L - MaxRows + 1) + 1 = MaxRows
      BY <1>2, <2>2, <2>4
    <3> QED  BY <2>4, <3>1
  <2> QED  BY <2>3, <2>4
<1> DEFINE rows == LastRows(list)
<1>4. rows = SubSeq(list, a, L)
  BY <1>1, <1>3 DEF LastRows
<1>5. L \in 0 .. L /\ a <= L + 1
  OBVIOUS
<1>6. /\ rows \in Seq(S) /\ Len(rows) = L - a + 1 /\ DOMAIN rows = 1 .. L - a + 1
      /\ \A k \in 1 .. L - a + 1 : rows[k] = list[a + k - 1]
  <2>1. /\ SubSeq(list, a, L) \in Seq(S) /\ Len(SubSeq(list, a, L)) = L - a + 1
        /\ DOMAIN SubSeq(list, a, L) = 1 .. L - a + 1
        /\ \A k \in 1 .. L - a + 1 : SubSeq(list, a, L)[k] = list[a + k - 1]
    BY <1>1, <1>5, PartIs
  <2> QED  BY <1>4, <2>1
<1> HIDE DEF rows
<1>7. ASSUME NEW k \in DOMAIN rows
      PROVE  /\ L - Len(rows) + k \in 1 .. L
             /\ rows[k] = list[L - Len(rows) + k]
  <2>1. k \in 1 .. L - a + 1 /\ Len(rows) = L - a + 1
    BY <1>6
  <2>2. L - (L - a + 1) + k = a + k - 1 /\ a + k - 1 \in 1 .. L
    BY <2>1
  <2> QED  BY <1>6, <2>1, <2>2
<1> QED  BY <1>1, <1>3, <1>6, <1>7 DEF rows

LEMMA ShownAre ==
    ASSUME NEW S, NEW list \in Seq(S)
    PROVE  /\ Shown(list) \in Seq(S)
           /\ Len(Shown(list)) = IF Len(list) <= MaxShown THEN Len(list) ELSE MaxShown
           /\ DOMAIN Shown(list) \subseteq DOMAIN list
           /\ \A k \in DOMAIN Shown(list) : Shown(list)[k] = list[k]
<1>1. PICK L \in Nat : L = Len(list) /\ DOMAIN list = 1 .. L
  BY LenProperties
<1>2. MaxShown \in Nat \ {0}
  BY LiveAssumption
<1>3. PICK b \in 0 .. L : /\ b = Min({MaxShown, L})
                          /\ b = IF L <= MaxShown THEN L ELSE MaxShown
  <2>1. MaxShown \in Int /\ L \in Int
    BY <1>2
  <2>2. Min({MaxShown, L}) = IF MaxShown <= L THEN MaxShown ELSE L
    BY <2>1, MinOfTwo
  <2> QED  BY <1>2, <2>2
<1> DEFINE part == SubSeq(list, 1, b)
<1>4. 1 \in 1 .. L + 1 /\ 1 <= b + 1 /\ b - 1 + 1 = b
  OBVIOUS
<1>5. /\ part \in Seq(S) /\ Len(part) = b - 1 + 1 /\ DOMAIN part = 1 .. b - 1 + 1
      /\ \A k \in 1 .. b - 1 + 1 : part[k] = list[1 + k - 1]
  BY <1>1, <1>4, PartIs
<1>6. Shown(list) = part
  BY <1>1, <1>3 DEF Shown
<1> HIDE DEF part
<1>7. DOMAIN part = 1 .. b /\ Len(part) = b
  BY <1>4, <1>5
<1>8. \A k \in 1 .. b : part[k] = list[k]
  <2> SUFFICES ASSUME NEW k \in 1 .. b PROVE part[k] = list[k]
    OBVIOUS
  <2>1. 1 + k - 1 = k
    OBVIOUS
  <2> QED  BY <1>4, <1>5, <2>1
<1>9. 1 .. b \subseteq 1 .. L
  OBVIOUS
<1> QED  BY <1>1, <1>3, <1>5, <1>6, <1>7, <1>8, <1>9

\* Parts of a list of alerts that are there once.
LEMMA OnceInShown ==
    ASSUME NEW S, NEW list \in Seq(S), NEW base, AlertsOnce(base, list)
    PROVE  AlertsOnce(base, Shown(list))
<1>1. /\ DOMAIN Shown(list) \subseteq DOMAIN list
      /\ \A k \in DOMAIN Shown(list) : Shown(list)[k] = list[k]
  BY ShownAre
<1> QED  BY <1>1 DEF AlertsOnce

\* An item on top of a list.
LEMMA OnTop ==
    ASSUME NEW S, NEW items \in Seq(S), NEW item \in S
    PROVE  /\ <<item>> \o items \in Seq(S) /\ Len(<<item>> \o items) = Len(items) + 1
           /\ DOMAIN (<<item>> \o items) = 1 .. Len(items) + 1
           /\ (<<item>> \o items)[1] = item
           /\ \A k \in DOMAIN items : /\ k + 1 \in DOMAIN (<<item>> \o items)
                                      /\ (<<item>> \o items)[k + 1] = items[k]
           /\ \A k \in DOMAIN (<<item>> \o items) :
                 k # 1 => /\ k - 1 \in DOMAIN items
                          /\ (<<item>> \o items)[k] = items[k - 1]
<1>1. PICK L \in Nat : L = Len(items) /\ DOMAIN items = 1 .. L
  BY LenProperties
<1>2. <<item>> \in Seq(S) /\ Len(<<item>>) = 1 /\ <<item>>[1] = item
  OBVIOUS
<1> DEFINE top == <<item>> \o items
<1>3. /\ top \in Seq(S) /\ Len(top) = 1 + L
      /\ \A i \in 1 .. 1 + L : top[i] = IF i <= 1 THEN <<item>>[i] ELSE items[i - 1]
  <2>1. /\ top \in Seq(S) /\ Len(top) = Len(<<item>>) + Len(items)
        /\ \A i \in 1 .. Len(<<item>>) + Len(items) :
              top[i] = IF i <= Len(<<item>>) THEN <<item>>[i] ELSE items[i - Len(<<item>>)]
    BY <1>2, ConcatProperties
  <2> HIDE DEF top
  <2> QED  BY <1>1, <1>2, <2>1
<1> HIDE DEF top
<1>4. DOMAIN top = 1 .. L + 1
  BY <1>3
<1>5. top[1] = item
  BY <1>2, <1>3
<1>6. ASSUME NEW k \in 1 .. L PROVE k + 1 \in 1 .. L + 1 /\ top[k + 1] = items[k]
  <2>1. k + 1 \in 1 .. 1 + L /\ ~(k + 1 <= 1) /\ k + 1 - 1 = k
    OBVIOUS
  <2> QED  BY <1>3, <2>1
<1>7. ASSUME NEW k \in 1 .. L + 1, k # 1 PROVE k - 1 \in 1 .. L /\ top[k] = items[k - 1]
  <2>1. k \in 1 .. 1 + L /\ ~(k <= 1) /\ k - 1 \in 1 .. L
    BY <1>7
  <2> QED  BY <1>3, <2>1
<1>8. 1 + L = L + 1
  OBVIOUS
<1> QED  BY <1>1, <1>3, <1>4, <1>5, <1>6, <1>7, <1>8 DEF top

LEMMA OnceOnTop ==
    ASSUME NEW S, NEW items \in Seq(S), NEW item \in S, Once(items), ~Item(item.id, items)
    PROVE  Once(<<item>> \o items)
<1> DEFINE top == <<item>> \o items
<1>1. /\ DOMAIN top = 1 .. Len(items) + 1 /\ top[1] = item
      /\ \A k \in DOMAIN top : k # 1 => k - 1 \in DOMAIN items /\ top[k] = items[k - 1]
  BY OnTop
<1>2. Len(items) \in Nat
  BY LenProperties
<1> HIDE DEF top
<1>3. ASSUME NEW i \in DOMAIN top, NEW j \in DOMAIN top, top[i].id = top[j].id
      PROVE  i = j
  <2>1. CASE i = 1 /\ j # 1
    BY <1>1, <1>3, <2>1 DEF Item
  <2>2. CASE i # 1 /\ j = 1
    BY <1>1, <1>3, <2>2 DEF Item
  <2>3. CASE i # 1 /\ j # 1
    <3>1. i - 1 = j - 1
      BY <1>1, <1>3, <2>3 DEF Once
    <3> QED  BY <1>1, <1>2, <3>1
  <2> QED  BY <2>1, <2>2, <2>3
<1> QED  BY <1>3 DEF Once, top

\* The same for alerts.
LEMMA AlertOnceOnTop ==
    ASSUME NEW S, NEW items \in Seq(S), NEW item \in S, NEW base, AlertsOnce(base, items),
           ~Item(item.id, items)
    PROVE  AlertsOnce(base, <<item>> \o items)
<1> DEFINE top == <<item>> \o items
<1>1. /\ DOMAIN top = 1 .. Len(items) + 1 /\ top[1] = item
      /\ \A k \in DOMAIN top : k # 1 => k - 1 \in DOMAIN items /\ top[k] = items[k - 1]
  BY OnTop
<1>2. Len(items) \in Nat
  BY LenProperties
<1> HIDE DEF top
<1>3. ASSUME Differ(base), NEW i \in DOMAIN top, NEW j \in DOMAIN top,
             SameAlert(base, top[i], top[j])
      PROVE  i = j
  <2>0. top[i].id = top[j].id
    BY <1>3 DEF SameAlert
  <2>1. CASE i = 1 /\ j # 1
    BY <1>1, <2>0, <2>1 DEF Item
  <2>2. CASE i # 1 /\ j = 1
    BY <1>1, <2>0, <2>2 DEF Item
  <2>3. CASE i # 1 /\ j # 1
    <3>1. i - 1 \in DOMAIN items /\ j - 1 \in DOMAIN items
          /\ SameAlert(base, items[i - 1], items[j - 1])
      BY <1>1, <1>3, <2>3
    <3>2. i - 1 = j - 1
      BY <1>3, <3>1 DEF AlertsOnce
    <3> QED  BY <1>1, <1>2, <3>2
  <2> QED  BY <2>1, <2>2, <2>3
<1> QED  BY <1>3 DEF AlertsOnce, top

\* upsertDevice and upsertVessel.
LEMMA UpsertIs ==
    ASSUME NEW S, NEW items \in Seq(S), NEW item \in S
    PROVE  /\ Upsert(items, item) \in Seq(S)
           /\ Once(items) => Once(Upsert(items, item))
           /\ AllLive(items) /\ LiveItem(item) => AllLive(Upsert(items, item))
<1> DEFINE put == [k \in DOMAIN items |-> IF items[k].id = item.id THEN item ELSE items[k]]
<1>1. PICK L \in Nat : L = Len(items) /\ DOMAIN items = 1 .. L
  BY LenProperties
<1>2. CASE Item(item.id, items)
  <2>1. Upsert(items, item) = put
    BY <1>2 DEF Upsert
  <2>2. /\ DOMAIN put = 1 .. L /\ put = [k \in 1 .. L |-> put[k]]
        /\ \A k \in 1 .. L : put[k] = IF items[k].id = item.id THEN item ELSE items[k]
    BY <1>1
  <2> HIDE DEF put
  <2>3. \A k \in 1 .. L : put[k] \in S
    BY <1>1, <2>2
  <2>4. put \in Seq(S)
    BY <2>2, <2>3, IsSeq
  <2>5. \A k \in 1 .. L : put[k].id = items[k].id
    BY <2>2
  <2>6. Once(items) => Once(put)
    BY <1>1, <2>2, <2>5 DEF Once
  <2>7. AllLive(items) /\ LiveItem(item) => AllLive(put)
    BY <1>1, <2>2 DEF AllLive
  <2> QED  BY <2>1, <2>4, <2>6, <2>7
<1>3. CASE ~Item(item.id, items)
  <2>1. Upsert(items, item) = <<item>> \o items
    BY <1>3 DEF Upsert
  <2>2. Once(items) => Once(<<item>> \o items)
    BY <1>3, OnceOnTop
  <2>3. AllLive(items) /\ LiveItem(item) => AllLive(<<item>> \o items)
    BY OnTop DEF AllLive
  <2>4. <<item>> \o items \in Seq(S)
    BY OnTop
  <2> QED  BY <2>1, <2>2, <2>3, <2>4
<1> QED  BY <1>2, <1>3

\* upsertAlert: the item is there, and what was there still is unless the list is
\* full.
LEMMA UpsertAlertIs ==
    ASSUME NEW S, NEW items \in Seq(S), NEW item \in S, NEW base
    PROVE  /\ UpsertAlert(items, item) \in Seq(S)
           /\ AlertsOnce(base, items) => AlertsOnce(base, UpsertAlert(items, item))
           /\ AllLive(items) /\ LiveItem(item) => AllLive(UpsertAlert(items, item))
           /\ \A k \in DOMAIN UpsertAlert(items, item) :
                 \/ UpsertAlert(items, item)[k] = item
                 \/ \E p \in DOMAIN items : UpsertAlert(items, item)[k] = items[p]
           /\ \/ Len(UpsertAlert(items, item)) = MaxShown
              \/ \A p \in DOMAIN items : Item(items[p].id, UpsertAlert(items, item))
<1> DEFINE P == {k \in DOMAIN items : items[k].id # item.id}
           rest == Picked(items, P)
           top == <<item>> \o rest
           shown == Shown(top)
<1>0. UpsertAlert(items, item) = shown
  BY DEF UpsertAlert
<1>1. P \subseteq DOMAIN items
  OBVIOUS
<1>2. \A p \in P : p \in DOMAIN items /\ items[p].id # item.id
  OBVIOUS
<1>3. \A p \in DOMAIN items : items[p].id = item.id \/ p \in P
  OBVIOUS
<1> HIDE DEF P
<1>4. rest \in Seq(S) /\ P \subseteq Int
  BY <1>1, PickedElements
<1>5. /\ \A k \in DOMAIN rest : \E p \in P : rest[k] = items[p] /\ p = Upwards(P)[k]
      /\ \A p \in P : \E k \in DOMAIN rest : rest[k] = items[p] /\ p = Upwards(P)[k]
      /\ \A j, k \in DOMAIN rest : j < k <=> Upwards(P)[j] < Upwards(P)[k]
  BY <1>1, PickedPlaces
<1> HIDE DEF rest
<1>6. ~Item(item.id, rest)
  BY <1>2, <1>5 DEF Item
<1>7. AlertsOnce(base, items) => AlertsOnce(base, rest)
  <2> SUFFICES ASSUME AlertsOnce(base, items), Differ(base),
                      NEW i \in DOMAIN rest, NEW j \in DOMAIN rest,
                      SameAlert(base, rest[i], rest[j])
               PROVE  i = j
    BY DEF AlertsOnce
  <2>1. PICK p \in P : rest[i] = items[p] /\ p = Upwards(P)[i]
    BY <1>5
  <2>2. PICK q \in P : rest[j] = items[q] /\ q = Upwards(P)[j]
    BY <1>5
  <2>3. p = q
    BY <1>2, <2>1, <2>2 DEF AlertsOnce
  <2>4. p \in Int /\ q \in Int /\ ~(p < q) /\ ~(q < p)
    BY <1>4, <2>3
  <2>5. ~(i < j) /\ ~(j < i)
    BY <1>5, <2>1, <2>2, <2>4
  <2>6. i \in Int /\ j \in Int
    BY <1>4, LenProperties
  <2> QED  BY <2>5, <2>6
<1>8. /\ top \in Seq(S) /\ Len(top) = Len(rest) + 1 /\ DOMAIN top = 1 .. Len(rest) + 1
      /\ top[1] = item
      /\ \A k \in DOMAIN rest : k + 1 \in DOMAIN top /\ top[k + 1] = rest[k]
      /\ \A k \in DOMAIN top : k # 1 => k - 1 \in DOMAIN rest /\ top[k] = rest[k - 1]
  BY <1>4, OnTop
<1>9. AlertsOnce(base, items) => AlertsOnce(base, top)
  BY <1>4, <1>6, <1>7, AlertOnceOnTop
<1> HIDE DEF top
<1>10. /\ shown \in Seq(S) /\ DOMAIN shown \subseteq DOMAIN top
       /\ Len(shown) = IF Len(top) <= MaxShown THEN Len(top) ELSE MaxShown
       /\ \A k \in DOMAIN shown : shown[k] = top[k]
  BY <1>8, ShownAre
<1>11. AlertsOnce(base, items) => AlertsOnce(base, shown)
  BY <1>8, <1>9, OnceInShown
<1> HIDE DEF shown
<1>12. ASSUME NEW k \in DOMAIN shown
       PROVE  shown[k] = item \/ \E p \in DOMAIN items : shown[k] = items[p]
  <2>1. k \in DOMAIN top /\ shown[k] = top[k]
    BY <1>10
  <2>2. CASE k # 1
    BY <1>2, <1>5, <1>8, <2>1, <2>2
  <2> QED  BY <1>8, <2>1, <2>2
<1>13. AllLive(items) /\ LiveItem(item) => AllLive(shown)
  BY <1>12 DEF AllLive
<1>14. ASSUME Len(shown) # MaxShown, NEW p \in DOMAIN items
       PROVE  Item(items[p].id, shown)
  <2>1. DOMAIN shown = DOMAIN top
    <3>1. Len(shown) = Len(top)
      BY <1>10, <1>14
    <3> QED  BY <1>8, <1>10, <3>1
  <2>2. 1 \in DOMAIN top
    <3>1. Len(rest) \in Nat
      BY <1>4, LenProperties
    <3> QED  BY <1>8, <3>1
  <2>3. CASE items[p].id = item.id
    BY <1>8, <1>10, <2>1, <2>2, <2>3 DEF Item
  <2>4. CASE p \in P
    BY <1>5, <1>8, <1>10, <2>1, <2>4 DEF Item
  <2> QED  BY <1>3, <2>3, <2>4
<1>15. Len(shown) = MaxShown \/ \A p \in DOMAIN items : Item(items[p].id, shown)
  BY <1>14
<1> QED  BY <1>0, <1>10, <1>11, <1>12, <1>13, <1>15

-----------------------------------------------------------------------------
(* What is made of messages and rows *)

\* What is made of a message, or of a row.
LEMMA FromRow ==
    ASSUME NEW m \in Row
    PROVE  /\ AlertFromApi(m) \in AlertRecord /\ LiveItem(AlertFromApi(m))
           /\ AlertFromApi(m).id = <<m.device, Number(m)>>
           /\ Shows(AlertFromApi(m)) = <<m.device, RiskLevel(m.about), m.stamp>>
           /\ SensorFromApi(m) \in SensorRecord
<1>1. /\ m.device # None /\ m.device \in Devices /\ m.about \in Abouts
      /\ m.stamp \in Nat /\ Number(m) \in Nat
  BY RowFields
<1>2. RiskLevel(m.about) \in Levels
  BY DEF RiskLevel, Levels
<1>3. /\ AlertFromApi(m).id = <<m.device, Number(m)>>
      /\ AlertFromApi(m).device = m.device
      /\ Shows(AlertFromApi(m)) = <<m.device, RiskLevel(m.about), m.stamp>>
  BY DEF AlertFromApi, Shows
<1>4. AlertFromApi(m) \in AlertRecord
  BY <1>1, <1>2 DEF AlertFromApi, AlertRecord
<1>5. SensorFromApi(m) \in SensorRecord
  BY <1>1 DEF SensorFromApi, SensorRecord
<1> QED  BY <1>1, <1>3, <1>4, <1>5 DEF LiveItem

LEMMA DeviceFrom ==
    ASSUME NEW m \in Message
    PROVE  DeviceFromApi(m) \in DeviceRecord /\ LiveItem(DeviceFromApi(m))
<1>1. m.device # None /\ m.device \in Devices
  BY MessageFields
<1>2. (m.named = "online" /\ m.online) \in BOOLEAN
  OBVIOUS
<1>3. DeviceFromApi(m) \in DeviceRecord /\ DeviceFromApi(m).device = m.device
  BY <1>1, <1>2 DEF DeviceFromApi, DeviceFromRow, DeviceRecord
<1> QED  BY <1>1, <1>3 DEF LiveItem

\* vesselFromTrackRow.
LEMMA VesselIs ==
    ASSUME NEW m \in Row, NEW alerts \in Seq(AlertRecord)
    PROVE  /\ VesselFromRow(m, alerts) \in VesselRecord
           /\ LiveItem(VesselFromRow(m, alerts))
<1> DEFINE own == {k \in DOMAIN alerts : alerts[k].vessel = m.about}
           risk == IF own = {} THEN "none" ELSE alerts[Min(own)].level
<1>1. PICK L \in Nat : L = Len(alerts) /\ DOMAIN alerts = 1 .. L
  BY LenProperties
<1>2. own \subseteq 1 .. L
  BY <1>1
<1> HIDE DEF own
<1>3. ASSUME own # {} PROVE alerts[Min(own)].level \in Levels
  <2>1. own \subseteq Nat /\ own \subseteq Int
    BY <1>2
  <2>2. PICK x \in own : \A y \in own : x <= y
    BY <1>3, <2>1, LeastNumber
  <2>3. Min(own) = x
    BY <2>1, <2>2, LeastOf
  <2>4. alerts[x] \in AlertRecord
    BY <1>1, <1>2
  <2> QED  BY <2>3, <2>4 DEF AlertRecord
<1>4. risk \in Levels
  BY <1>3 DEF Levels
<1>5. m.device # None /\ m.device \in Devices /\ m.about \in Abouts /\ m.stamp \in Nat
  BY RowFields
<1>6. VesselFromRow(m, alerts) = [id |-> m.about, device |-> m.device, at |-> m.stamp,
                                  risk |-> risk]
  BY DEF VesselFromRow, own
<1> HIDE DEF risk
<1>7. /\ VesselFromRow(m, alerts) \in VesselRecord
      /\ VesselFromRow(m, alerts).device = m.device
  BY <1>4, <1>5, <1>6 DEF VesselRecord
<1> QED  BY <1>5, <1>7 DEF LiveItem

\* The first places of the keys of a list.
FirstAt(keys) == {k \in DOMAIN keys : IsFirst(keys, k)}

LEMMA FirstsAre ==
    ASSUME NEW S, NEW keys \in Seq(S)
    PROVE  \E n \in Nat :
              /\ DOMAIN Firsts(keys) = 1 .. n
              /\ \A k \in 1 .. n : Firsts(keys)[k] \in DOMAIN keys
              /\ \A i, j \in 1 .. n : keys[Firsts(keys)[i]] = keys[Firsts(keys)[j]] => i = j
<1> DEFINE P == FirstAt(keys)
<1>1. P \subseteq DOMAIN keys
  BY DEF FirstAt
<1>2. PICK L \in Nat : DOMAIN keys = 1 .. L
  BY LenProperties
<1>3. Firsts(keys) = Upwards(P)
  BY DEF Firsts, FirstAt
<1>4. \A p, q \in P : p < q => keys[p] # keys[q]
  <2> SUFFICES ASSUME NEW p \in P, NEW q \in P, p < q PROVE keys[p] # keys[q]
    OBVIOUS
  <2>1. p \in 1 .. L /\ q \in 1 .. L /\ IsFirst(keys, q)
    BY <1>1, <1>2 DEF FirstAt
  <2>2. p \in 1 .. q - 1
    BY <2>1
  <2> QED  BY <2>1, <2>2 DEF IsFirst
<1> HIDE DEF P
<1>5. /\ IsFiniteSet(P) /\ P \subseteq Int /\ Cardinality(P) \in Nat
      /\ InOrder(Upwards(P), P, Ascending(P))
  BY <1>1, PickedElements
<1>6. \A i, j \in 1 .. Cardinality(P) : i < j <=> Upwards(P)[i] < Upwards(P)[j]
  BY <1>5, UpwardsInOrder
<1>7. /\ DOMAIN Upwards(P) = 1 .. Cardinality(P)
      /\ \A k \in 1 .. Cardinality(P) : Upwards(P)[k] \in P
  BY <1>5 DEF InOrder
<1>8. ASSUME NEW i \in 1 .. Cardinality(P), NEW j \in 1 .. Cardinality(P),
             keys[Upwards(P)[i]] = keys[Upwards(P)[j]]
      PROVE  i = j
  <2>1. ~(Upwards(P)[i] < Upwards(P)[j]) /\ ~(Upwards(P)[j] < Upwards(P)[i])
    BY <1>4, <1>7, <1>8
  <2>2. ~(i < j) /\ ~(j < i)
    BY <1>6, <2>1
  <2> QED  BY <1>5, <2>2
<1> QED  BY <1>1, <1>3, <1>5, <1>7, <1>8

LEMMA LatestIs ==
    ASSUME NEW S, NEW keys \in Seq(S), NEW k \in DOMAIN keys
    PROVE  Latest(keys, k) \in DOMAIN keys
<1> DEFINE same == {j \in DOMAIN keys : keys[j] = keys[k]}
<1>1. PICK L \in Nat : L = Len(keys) /\ DOMAIN keys = 1 .. L
  BY LenProperties
<1>2. same \subseteq 0 .. L /\ same # {}
  BY <1>1
<1>3. Max(same) \in same /\ \A j \in same : j <= Max(same)
  <2> HIDE DEF same
  <2> QED  BY <1>2, GreatestNumber
<1>4. ASSUME NEW i \in Max(same) + 1 .. Len(keys)
      PROVE  keys[i] # keys[k]
  <2>1. i \in 1 .. L /\ ~(i <= Max(same))
    BY <1>1, <1>2, <1>3
  <2> QED  BY <1>1, <1>3, <2>1
<1>5. \E j \in DOMAIN keys : /\ keys[j] = keys[k]
                             /\ \A i \in j + 1 .. Len(keys) : keys[i] # keys[k]
  BY <1>3, <1>4
<1> QED  BY <1>5 DEF Latest

LEMMA VesselsAre ==
    ASSUME NEW rows \in Seq(Row), NEW alerts \in Seq(AlertRecord)
    PROVE  /\ VesselsFromTracks(rows, alerts) \in Seq(VesselRecord)
           /\ AllLive(VesselsFromTracks(rows, alerts))
<1> DEFINE keys == [k \in DOMAIN rows |-> <<rows[k].device, rows[k].about>>]
           firsts == Firsts(keys)
           made == [k \in DOMAIN firsts |-> VesselFromRow(rows[Latest(keys, firsts[k])], alerts)]
<1>1. VesselsFromTracks(rows, alerts) = made
  BY DEF VesselsFromTracks, Mapped
<1>2. PICK L \in Nat : L = Len(rows) /\ DOMAIN rows = 1 .. L
  BY LenProperties
<1>3. keys \in Seq({keys[k] : k \in 1 .. L}) /\ DOMAIN keys = DOMAIN rows
  <2>1. DOMAIN keys = 1 .. L /\ keys = [k \in 1 .. L |-> keys[k]]
    BY <1>2
  <2> HIDE DEF keys
  <2>2. \A k \in 1 .. L : keys[k] \in {keys[j] : j \in 1 .. L}
    OBVIOUS
  <2> QED  BY <1>2, <2>1, <2>2, IsSeq
<1> HIDE DEF keys
<1>4. PICK n \in Nat : /\ DOMAIN firsts = 1 .. n
                       /\ \A k \in 1 .. n : firsts[k] \in DOMAIN keys
  BY <1>3, FirstsAre
<1>5. DOMAIN made = 1 .. n /\ made = [k \in 1 .. n |-> made[k]]
  BY <1>4
<1>6. \A k \in 1 .. n : made[k] \in VesselRecord /\ LiveItem(made[k])
  <2> SUFFICES ASSUME NEW k \in 1 .. n PROVE made[k] \in VesselRecord /\ LiveItem(made[k])
    OBVIOUS
  <2>1. rows[Latest(keys, firsts[k])] \in Row
    <3>1. Latest(keys, firsts[k]) \in DOMAIN rows
      <4> HIDE DEF firsts
      <4> QED  BY <1>3, <1>4, LatestIs
    <3> HIDE DEF firsts
    <3> QED  BY <1>2, <3>1
  <2>2. made[k] = VesselFromRow(rows[Latest(keys, firsts[k])], alerts)
    BY <1>4
  <2> HIDE DEF made, firsts
  <2> QED  BY <2>1, <2>2, VesselIs
<1> HIDE DEF made
<1>7. made \in Seq(VesselRecord)
  BY <1>5, <1>6, IsSeq
<1> QED  BY <1>1, <1>5, <1>6, <1>7 DEF AllLive

\* _latest_device_rows, of the messages that there are.
DevicesOf(all) ==
    LET device(m) == m.device
        row(k)    == LET said == {j \in DOMAIN all : /\ all[j].type \in {"status", "lwt"}
                                                      /\ all[j].device = all[k].device}
                     IN DeviceFromRow(all[k].device, said # {} /\ all[Max(said)].online)
    IN Mapped(row, Firsts(Mapped(device, all)))

LEMMA DevicesOfAre ==
    ASSUME NEW all \in Seq(Message)
    PROVE  /\ DevicesOf(all) \in Seq(DeviceRecord)
           /\ Once(DevicesOf(all)) /\ AllLive(DevicesOf(all))
<1> DEFINE keys == [k \in DOMAIN all |-> all[k].device]
           firsts == Firsts(keys)
           said(k) == {j \in DOMAIN all : /\ all[j].type \in {"status", "lwt"}
                                          /\ all[j].device = all[k].device}
           row(k) == DeviceFromRow(all[k].device, said(k) # {} /\ all[Max(said(k))].online)
           made == [k \in DOMAIN firsts |-> row(firsts[k])]
<1>1. DevicesOf(all) = made
  BY DEF DevicesOf, Mapped
<1>2. PICK L \in Nat : L = Len(all) /\ DOMAIN all = 1 .. L
  BY LenProperties
<1>3. /\ keys \in Seq({keys[k] : k \in 1 .. L}) /\ DOMAIN keys = DOMAIN all
      /\ \A k \in DOMAIN all : keys[k] = all[k].device
  <2>1. /\ DOMAIN keys = 1 .. L /\ keys = [k \in 1 .. L |-> keys[k]]
        /\ \A k \in DOMAIN all : keys[k] = all[k].device
    BY <1>2
  <2> HIDE DEF keys
  <2>2. \A k \in 1 .. L : keys[k] \in {keys[j] : j \in 1 .. L}
    OBVIOUS
  <2> QED  BY <1>2, <2>1, <2>2, IsSeq
<1> HIDE DEF keys
<1>4. PICK n \in Nat :
        /\ DOMAIN firsts = 1 .. n
        /\ \A k \in 1 .. n : firsts[k] \in DOMAIN keys
        /\ \A i, j \in 1 .. n : keys[firsts[i]] = keys[firsts[j]] => i = j
  BY <1>3, FirstsAre
<1>5. /\ DOMAIN made = 1 .. n /\ made = [k \in 1 .. n |-> made[k]]
      /\ \A k \in 1 .. n : made[k] = row(firsts[k])
  BY <1>4
<1> HIDE DEF firsts
<1>6. ASSUME NEW p \in DOMAIN all
      PROVE  /\ row(p) \in DeviceRecord /\ row(p).device # None
             /\ row(p).id = all[p].device
  <2>1. all[p] \in Message
    BY <1>2
  <2>2. all[p].device \in Devices /\ all[p].device # None
    BY <2>1, MessageFields
  <2>3. (said(p) # {} /\ all[Max(said(p))].online) \in BOOLEAN
    OBVIOUS
  <2> DEFINE flag == said(p) # {} /\ all[Max(said(p))].online
  <2>4. row(p) = [id |-> all[p].device, device |-> all[p].device, online |-> flag]
    BY DEF DeviceFromRow
  <2>5. flag \in BOOLEAN
    BY <2>3
  <2> HIDE DEF flag, row, said
  <2> QED  BY <2>2, <2>4, <2>5 DEF DeviceRecord
<1> HIDE DEF row, made
<1>7. \A k \in 1 .. n : made[k] \in DeviceRecord /\ LiveItem(made[k])
  BY <1>3, <1>4, <1>5, <1>6 DEF LiveItem
<1>8. ASSUME NEW i \in 1 .. n, NEW j \in 1 .. n, made[i].id = made[j].id
      PROVE  i = j
  <2>1. firsts[i] \in DOMAIN all /\ firsts[j] \in DOMAIN all
    BY <1>3, <1>4
  <2>2. made[i].id = all[firsts[i]].device /\ made[j].id = all[firsts[j]].device
    BY <1>5, <1>6, <2>1
  <2>3. keys[firsts[i]] = keys[firsts[j]]
    BY <1>3, <1>8, <2>1, <2>2
  <2> QED  BY <1>4, <2>3
<1>9. made \in Seq(DeviceRecord)
  BY <1>5, <1>7, IsSeq
<1> QED  BY <1>1, <1>5, <1>7, <1>8, <1>9 DEF AllLive, Once

LEMMA DevicesAre ==
    ASSUME NEW n \in 0 .. Len(Traffic)
    PROVE  /\ DeviceRows(n) \in Seq(DeviceRecord)
           /\ Once(DeviceRows(n)) /\ AllLive(DeviceRows(n))
<1>1. DeviceRows(n) = DevicesOf(SubSeq(Traffic, 1, n))
  BY DEF DeviceRows, DevicesOf
<1>2. PICK L \in Nat : L = Len(Traffic) /\ 1 \in 1 .. L + 1 /\ n \in 0 .. L /\ 1 <= n + 1
  BY LiveAssumption, LenProperties
<1>3. SubSeq(Traffic, 1, n) \in Seq(Message)
  BY <1>2, LiveAssumption, PartIs
<1> QED  BY <1>1, <1>3, DevicesOfAre

-----------------------------------------------------------------------------
(* What the routes answer *)

\* Rows of which no two are shown as one alert, and that show a message.
NoRowTwice(base, rows) ==
    Differ(base) =>
       \A i, j \in DOMAIN rows :
          SameAlert(base, AlertFromApi(rows[i]), AlertFromApi(rows[j])) => i = j
HasRow(rows, k) ==
    \E i \in DOMAIN rows : Shows(AlertFromApi(rows[i])) = Shows(AlertFromApi(Traffic[k]))

LEMMA Places ==
    ASSUME NEW n \in 0 .. Len(Traffic), NEW type
    PROVE  /\ OfType(type, n) \subseteq DOMAIN Traffic /\ OfType(type, n) \subseteq 0 .. n
           /\ n \in Nat
<1>1. PICK L \in Nat : L = Len(Traffic) /\ DOMAIN Traffic = 1 .. L
  BY LiveAssumption, LenProperties
<1> QED  BY <1>1 DEF OfType

LEMMA FewPlaces ==
    ASSUME NEW P, P \subseteq DOMAIN Traffic
    PROVE  IsFiniteSet(P) /\ Cardinality(P) \in Nat /\ P \subseteq Nat
<1>1. PICK L \in Nat : L = Len(Traffic) /\ DOMAIN Traffic = 1 .. L
  BY LiveAssumption, LenProperties
<1>2. IsFiniteSet(1 .. L)
  BY FirstNumbers
<1>3. IsFiniteSet(P)
  BY <1>1, <1>2, FS_Subset
<1> QED  BY <1>1, <1>3, FS_CardinalityType

\* The rows of the memory before the last are cut off: each held message once.
LEMMA HeldAre ==
    ASSUME NEW n \in 0 .. Len(Traffic), NEW type
    PROVE  /\ Picked(Traffic, Held(type, n)) \in Seq(Message)
           /\ \A k \in DOMAIN Picked(Traffic, Held(type, n)) :
                 \E p \in Held(type, n) : Picked(Traffic, Held(type, n))[k] = Traffic[p]
           /\ \A p \in Held(type, n) :
                 \E k \in DOMAIN Picked(Traffic, Held(type, n)) :
                    Picked(Traffic, Held(type, n))[k] = Traffic[p]
           /\ \A i, k \in DOMAIN Picked(Traffic, Held(type, n)) :
                 Picked(Traffic, Held(type, n))[i] = Picked(Traffic, Held(type, n))[k] => i = k
<1> DEFINE P == Held(type, n)
           of == Picked(Traffic, P)
<1>1. P \subseteq DOMAIN Traffic /\ P \subseteq Int
  BY Places DEF Held
<1>2. Traffic \in Seq(Message)
  BY LiveAssumption
<1> HIDE DEF P
<1>3. /\ \A k \in DOMAIN of : \E p \in P : of[k] = Traffic[p] /\ p = Upwards(P)[k]
      /\ \A p \in P : \E k \in DOMAIN of : of[k] = Traffic[p] /\ p = Upwards(P)[k]
      /\ \A j, k \in DOMAIN of : j < k <=> Upwards(P)[j] < Upwards(P)[k]
  BY <1>1, <1>2, PickedPlaces
<1>4. of \in Seq(Message)
  BY <1>1, <1>2, PickedElements
<1> HIDE DEF of
<1>5. ASSUME NEW i \in DOMAIN of, NEW k \in DOMAIN of, of[i] = of[k]
      PROVE  i = k
  <2>1. PICK p \in P : of[i] = Traffic[p] /\ p = Upwards(P)[i]
    BY <1>3
  <2>2. PICK q \in P : of[k] = Traffic[q] /\ q = Upwards(P)[k]
    BY <1>3
  <2>3. p = q
    BY <1>1, <1>5, <2>1, <2>2, LiveAssumption DEF IsInjective
  <2>4. ~(Upwards(P)[i] < Upwards(P)[k]) /\ ~(Upwards(P)[k] < Upwards(P)[i])
    BY <1>1, <2>1, <2>2, <2>3
  <2>5. ~(i < k) /\ ~(k < i)
    BY <1>3, <2>4
  <2>6. i \in Int /\ k \in Int
    BY <1>4, LenProperties
  <2> QED  BY <2>5, <2>6
<1> QED  BY <1>3, <1>4, <1>5 DEF of, P

LEMMA HeldRowsAre ==
    ASSUME NEW n \in 0 .. Len(Traffic), NEW type
    PROVE  /\ HeldRows(type, n) \in Seq(Row)
           /\ type = "alert" => NoRowTwice(FALSE, HeldRows(type, n))
           /\ \/ Len(HeldRows(type, n)) >= MaxRows
              \/ \A p \in Held(type, n) : HasRow(HeldRows(type, n), p)
<1> DEFINE list == Picked(Traffic, Held(type, n))
           rows == HeldRows(type, n)
<1>1. /\ list \in Seq(Message)
      /\ \A k \in DOMAIN list : \E p \in Held(type, n) : list[k] = Traffic[p]
      /\ \A p \in Held(type, n) : \E k \in DOMAIN list : list[k] = Traffic[p]
      /\ \A i, k \in DOMAIN list : list[i] = list[k] => i = k
  BY HeldAre
<1>2. rows = LastRows(list)
  BY DEF HeldRows
<1> HIDE DEF list, rows
<1>3. PICK L \in Nat : L = Len(list) /\ DOMAIN list = 1 .. L
  BY <1>1, LenProperties
<1>4. rows \in Seq(Message) /\ Len(rows) = IF L <= MaxRows THEN L ELSE MaxRows
  BY <1>1, <1>2, <1>3, LastRowsAre
<1>5. PICK r \in Nat : r = Len(rows) /\ DOMAIN rows = 1 .. r
  BY <1>4, LenProperties
<1>6. \A k \in 1 .. r : L - r + k \in 1 .. L /\ rows[k] = list[L - r + k]
  BY <1>1, <1>2, <1>3, <1>5, LastRowsAre
<1>7. rows \in Seq(Row)
  BY <1>4 DEF Row
<1>8. MaxRows \in Nat
  BY LiveAssumption
<1>9. ASSUME type = "alert", NumbersDiffer, NEW i \in 1 .. r, NEW j \in 1 .. r,
             SameAlert(FALSE, AlertFromApi(rows[i]), AlertFromApi(rows[j]))
      PROVE  i = j
  <2>1. /\ rows[i] \in Message /\ rows[j] \in Message
        /\ rows[i].type = "alert" /\ rows[j].type = "alert"
    <3>1. \A p \in Held(type, n) : Traffic[p].type = "alert"
      BY <1>9 DEF Held, OfType
    <3>2. \A k \in 1 .. L : list[k].type = "alert"
      BY <1>1, <1>3, <3>1
    <3>3. rows[i] \in Message /\ rows[j] \in Message
      BY <1>4, <1>5
    <3> QED  BY <1>6, <3>2, <3>3
  <2>2. rows[i] \in Row /\ rows[j] \in Row
    BY <2>1 DEF Row
  <2>3. /\ AlertFromApi(rows[i]).id = <<rows[i].device, Number(rows[i])>>
        /\ AlertFromApi(rows[j]).id = <<rows[j].device, Number(rows[j])>>
    BY <2>2, FromRow
  <2>4. rows[i].device = rows[j].device /\ Number(rows[i]) = Number(rows[j])
    <3>1. AlertFromApi(rows[i]).id = AlertFromApi(rows[j]).id
      BY <1>9, Zenon DEF SameAlert
    <3> QED  BY <2>3, <3>1
  <2>5. rows[i].seq = rows[j].seq
    BY <2>1, <2>4, MessageFields, LiveAssumption DEF Number
  <2>6. rows[i] = rows[j]
    BY <1>9, <2>1, <2>4, <2>5 DEF NumbersDiffer, SentAlerts
  <2>7. L - r + i = L - r + j
    BY <1>1, <1>3, <1>6, <2>6
  <2> QED  BY <2>7
<1>10. type = "alert" => NoRowTwice(FALSE, rows)
  BY <1>5, <1>9 DEF NoRowTwice, Differ
<1>11. ASSUME ~(Len(rows) >= MaxRows), NEW p \in Held(type, n)
       PROVE  HasRow(rows, p)
  <2>1. PICK k \in 1 .. L : list[k] = Traffic[p]
    BY <1>1, <1>3
  <2>2. L = r
    BY <1>4, <1>5, <1>8, <1>11
  <2>3. k \in 1 .. r /\ L - r + k = k
    BY <2>2
  <2>4. rows[k] = Traffic[p]
    BY <1>6, <2>1, <2>3
  <2> QED  BY <1>5, <2>3, <2>4 DEF HasRow
<1> QED  BY <1>7, <1>10, <1>11 DEF rows

\* The database lists each place once.
InStampOrder(P) ==
    {pair \in P \X P : \/ Traffic[pair[1]].stamp < Traffic[pair[2]].stamp
                       \/ /\ Traffic[pair[1]].stamp = Traffic[pair[2]].stamp
                          /\ pair[1] < pair[2]}
CountedBelow(P, k) ==
    CHOOSE x \in P : Cardinality(Below(P, InStampOrder(P), x)) = k - 1

LEMMA ListingIs ==
    ASSUME NEW P, P \subseteq DOMAIN Traffic
    PROVE  /\ Listing(P) \in [1 .. Cardinality(P) -> P] /\ IsInjective(Listing(P))
           /\ \A p \in P : \E k \in 1 .. Cardinality(P) : Listing(P)[k] = p
<1> DEFINE R == InStampOrder(P)
           n == Cardinality(P)
           list == [k \in 1 .. n |-> CountedBelow(P, k)]
<1>1. IsFiniteSet(P) /\ n \in Nat /\ P \subseteq Nat
  BY FewPlaces
<1>2. \A p \in P : Traffic[p].stamp \in Nat
  <2>1. \A p \in P : Traffic[p] \in Message
    BY LiveAssumption
  <2> QED  BY <2>1, MessageFields
<1>3. \A p, q \in P : <<p, q>> \in R <=>
         \/ Traffic[p].stamp < Traffic[q].stamp
         \/ Traffic[p].stamp = Traffic[q].stamp /\ p < q
  BY DEF InStampOrder
<1> HIDE DEF R
<1>4. StrictOrder(R, P)
  BY <1>1, <1>2, <1>3 DEF StrictOrder
<1>5. ASSUME NEW k \in 1 .. n, NEW x \in P, Cardinality(Below(P, R, x)) = k - 1
      PROVE  list[k] \in P /\ Cardinality(Below(P, R, list[k])) = k - 1
  <2>1. list[k] = CountedBelow(P, k)
    OBVIOUS
  <2> HIDE DEF list
  <2> QED  BY <1>5, <2>1 DEF CountedBelow, R
<1>6. (\A k \in 1 .. n : list[k] \in P) => list \in [1 .. n -> P]
  OBVIOUS
<1> HIDE DEF list
<1>7. InOrder(list, P, R)
  <2>1. Ranked(list, P, R)
    BY <1>5, <1>6 DEF Ranked
  <2> QED  BY <1>1, <1>4, <2>1, SortedInOrder
<1>8. list \in [1 .. n -> P] /\ \A i, j \in 1 .. n : i < j <=> <<list[i], list[j]>> \in R
  BY <1>7 DEF InOrder
<1>9. \A i, j \in 1 .. n : list[i] = list[j] => i = j
  BY <1>1, <1>4, <1>7, InOrderOnce
<1>10. IsInjective(list)
  BY <1>8, <1>9 DEF IsInjective
<1>11. InTime(list)
  <2> SUFFICES ASSUME NEW i \in 1 .. n, NEW j \in 1 .. n,
                      Traffic[list[i]].stamp < Traffic[list[j]].stamp
               PROVE  i < j
    BY <1>8 DEF InTime
  <2>1. list[i] \in P /\ list[j] \in P
    BY <1>8
  <2>2. <<list[i], list[j]>> \in R
    BY <1>3, <2>1
  <2> QED  BY <1>8, <2>2
<1>12. Listing(P) \in [1 .. n -> P] /\ IsInjective(Listing(P))
  <2>1. \E l \in [1 .. n -> P] : IsInjective(l) /\ InTime(l)
    BY <1>8, <1>10, <1>11
  <2> QED  BY <2>1 DEF Listing
<1>13. ASSUME NEW p \in P PROVE \E k \in 1 .. n : Listing(P)[k] = p
  <2> DEFINE f == Listing(P)
  <2>1. f \in [1 .. n -> P] /\ IsInjective(f)
    BY <1>12
  <2> HIDE DEF f
  <2>2. f \in Injection(1 .. n, P)
    BY <2>1 DEF Injection, IsInjective
  <2>3. Cardinality(1 .. n) = Cardinality(P)
    BY <1>1, FirstNumbers
  <2>4. f \in Surjection(1 .. n, P)
    BY <1>1, <2>2, <2>3, FS_Injection
  <2>5. \E k \in 1 .. n : f[k] = p
    BY <2>4 DEF Surjection
  <2> QED  BY <2>5 DEF f
<1> QED  BY <1>12, <1>13

LEMMA StampIs ==
    ASSUME NEW k \in DOMAIN Traffic
    PROVE  Traffic[k] \in Message /\ Traffic[k].stamp \in Nat
<1>1. Traffic[k] \in Message
  BY LiveAssumption
<1> QED  BY <1>1, MessageFields

\* What the database cuts off is so much that enough is left: the oldest one cut off
\* has enough before it.
LEMMA CutLeaves ==
    ASSUME NEW F, F \subseteq DOMAIN Traffic
    PROVE  Cut(F) = F \/ Cardinality(Cut(F)) >= MaxRows
<1> DEFINE C == Cut(F)
           off == {k \in F : k \notin C}
           stamps == {Traffic[k].stamp : k \in off}
<1>1. /\ C \subseteq F
      /\ \A k \in F : k \in C <=> Cardinality(Older(F, k)) < MaxRows
  BY DEF Cut
<1> HIDE DEF C
<1>2. ASSUME C # F PROVE Cardinality(C) >= MaxRows
  <2>1. off # {} /\ off \subseteq F
    BY <1>1, <1>2
  <2>2. stamps # {} /\ stamps \subseteq Nat
    <3>1. \A k \in off : Traffic[k].stamp \in Nat
      BY <2>1, StampIs
    <3> HIDE DEF off
    <3> QED  BY <2>1, <3>1
  <2>3. PICK t \in stamps : \A u \in stamps : t <= u
    <3> HIDE DEF stamps
    <3> QED  BY <2>2, LeastNumber
  <2>4. PICK x \in off : t = Traffic[x].stamp
    OBVIOUS
  <2>5. Older(F, x) \subseteq C
    <3> SUFFICES ASSUME NEW j \in Older(F, x), j \notin C PROVE FALSE
      OBVIOUS
    <3>1. j \in F /\ Traffic[j].stamp < Traffic[x].stamp
      BY DEF Older
    <3>2. j \in off
      BY <3>1
    <3>3. Traffic[x].stamp <= Traffic[j].stamp
      BY <2>3, <2>4, <3>2
    <3>4. Traffic[x].stamp \in Nat /\ Traffic[j].stamp \in Nat
      BY <2>1, <3>1, StampIs
    <3> QED  BY <3>1, <3>3, <3>4
  <2>6. ~(Cardinality(Older(F, x)) < MaxRows)
    BY <1>1, <2>1
  <2>7. C \subseteq DOMAIN Traffic /\ Older(F, x) \subseteq DOMAIN Traffic
    BY <1>1, <2>5
  <2>8. /\ IsFiniteSet(C) /\ Cardinality(C) \in Nat
        /\ Cardinality(Older(F, x)) \in Nat /\ MaxRows \in Nat
    BY <2>7, FewPlaces, LiveAssumption
  <2>9. Cardinality(Older(F, x)) <= Cardinality(C)
    BY <2>5, <2>8, FS_Subset
  <2> QED  BY <2>6, <2>8, <2>9
<1> QED  BY <1>2 DEF C

\* Each event is a point, or was one.
LEMMA PointOf ==
    ASSUME NEW n \in 0 .. Len(Traffic), NEW type, NEW k \in OfType(type, n)
    PROVE  \E p \in Points(type, n) : /\ SameSeries(Traffic[p], Traffic[k])
                                      /\ Traffic[p].stamp = Traffic[k].stamp
<1> DEFINE same == {j \in OfType(type, n) : /\ SameSeries(Traffic[j], Traffic[k])
                                            /\ Traffic[j].stamp = Traffic[k].stamp}
<1>1. same \subseteq 0 .. n /\ n \in Nat
  BY Places
<1>2. k \in same
  BY DEF SameSeries
<1>3. \A j : j \in same <=> /\ j \in OfType(type, n)
                            /\ SameSeries(Traffic[j], Traffic[k])
                            /\ Traffic[j].stamp = Traffic[k].stamp
  OBVIOUS
<1> HIDE DEF same
<1>4. Max(same) \in same /\ \A j \in same : j <= Max(same)
  BY <1>1, <1>2, GreatestNumber
<1>5. ASSUME NEW j \in OfType(type, n), SameSeries(Traffic[j], Traffic[Max(same)]),
             Traffic[j].stamp = Traffic[Max(same)].stamp
      PROVE  j <= Max(same)
  <2>1. SameSeries(Traffic[j], Traffic[k]) /\ Traffic[j].stamp = Traffic[k].stamp
    BY <1>3, <1>4, <1>5 DEF SameSeries
  <2> QED  BY <1>3, <1>4, <2>1
<1>6. Max(same) \in Points(type, n)
  BY <1>3, <1>4, <1>5 DEF Points
<1> QED  BY <1>3, <1>4, <1>6

LEMMA FoundRowsAre ==
    ASSUME NEW n \in 0 .. Len(Traffic), NEW type, NEW time \in Nat
    PROVE  /\ FoundRows(type, n, time) \in Seq(Row)
           /\ type = "alert" => NoRowTwice(TRUE, FoundRows(type, n, time))
           /\ \/ Len(FoundRows(type, n, time)) >= MaxRows
              \/ \A k \in OfType(type, n) :
                    time - Span <= Traffic[k].stamp /\ Traffic[k].stamp < time
                    => HasRow(FoundRows(type, n, time), k)
<1> DEFINE F == Found(type, n, time)
           C == Cut(F)
           c == Cardinality(C)
           list == Listing(C)
           rows == FoundRows(type, n, time)
<1>1. /\ F \subseteq Points(type, n) /\ Points(type, n) \subseteq OfType(type, n)
      /\ C \subseteq F /\ OfType(type, n) \subseteq DOMAIN Traffic
  BY Places DEF Found, Points, Cut
<1>2. F \subseteq DOMAIN Traffic /\ C \subseteq DOMAIN Traffic /\ c \in Nat
  <2>1. F \subseteq DOMAIN Traffic /\ C \subseteq DOMAIN Traffic
    BY <1>1
  <2> HIDE DEF C
  <2> QED  BY <2>1, FewPlaces
<1>3. C = F \/ c >= MaxRows
  <2> HIDE DEF F
  <2> QED  BY <1>2, CutLeaves
<1>4. /\ list \in [1 .. c -> C] /\ IsInjective(list)
      /\ \A p \in C : \E k \in 1 .. c : list[k] = p
  <2> HIDE DEF C
  <2> QED  BY <1>2, ListingIs
<1>5. rows = Mapped(DatabaseRow, list)
  BY DEF FoundRows
<1> HIDE DEF list, C, F, rows, c
<1>6. /\ DOMAIN rows = 1 .. c /\ rows = [k \in 1 .. c |-> rows[k]]
      /\ \A k \in 1 .. c : rows[k] = DatabaseRow(list[k])
  BY <1>4, <1>5 DEF Mapped
<1>7. \A k \in 1 .. c : list[k] \in DOMAIN Traffic /\ list[k] \in Points(type, n)
  BY <1>1, <1>2, <1>4
<1>8. \A k \in 1 .. c : rows[k] \in Row
  BY <1>6, <1>7, DatabaseRowIs
<1>9. rows \in Seq(Row) /\ Len(rows) = c
  BY <1>2, <1>6, <1>8, IsSeq
<1>10. ASSUME NEW k \in 1 .. c
       PROVE  /\ AlertFromApi(rows[k]).id = <<Traffic[list[k]].device, Traffic[list[k]].stamp>>
              /\ Shows(AlertFromApi(rows[k])) = <<Traffic[list[k]].device,
                                                  RiskLevel(Traffic[list[k]].about),
                                                  Traffic[list[k]].stamp>>
  <2>1. /\ AlertFromApi(rows[k]).id = <<rows[k].device, Number(rows[k])>>
        /\ Shows(AlertFromApi(rows[k])) = <<rows[k].device, RiskLevel(rows[k].about),
                                            rows[k].stamp>>
    BY <1>8, FromRow
  <2>2. /\ rows[k].device = Traffic[list[k]].device /\ rows[k].about = Traffic[list[k]].about
        /\ rows[k].stamp = Traffic[list[k]].stamp /\ Number(rows[k]) = Traffic[list[k]].stamp
    BY <1>6, <1>7, DatabaseRowIs
  <2> QED  BY <2>1, <2>2
<1>11. ASSUME type = "alert", PointsDiffer, NEW i \in 1 .. c, NEW j \in 1 .. c,
              SameAlert(TRUE, AlertFromApi(rows[i]), AlertFromApi(rows[j]))
       PROVE  i = j
  <2> DEFINE m == Traffic[list[i]]
             r == Traffic[list[j]]
  <2>1. Shows(AlertFromApi(rows[i])) = Shows(AlertFromApi(rows[j]))
    BY <1>11, Zenon DEF SameAlert
  <2>2. m.device = r.device /\ m.stamp = r.stamp /\ RiskLevel(m.about) = RiskLevel(r.about)
    BY <1>10, <2>1
  <2>3. m \in SentAlerts /\ r \in SentAlerts
    <3>1. /\ list[i] \in OfType(type, n) /\ list[j] \in OfType(type, n)
          /\ list[i] \in DOMAIN Traffic /\ list[j] \in DOMAIN Traffic
      BY <1>1, <1>7
    <3>2. m.type = "alert" /\ r.type = "alert"
      BY <1>11, <3>1 DEF OfType
    <3> QED  BY <3>1, <3>2, StampIs DEF SentAlerts
  <2>4. m.about = r.about
    BY <1>11, <2>2, <2>3 DEF PointsDiffer
  <2>5. SameSeries(m, r) /\ SameSeries(r, m)
    BY <2>2, <2>4 DEF SameSeries
  <2>6. list[i] <= list[j] /\ list[j] <= list[i]
    BY <1>7, <2>2, <2>5 DEF Points
  <2>7. list[i] \in Nat /\ list[j] \in Nat
    BY <1>2, <1>4, FewPlaces
  <2>8. list[i] = list[j]
    BY <2>6, <2>7
  <2> QED  BY <1>4, <2>8 DEF IsInjective
<1>12. type = "alert" => NoRowTwice(TRUE, rows)
  BY <1>6, <1>11 DEF NoRowTwice, Differ
<1>13. ASSUME ~(Len(rows) >= MaxRows), NEW k \in OfType(type, n),
              time - Span <= Traffic[k].stamp, Traffic[k].stamp < time
       PROVE  HasRow(rows, k)
  <2>1. PICK p \in Points(type, n) : /\ SameSeries(Traffic[p], Traffic[k])
                                     /\ Traffic[p].stamp = Traffic[k].stamp
    BY PointOf
  <2>2. p \in C
    <3>1. p \in Found(type, n, time)
      BY <1>13, <2>1 DEF Found
    <3> QED  BY <1>3, <1>9, <1>13, <3>1 DEF F
  <2>3. PICK i \in 1 .. c : list[i] = p
    BY <1>4, <2>2
  <2>4. Traffic[k] \in Row
    BY <1>1, StampIs DEF Row
  <2>5. Shows(AlertFromApi(Traffic[k])) = <<Traffic[k].device, RiskLevel(Traffic[k].about),
                                            Traffic[k].stamp>>
    BY <2>4, FromRow
  <2>6. Shows(AlertFromApi(rows[i])) = Shows(AlertFromApi(Traffic[k]))
    BY <1>10, <2>1, <2>3, <2>5 DEF SameSeries
  <2> QED  BY <1>6, <2>6 DEF HasRow
<1> QED  BY <1>9, <1>12, <1>13 DEF rows

\* What a route answers at a moment, from the memory or from the database.
Moment == (0 .. Len(Traffic)) \X Nat
LEMMA RowsAre ==
    ASSUME NEW moment \in Moment, NEW type
    PROVE  /\ Rows(type, moment) \in Seq(Row)
           /\ type = "alert" => NoRowTwice(database, Rows(type, moment))
           /\ \/ Len(Rows(type, moment)) >= MaxRows
              \/ \A k \in OfType(type, moment[1]) :
                    type = "alert" /\ InRange(k, moment) => HasRow(Rows(type, moment), k)
<1>1. moment[1] \in 0 .. Len(Traffic) /\ moment[2] \in Nat
  BY DEF Moment
<1>2. ASSUME database
      PROVE  /\ Rows(type, moment) = FoundRows(type, moment[1], moment[2])
             /\ \A k : InRange(k, moment) => /\ moment[2] - Span <= Traffic[k].stamp
                                             /\ Traffic[k].stamp < moment[2]
             /\ \A rows : NoRowTwice(TRUE, rows) => NoRowTwice(database, rows)
  <2>1. Rows(type, moment) = FoundRows(type, moment[1], moment[2])
    BY <1>2, Zenon DEF Rows
  <2>2. \A k : InRange(k, moment) => /\ moment[2] - Span <= Traffic[k].stamp
                                     /\ Traffic[k].stamp < moment[2]
    BY <1>2, Zenon DEF InRange
  <2>3. \A rows : NoRowTwice(TRUE, rows) => NoRowTwice(database, rows)
    BY <1>2, Zenon DEF NoRowTwice, Differ, SameAlert
  <2> QED  BY <2>1, <2>2, <2>3
<1>3. ASSUME ~database
      PROVE  /\ Rows(type, moment) = HeldRows(type, moment[1])
             /\ \A k : InRange(k, moment) =>
                   \A j \in OfType("alert", moment[1]) : Traffic[j].stamp - Span <= Traffic[k].stamp
             /\ \A rows : NoRowTwice(FALSE, rows) => NoRowTwice(database, rows)
  <2>1. Rows(type, moment) = HeldRows(type, moment[1])
    BY <1>3, Zenon DEF Rows
  <2>2. \A k : InRange(k, moment) =>
           \A j \in OfType("alert", moment[1]) : Traffic[j].stamp - Span <= Traffic[k].stamp
    BY <1>3, Zenon DEF InRange
  <2>3. \A rows : NoRowTwice(FALSE, rows) => NoRowTwice(database, rows)
    BY <1>3, Zenon DEF NoRowTwice, Differ, SameAlert
  <2> QED  BY <2>1, <2>2, <2>3
<1>4. CASE database
  BY <1>1, <1>2, <1>4, FoundRowsAre
<1>5. CASE ~database
  <2>1. \A k \in OfType(type, moment[1]) :
           type = "alert" /\ InRange(k, moment) => k \in Held(type, moment[1])
    BY <1>3, <1>5 DEF Held
  <2> QED  BY <1>1, <1>3, <1>5, <2>1, HeldRowsAre
<1> QED  BY <1>4, <1>5

DemoAlert  == [id |-> None, device |-> None, vessel |-> None, level |-> "high",
               time |-> None]
DemoBuoy   == [id |-> DemoDevice, device |-> None, online |-> TRUE]
DemoVessel == [id |-> None, device |-> None, at |-> 0, risk |-> "high"]

LEMMA DemoParts ==
    /\ <<DemoAlert>> \in Seq(AlertRecord) /\ AllDemo(<<DemoAlert>>)
    /\ \A base : AlertsOnce(base, <<DemoAlert>>)
    /\ <<DemoBuoy>> \in Seq(DeviceRecord) /\ Once(<<DemoBuoy>>) /\ AllDemo(<<DemoBuoy>>)
    /\ <<DemoVessel>> \in Seq(VesselRecord) /\ AllDemo(<<DemoVessel>>)
<1>1. DemoAlert \in AlertRecord /\ ~LiveItem(DemoAlert)
  BY DEF DemoAlert, AlertRecord, Levels, LiveItem
<1>2. DemoBuoy \in DeviceRecord /\ ~LiveItem(DemoBuoy)
  BY DEF DemoBuoy, DeviceRecord, LiveItem
<1>3. DemoVessel \in VesselRecord /\ ~LiveItem(DemoVessel)
  BY DEF DemoVessel, VesselRecord, Levels, LiveItem
<1>4. ASSUME NEW S, NEW x \in S, ~LiveItem(x)
      PROVE  <<x>> \in Seq(S) /\ Once(<<x>>) /\ AllDemo(<<x>>)
  <2>1. <<x>> \in Seq(S) /\ DOMAIN <<x>> = 1 .. 1 /\ <<x>>[1] = x
    OBVIOUS
  <2>2. \A k \in DOMAIN <<x>> : k = 1
    BY <2>1
  <2> QED  BY <1>4, <2>1, <2>2 DEF Once, AllDemo
<1>5. ASSUME NEW base PROVE AlertsOnce(base, <<DemoAlert>>)
  <2>1. \A k \in DOMAIN <<DemoAlert>> : k = 1
    OBVIOUS
  <2> QED  BY <2>1 DEF AlertsOnce
<1> QED  BY <1>1, <1>2, <1>3, <1>4, <1>5

LEMMA DemoIs ==
    ASSUME NEW api
    PROVE  DemoState(api) =
             [alerts |-> <<DemoAlert>>, devices |-> <<DemoBuoy>>, vessels |-> <<DemoVessel>>,
              sensors |-> <<>>, mode |-> "demo", api |-> api]
BY DEF DemoState, DemoAlert, DemoBuoy, DemoVessel

LEMMA DemoIsHonest ==
    ASSUME NEW api \in {"idle", "online", "offline"}, NEW base
    PROVE  Honest(base, DemoState(api))
<1>1. <<>> \in Seq(SensorRecord)
  BY EmptySeq
<1>2. DemoState(api) \in ScreenRecord
  BY <1>1, DemoIs, DemoParts DEF ScreenRecord
<1> QED  BY <1>2, DemoIs, DemoParts DEF Honest

\* mergedState keeps what is live and fills up with demonstration data.
LEMMA MergedIs ==
    ASSUME NEW base,
           NEW alerts \in Seq(AlertRecord), AlertsOnce(base, alerts), AllLive(alerts),
           NEW devices \in Seq(DeviceRecord), Once(devices), AllLive(devices),
           NEW vessels \in Seq(VesselRecord), AllLive(vessels),
           NEW sensors \in Seq(SensorRecord),
           NEW s, s = [alerts |-> alerts, devices |-> devices, vessels |-> vessels,
                       sensors |-> sensors]
    PROVE  /\ Honest(base, MergedState(s))
           /\ MergedState(s).alerts = IF alerts = <<>> THEN <<DemoAlert>> ELSE alerts
<1> DEFINE A == IF alerts = <<>> THEN <<DemoAlert>> ELSE alerts
           D == IF devices = <<>> THEN <<DemoBuoy>> ELSE devices
           V == IF vessels = <<>> THEN <<DemoVessel>> ELSE vessels
           M == CASE HasLive(s) /\ UsesFallback(s) -> "mixed"
                  [] HasLive(s) /\ ~UsesFallback(s) -> "live"
                  [] OTHER -> "demo"
<1>1. MergedState(s) = [alerts |-> A, devices |-> D, vessels |-> V, sensors |-> sensors,
                        api |-> "online", mode |-> M]
  BY DemoIs DEF MergedState
<1>2. /\ UsesFallback(s) <=> alerts = <<>> \/ devices = <<>> \/ vessels = <<>>
      /\ HasLive(s) <=> alerts # <<>> \/ devices # <<>> \/ sensors # <<>> \/ vessels # <<>>
  BY DEF UsesFallback, HasLive
<1>3. /\ M \in {"demo", "mixed", "live"}
      /\ M = "live" => HasLive(s) /\ ~UsesFallback(s)
      /\ M = "demo" => ~HasLive(s)
  <2>1. CASE HasLive(s) /\ UsesFallback(s)
    BY <2>1
  <2>2. CASE HasLive(s) /\ ~UsesFallback(s)
    BY <2>2
  <2>3. CASE ~HasLive(s)
    BY <2>3
  <2> QED  BY <2>1, <2>2, <2>3
<1>4. A \in Seq(AlertRecord) /\ AlertsOnce(base, A)
  BY DemoParts
<1>5. D \in Seq(DeviceRecord) /\ Once(D)
  BY DemoParts
<1>6. V \in Seq(VesselRecord)
  BY DemoParts
<1>7. M = "live" => AllLive(A) /\ AllLive(D) /\ AllLive(V)
  BY <1>2, <1>3
<1>8. M = "demo" => sensors = <<>> /\ AllDemo(A) /\ AllDemo(D) /\ AllDemo(V)
  BY <1>2, <1>3, DemoParts
<1>9. MergedState(s).alerts = A
  BY <1>1
<1> HIDE DEF A, D, V, M
<1>10. MergedState(s) \in ScreenRecord
  BY <1>1, <1>3, <1>4, <1>5, <1>6 DEF ScreenRecord
<1>11. Honest(base, MergedState(s))
  BY <1>1, <1>4, <1>5, <1>7, <1>8, <1>10 DEF Honest
<1> QED  BY <1>9, <1>11 DEF A

\* The alerts of an answer, and its sensors.
LEMMA MappedAlerts ==
    ASSUME NEW alarms \in Seq(Row), NEW base, NoRowTwice(base, alarms)
    PROVE  /\ Mapped(AlertFromApi, alarms) \in Seq(AlertRecord)
           /\ Len(Mapped(AlertFromApi, alarms)) = Len(alarms)
           /\ DOMAIN Mapped(AlertFromApi, alarms) = DOMAIN alarms
           /\ AlertsOnce(base, Mapped(AlertFromApi, alarms))
           /\ AllLive(Mapped(AlertFromApi, alarms))
           /\ \A k \in DOMAIN alarms : Mapped(AlertFromApi, alarms)[k] = AlertFromApi(alarms[k])
<1> DEFINE made == Mapped(AlertFromApi, alarms)
<1>1. PICK L \in Nat : L = Len(alarms) /\ DOMAIN alarms = 1 .. L
  BY LenProperties
<1>2. /\ DOMAIN made = 1 .. L /\ made = [k \in 1 .. L |-> made[k]]
      /\ \A k \in 1 .. L : made[k] = AlertFromApi(alarms[k])
  BY <1>1 DEF Mapped
<1> HIDE DEF made
<1>3. ASSUME NEW k \in 1 .. L
      PROVE  made[k] \in AlertRecord /\ LiveItem(made[k])
  <2>1. alarms[k] \in Row
    BY <1>1
  <2> QED  BY <1>2, <2>1, FromRow
<1>4. made \in Seq(AlertRecord) /\ Len(made) = L
  BY <1>2, <1>3, IsSeq
<1>5. AlertsOnce(base, made)
  BY <1>1, <1>2 DEF AlertsOnce, NoRowTwice
<1>6. AllLive(made)
  BY <1>2, <1>3 DEF AllLive
<1> QED  BY <1>1, <1>2, <1>4, <1>5, <1>6 DEF made

LEMMA MappedSensors ==
    ASSUME NEW rows \in Seq(Row)
    PROVE  Mapped(SensorFromApi, rows) \in Seq(SensorRecord)
<1> DEFINE made == Mapped(SensorFromApi, rows)
<1>1. PICK L \in Nat : L = Len(rows) /\ DOMAIN rows = 1 .. L
  BY LenProperties
<1>2. /\ DOMAIN made = 1 .. L /\ made = [k \in 1 .. L |-> made[k]]
      /\ \A k \in 1 .. L : made[k] = SensorFromApi(rows[k])
  BY <1>1 DEF Mapped
<1> HIDE DEF made
<1>3. ASSUME NEW k \in 1 .. L PROVE made[k] \in SensorRecord
  <2>1. rows[k] \in Row
    BY <1>1
  <2> QED  BY <1>2, <2>1, FromRow
<1>4. made \in Seq(SensorRecord)
  BY <1>2, <1>3, IsSeq
<1> QED  BY <1>4 DEF made

LEMMA AnswerIs ==
    ASSUME NEW base, NEW devices \in Seq(DeviceRecord), Once(devices), AllLive(devices),
           NEW alarms \in Seq(Row), NoRowTwice(base, alarms),
           NEW tracks \in Seq(Row), NEW sensors \in Seq(Row)
    PROVE  /\ Honest(base, Answer(devices, alarms, tracks, sensors))
           /\ Answer(devices, alarms, tracks, sensors).alerts
                = IF alarms = <<>> THEN <<DemoAlert>> ELSE Mapped(AlertFromApi, alarms)
<1> DEFINE a == Mapped(AlertFromApi, alarms)
           v == VesselsFromTracks(tracks, a)
           n == Mapped(SensorFromApi, sensors)
           s == [alerts |-> a, devices |-> devices, vessels |-> v, sensors |-> n]
<1>1. a \in Seq(AlertRecord) /\ AlertsOnce(base, a) /\ AllLive(a) /\ Len(a) = Len(alarms)
  BY MappedAlerts
<1>2. a = <<>> <=> alarms = <<>>
  <2> HIDE DEF a
  <2>1. a = <<>> <=> Len(a) = 0
    BY <1>1, EmptySeq
  <2>2. alarms = <<>> <=> Len(alarms) = 0
    BY EmptySeq
  <2> QED  BY <1>1, <2>1, <2>2
<1>3. v \in Seq(VesselRecord) /\ AllLive(v)
  <2> HIDE DEF a
  <2> QED  BY <1>1, VesselsAre
<1>4. n \in Seq(SensorRecord)
  BY MappedSensors
<1>5. Answer(devices, alarms, tracks, sensors) = MergedState(s)
  BY DEF Answer
<1>6. /\ Honest(base, MergedState(s))
      /\ MergedState(s).alerts = IF a = <<>> THEN <<DemoAlert>> ELSE a
  <2>1. s = [alerts |-> a, devices |-> devices, vessels |-> v, sensors |-> n]
    OBVIOUS
  <2> HIDE DEF s, a, v, n
  <2> QED  BY <1>1, <1>3, <1>4, <2>1, MergedIs
<1> HIDE DEF s
<1> QED  BY <1>2, <1>5, <1>6

\* applyRealtimeMessage leaves an honest screen honest.
LEMMA AppliedIs ==
    ASSUME NEW base, NEW s, Honest(base, s), NEW m \in Message
    PROVE  /\ Honest(base, ApplyRealtimeMessage(s, m))
           /\ ApplyRealtimeMessage(s, m).alerts =
                IF m.type = "alert" THEN UpsertAlert(s.alerts, AlertFromApi(m)) ELSE s.alerts
<1> DEFINE mixed == [s EXCEPT !.mode = IF s.mode = "live" THEN "live" ELSE "mixed"]
           t == ApplyRealtimeMessage(s, m)
<1>1. /\ s \in ScreenRecord /\ s.alerts \in Seq(AlertRecord) /\ s.devices \in Seq(DeviceRecord)
      /\ s.vessels \in Seq(VesselRecord) /\ s.sensors \in Seq(SensorRecord)
      /\ AlertsOnce(base, s.alerts) /\ Once(s.devices)
      /\ s.mode = "live" => AllLive(s.alerts) /\ AllLive(s.devices) /\ AllLive(s.vessels)
  BY DEF Honest, ScreenRecord
<1>2. /\ mixed \in ScreenRecord /\ mixed.mode # "demo"
      /\ mixed.mode = "live" => s.mode = "live"
      /\ mixed.alerts = s.alerts /\ mixed.devices = s.devices
      /\ mixed.vessels = s.vessels /\ mixed.sensors = s.sensors
  BY <1>1 DEF ScreenRecord
<1>0. m \in Row
  BY DEF Row
<1>3. /\ AlertFromApi(m) \in AlertRecord /\ LiveItem(AlertFromApi(m))
      /\ DeviceFromApi(m) \in DeviceRecord /\ LiveItem(DeviceFromApi(m))
      /\ SensorFromApi(m) \in SensorRecord
      /\ VesselFromRow(m, s.alerts) \in VesselRecord /\ LiveItem(VesselFromRow(m, s.alerts))
  BY <1>0, <1>1, FromRow, DeviceFrom, VesselIs
<1>4. m.type \in Types
  BY MessageFields
<1>5. CASE m.type = "track"
  <2> DEFINE new == Upsert(s.vessels, VesselFromRow(m, s.alerts))
  <2>1. new \in Seq(VesselRecord) /\ (AllLive(s.vessels) => AllLive(new))
    BY <1>1, <1>3, UpsertIs
  <2>2. t = [mixed EXCEPT !.vessels = new]
    BY <1>2, <1>5 DEF ApplyRealtimeMessage
  <2> HIDE DEF mixed, t, new
  <2>3. /\ t \in ScreenRecord /\ t.alerts = s.alerts /\ t.devices = s.devices
        /\ t.vessels = new /\ t.mode = mixed.mode
    BY <1>2, <2>1, <2>2 DEF ScreenRecord
  <2>4. Honest(base, t)
    BY <1>1, <1>2, <2>1, <2>3 DEF Honest
  <2> QED  BY <1>5, <2>3, <2>4 DEF t
<1>6. CASE m.type = "alert"
  <2> DEFINE new == UpsertAlert(s.alerts, AlertFromApi(m))
  <2>1. /\ new \in Seq(AlertRecord) /\ AlertsOnce(base, new)
        /\ AllLive(s.alerts) => AllLive(new)
    BY <1>1, <1>3, UpsertAlertIs
  <2>2. t = [mixed EXCEPT !.alerts = new]
    BY <1>2, <1>6 DEF ApplyRealtimeMessage
  <2> HIDE DEF mixed, t, new
  <2>3. /\ t \in ScreenRecord /\ t.alerts = new /\ t.devices = s.devices
        /\ t.vessels = s.vessels /\ t.mode = mixed.mode
    BY <1>2, <2>1, <2>2 DEF ScreenRecord
  <2>4. Honest(base, t)
    BY <1>1, <1>2, <2>1, <2>3 DEF Honest
  <2> QED  BY <1>6, <2>3, <2>4 DEF t, new
<1>7. CASE m.type \in {"status", "lwt"}
  <2> DEFINE new == Upsert(s.devices, DeviceFromApi(m))
  <2>1. new \in Seq(DeviceRecord) /\ Once(new) /\ (AllLive(s.devices) => AllLive(new))
    BY <1>1, <1>3, UpsertIs
  <2>2. t = [mixed EXCEPT !.devices = new]
    BY <1>2, <1>7 DEF ApplyRealtimeMessage
  <2> HIDE DEF mixed, t, new
  <2>3. /\ t \in ScreenRecord /\ t.alerts = s.alerts /\ t.devices = new
        /\ t.vessels = s.vessels /\ t.mode = mixed.mode
    BY <1>2, <2>1, <2>2 DEF ScreenRecord
  <2>4. Honest(base, t)
    BY <1>1, <1>2, <2>1, <2>3 DEF Honest
  <2> QED  BY <1>7, <2>3, <2>4 DEF t
<1>8. CASE m.type = "sensor"
  <2> DEFINE new == Shown(<<SensorFromApi(m)>> \o s.sensors)
  <2>1. new \in Seq(SensorRecord)
    BY <1>1, <1>3, OnTop, ShownAre
  <2>2. t = [mixed EXCEPT !.sensors = new]
    BY <1>2, <1>8 DEF ApplyRealtimeMessage
  <2> HIDE DEF mixed, t, new
  <2>3. /\ t \in ScreenRecord /\ t.alerts = s.alerts /\ t.devices = s.devices
        /\ t.vessels = s.vessels /\ t.mode = mixed.mode
    BY <1>2, <2>1, <2>2 DEF ScreenRecord
  <2>4. Honest(base, t)
    BY <1>1, <1>2, <2>3 DEF Honest
  <2> QED  BY <1>8, <2>3, <2>4 DEF t
<1> QED  BY <1>4, <1>5, <1>6, <1>7, <1>8 DEF Types

-----------------------------------------------------------------------------
(* The invariant *)

Bounds == Len(mounts) <= MaxMounts /\ Len(sockets) <= MaxSockets
Poll == [token : Token, from : 0 .. Len(Traffic), since : Nat]
PageTyped ==
    /\ database \in BOOLEAN /\ now \in Nat
    /\ sent \in 0 .. Len(Traffic) /\ token \in Token
    /\ moments \subseteq (0 .. sent) \X Nat
    /\ polls \in Seq(Poll) /\ Len(polls) <= MaxPolls
    /\ applied \in Message \cup {NoMessage}
    /\ failures \in 0 .. MaxFailures

ScreenInv == ConnectionInv /\ Bounds /\ PageTyped /\ Honest(database, screen)

-----------------------------------------------------------------------------
(* What the steps of the connection keep *)

LEMMA SameLength ==
    ASSUME NEW S, NEW T, NEW a \in Seq(S), NEW b \in Seq(T), DOMAIN a = DOMAIN b
    PROVE  Len(a) = Len(b)
<1>1. PICK m \in Nat : m = Len(a) /\ DOMAIN a = 1 .. m
  BY LenProperties
<1>2. PICK n \in Nat : n = Len(b) /\ DOMAIN b = 1 .. n
  BY LenProperties
<1>3. ~(m < n)
  <2>1. ASSUME m < n PROVE FALSE
    <3>1. n \in 1 .. n /\ n \notin 1 .. m
      BY <2>1
    <3> QED  BY <1>1, <1>2, <3>1
  <2> QED  BY <2>1
<1>4. ~(n < m)
  <2>1. ASSUME n < m PROVE FALSE
    <3>1. m \in 1 .. m /\ m \notin 1 .. n
      BY <2>1
    <3> QED  BY <1>1, <1>2, <3>1
  <2> QED  BY <2>1
<1>5. m = n
  BY <1>3, <1>4
<1> QED  BY <1>1, <1>2, <1>5

\* A step that makes no mount and no socket.
LEMMA SameBounds ==
    ASSUME ConnectionInv, ConnectionInv', Bounds,
           DOMAIN mounts' = DOMAIN mounts, DOMAIN sockets' = DOMAIN sockets
    PROVE  Bounds'
<1>1. /\ mounts' \in Seq(MountRecord') /\ sockets' \in Seq(SocketRecord')
      /\ mounts \in Seq(MountRecord) /\ sockets \in Seq(SocketRecord)
  BY DEF ConnectionInv, Typed
<1>2. Len(mounts') = Len(mounts)
  BY <1>1, SameLength
<1>3. Len(sockets') = Len(sockets)
  BY <1>1, SameLength
<1> QED  BY <1>2, <1>3 DEF Bounds

\* One that makes a socket.
LEMMA OneMore ==
    ASSUME NEW S, NEW T, NEW before \in Seq(S), NEW x, NEW after \in Seq(T),
           after = Append(before, x), NEW limit \in Nat, Len(before) < limit
    PROVE  Len(after) <= limit
<1>1. Len(after) = Len(before) + 1 /\ Len(before) \in Nat
  BY LenProperties
<1> QED  BY <1>1

LEMMA CallbackKeeps ==
    ASSUME ConnectionInv, ConnectionInv', Bounds, NEW s \in Socket, Callback(s)
    PROVE  Bounds'
<1>1. DOMAIN sockets' = DOMAIN sockets
  BY DEF Callback, Open, Receive, Fail, CloseEnds, CloseBreaks, Close, Phase
<1>2. DOMAIN mounts' = DOMAIN mounts
  BY DEF Callback, Open, Receive, Fail, CloseEnds, CloseBreaks, Close, ResetStaleTimer
<1> QED  BY <1>1, <1>2, SameBounds

LEMMA StaleKeeps ==
    ASSUME ConnectionInv, ConnectionInv', Bounds, NEW m \in Mount, StaleFires(m)
    PROVE  Bounds'
<1>1. DOMAIN mounts' = DOMAIN mounts /\ DOMAIN sockets' = DOMAIN sockets
  BY DEF StaleFires
<1> QED  BY <1>1, SameBounds

LEMMA ReconnectKeeps ==
    ASSUME ConnectionInv, ConnectionInv', Bounds, NEW m \in Mount, ReconnectFires(m)
    PROVE  Bounds'
<1>1. /\ mounts' \in Seq(MountRecord') /\ sockets' \in Seq(SocketRecord')
      /\ mounts \in Seq(MountRecord) /\ sockets \in Seq(SocketRecord)
  BY DEF ConnectionInv, Typed
<1>2. /\ Len(sockets) < MaxSockets /\ DOMAIN mounts' = DOMAIN mounts
      /\ sockets' = Append(sockets, NewSocket(m))
  BY DEF ReconnectFires
<1>3. Len(sockets') <= MaxSockets
  BY <1>1, <1>2, OneMore, RealtimeAssumption
<1>4. Len(mounts') = Len(mounts)
  BY <1>1, <1>2, SameLength
<1> QED  BY <1>3, <1>4 DEF Bounds

LEMMA RemountKeeps ==
    ASSUME ConnectionInv, ConnectionInv', Bounds, Remount
    PROVE  Bounds'
<1>1. /\ mounts' \in Seq(MountRecord') /\ sockets' \in Seq(SocketRecord')
      /\ mounts \in Seq(MountRecord) /\ sockets \in Seq(SocketRecord)
      /\ Len(mounts) < MaxMounts /\ Len(sockets) < MaxSockets
  BY DEF ConnectionInv, Typed, Remount, Current
<1>2. Current \in Mount /\ mounts[Current].socket \in Socket
  BY DEF ConnectionInv, Typed, Linked, Mount, Current
<1>3. Len(mounts') <= MaxMounts
  <2> DEFINE q == [mounts[Current] EXCEPT !.disposed = TRUE, !.reconnect = FALSE,
                                          !.stale = FALSE]
             left == [mounts EXCEPT ![Current] = q]
  <2>1. mounts' = Append(left, NewMount(Len(sockets) + 1))
    BY DEF Remount
  <2> HIDE DEF q
  <2>2. left \in Seq(MountRecord \cup {q}) /\ Len(left) = Len(mounts)
    BY <1>1, <1>2 DEF Mount
  <2> HIDE DEF left
  <2> QED  BY <1>1, <2>1, <2>2, OneMore, RealtimeAssumption
<1>4. Len(sockets') <= MaxSockets
  <2> DEFINE old == mounts[Current].socket
             r == [sockets[old] EXCEPT !.phase = IF sockets[old].phase \in Closable
                                                 THEN "closing" ELSE sockets[old].phase]
             closed == [sockets EXCEPT ![old] = r]
  <2>1. sockets' = Append(closed, NewSocket(Current + 1))
    BY DEF Remount
  <2> HIDE DEF r, old
  <2>2. closed \in Seq(SocketRecord \cup {r}) /\ Len(closed) = Len(sockets)
    BY <1>1, <1>2 DEF Socket, old
  <2> HIDE DEF closed
  <2> QED  BY <1>1, <2>1, <2>2, OneMore, RealtimeAssumption
<1> QED  BY <1>3, <1>4 DEF Bounds

LEMMA SendKeeps ==
    ASSUME ConnectionInv, ConnectionInv', Bounds, Send
    PROVE  Bounds'
<1>1. DOMAIN mounts' = DOMAIN mounts /\ DOMAIN sockets' = DOMAIN sockets
  BY DEF Send, Socket
<1> QED  BY <1>1, SameBounds

-----------------------------------------------------------------------------
(* What the steps of the page show *)

LEMMA PollsChange ==
    ASSUME NEW S, NEW n \in Nat, NEW seq \in Seq(S), Len(seq) <= n
    PROVE  /\ \A x \in S : Len(seq) < n => /\ Append(seq, x) \in Seq(S)
                                           /\ Len(Append(seq, x)) <= n
           /\ \A k \in DOMAIN seq : RemoveAt(seq, k) \in Seq(S) /\ Len(RemoveAt(seq, k)) <= n
<1>1. ASSUME NEW x \in S, Len(seq) < n
      PROVE  Append(seq, x) \in Seq(S) /\ Len(Append(seq, x)) <= n
  <2>1. Append(seq, x) \in Seq(S) /\ Len(Append(seq, x)) = Len(seq) + 1
    BY AppendProperties
  <2>2. Len(seq) + 1 <= n
    BY <1>1, LenProperties
  <2> QED  BY <2>1, <2>2
<1>2. ASSUME NEW k \in DOMAIN seq
      PROVE  RemoveAt(seq, k) \in Seq(S) /\ Len(RemoveAt(seq, k)) <= n
  <2>1. PICK L \in Nat : L = Len(seq) /\ DOMAIN seq = 1 .. L
    BY LenProperties
  <2> DEFINE a == SubSeq(seq, 1, k - 1)
             b == SubSeq(seq, k + 1, L)
  <2>2. a \in Seq(S) /\ Len(a) = k - 1
    <3>1. 1 \in 1 .. L + 1 /\ k - 1 \in 0 .. L /\ 1 <= k - 1 + 1 /\ k - 1 - 1 + 1 = k - 1
      BY <2>1
    <3>2. SubSeq(seq, 1, k - 1) \in Seq(S) /\ Len(SubSeq(seq, 1, k - 1)) = k - 1 - 1 + 1
      BY <2>1, <3>1, PartIs
    <3> QED  BY <3>1, <3>2
  <2>3. b \in Seq(S) /\ Len(b) = L - k
    <3>1. k + 1 \in 1 .. L + 1 /\ L \in 0 .. L /\ k + 1 <= L + 1 /\ L - (k + 1) + 1 = L - k
      BY <2>1
    <3>2. SubSeq(seq, k + 1, L) \in Seq(S) /\ Len(SubSeq(seq, k + 1, L)) = L - (k + 1) + 1
      BY <2>1, <3>1, PartIs
    <3> QED  BY <3>1, <3>2
  <2>4. RemoveAt(seq, k) = a \o b
    BY <2>1 DEF RemoveAt
  <2> HIDE DEF a, b
  <2>5. a \o b \in Seq(S) /\ Len(a \o b) = Len(a) + Len(b)
    BY <2>2, <2>3, ConcatProperties
  <2>6. Len(a) + Len(b) <= n
    BY <2>1, <2>2, <2>3
  <2> QED  BY <2>4, <2>5, <2>6
<1> QED  BY <1>1, <1>2

\* A screen with the alerts of a moment that were in the range, or with as many as a
\* route answers.
ShowsAlarmsOf(s, moment) ==
    /\ Honest(database, s)
    /\ \/ Len(s.alerts) >= MaxRows
       \/ \A k \in OfType("alert", moment[1]) : InRange(k, moment) =>
             \E i \in DOMAIN s.alerts : Shows(s.alerts[i]) = Shows(AlertFromApi(Traffic[k]))

LEMMA AnswerAlerts ==
    ASSUME NEW moment \in Moment,
           NEW devices \in Seq(DeviceRecord), Once(devices), AllLive(devices),
           NEW tracks \in Seq(Row), NEW sensors \in Seq(Row),
           NEW s, s = Answer(devices, Rows("alert", moment), tracks, sensors)
    PROVE  ShowsAlarmsOf(s, moment)
<1> DEFINE alarms == Rows("alert", moment)
           made == Mapped(AlertFromApi, alarms)
<1>1. /\ alarms \in Seq(Row) /\ NoRowTwice(database, alarms)
      /\ \/ Len(alarms) >= MaxRows
         \/ \A k \in OfType("alert", moment[1]) : InRange(k, moment) => HasRow(alarms, k)
  BY RowsAre
<1>2. s = Answer(devices, alarms, tracks, sensors)
  OBVIOUS
<1> HIDE DEF alarms
<1>3. Honest(database, s) /\ s.alerts = IF alarms = <<>> THEN <<DemoAlert>> ELSE made
  <2>1. ASSUME NEW base, NoRowTwice(base, alarms)
        PROVE  /\ Honest(base, s)
               /\ s.alerts = IF alarms = <<>> THEN <<DemoAlert>> ELSE made
    <3>1. alarms \in Seq(Row)
      BY <1>1
    <3>2. /\ Honest(base, Answer(devices, alarms, tracks, sensors))
          /\ Answer(devices, alarms, tracks, sensors).alerts
               = IF alarms = <<>> THEN <<DemoAlert>> ELSE Mapped(AlertFromApi, alarms)
      BY <2>1, <3>1, AnswerIs
    <3> QED  BY <1>2, <3>2
  <2> HIDE DEF made
  <2> QED  BY <1>1, <2>1, Zenon
<1>4. /\ made \in Seq(AlertRecord) /\ Len(made) = Len(alarms) /\ DOMAIN made = DOMAIN alarms
      /\ \A k \in DOMAIN alarms : made[k] = AlertFromApi(alarms[k])
  BY <1>1, MappedAlerts
<1> HIDE DEF made
<1>5. CASE alarms = <<>>
  <2>1. Len(alarms) = 0 /\ DOMAIN alarms = {} /\ MaxRows \in Nat \ {0}
    BY <1>5, LiveAssumption
  <2>2. \A k \in OfType("alert", moment[1]) : ~InRange(k, moment)
    BY <1>1, <2>1 DEF HasRow
  <2> QED  BY <1>3, <2>2 DEF ShowsAlarmsOf
<1>6. CASE alarms # <<>>
  <2>1. s.alerts = made
    BY <1>3, <1>6
  <2>2. ASSUME NEW k, HasRow(alarms, k)
        PROVE  \E i \in DOMAIN made : Shows(made[i]) = Shows(AlertFromApi(Traffic[k]))
    BY <1>4, <2>2 DEF HasRow
  <2>3. \/ Len(made) >= MaxRows
        \/ \A k \in OfType("alert", moment[1]) : InRange(k, moment) =>
              \E i \in DOMAIN made : Shows(made[i]) = Shows(AlertFromApi(Traffic[k]))
    BY <1>1, <1>4, <2>2
  <2> QED  BY <1>3, <2>1, <2>3 DEF ShowsAlarmsOf
<1> QED  BY <1>5, <1>6

-----------------------------------------------------------------------------
LEMMA ScreenInit == Init => ScreenInv
<1> SUFFICES ASSUME Init PROVE ScreenInv
  OBVIOUS
<1>1. ConnectionInv
  BY InitInv
<1>2. Bounds
  <2>1. sockets = <<NewSocket(1)>> /\ mounts = <<NewMount(1)>>
    BY DEF Init, RealtimeInit
  <2> QED  BY <2>1, RealtimeAssumption DEF Bounds
<1>3. Honest(database, screen)
  <2>1. screen = DemoState("idle")
    BY DEF Init
  <2> QED  BY <2>1, DemoIsHonest
<1>4. PageTyped
  <2> DEFINE first == [token |-> token, from |-> Stored, since |-> Opened]
  <2>1. /\ sent = Stored /\ token \in Token /\ polls = <<first>> /\ applied = NoMessage
        /\ failures = 0 /\ now = Opened /\ moments = {<<Stored, Opened>>}
    BY DEF Init
  <2>2. database \in BOOLEAN
    BY DEF Init
  <2>3. first \in Poll
    BY <2>1, LiveAssumption DEF Poll
  <2> HIDE DEF first
  <2>4. <<first>> \in Seq(Poll) /\ Len(<<first>>) = 1
    BY <2>3
  <2>5. MaxPolls \in Nat /\ 1 <= MaxPolls /\ MaxFailures \in Nat
    BY LiveAssumption
  <2>6. sent \in 0 .. Len(Traffic) /\ now \in Nat /\ moments \subseteq (0 .. sent) \X Nat
    BY <2>1, LiveAssumption
  <2> QED  BY <2>1, <2>2, <2>4, <2>5, <2>6 DEF PageTyped
<1> QED  BY <1>1, <1>2, <1>3, <1>4 DEF ScreenInv

\* A poll, and the moments of its answers.
LEMMA PollIs ==
    ASSUME PageTyped, NEW k \in DOMAIN polls
    PROVE  polls[k] \in Poll /\ MomentsOf(polls[k]) \subseteq Moment
<1>1. polls \in Seq(Poll) /\ moments \subseteq (0 .. sent) \X Nat /\ sent \in 0 .. Len(Traffic)
  BY DEF PageTyped
<1>2. (0 .. sent) \X Nat \subseteq Moment
  <2>1. Len(Traffic) \in Nat
    BY LiveAssumption, LenProperties
  <2>2. 0 .. sent \subseteq 0 .. Len(Traffic)
    BY <1>1, <2>1
  <2> QED  BY <2>2 DEF Moment
<1>3. polls[k] \in Poll
  BY <1>1
<1> QED  BY <1>1, <1>2, <1>3 DEF MomentsOf

\* What FinishPoll shows.
LEMMA FinishShows ==
    ASSUME PageTyped, NEW k \in DOMAIN polls, FinishPoll(k)
    PROVE  \E moment \in MomentsOf(polls[k]) : ShowsAlarmsOf(screen', moment)
<1>1. MomentsOf(polls[k]) \subseteq Moment
  BY PollIs
<1>2. PICK devices \in {DeviceRows(moment[1]) : moment \in MomentsOf(polls[k])},
           alarms  \in Answers("alert", polls[k]),
           tracks  \in Answers("track", polls[k]),
           sensors \in Answers("sensor", polls[k]) :
             screen' = Answer(devices, alarms, tracks, sensors)
  BY DEF FinishPoll
<1>3. PICK moment \in MomentsOf(polls[k]) : alarms = Rows("alert", moment)
  BY DEF Answers
<1>4. tracks \in Seq(Row) /\ sensors \in Seq(Row)
  BY <1>1, RowsAre DEF Answers
<1>5. devices \in Seq(DeviceRecord) /\ Once(devices) /\ AllLive(devices)
  <2>1. PICK other \in MomentsOf(polls[k]) : devices = DeviceRows(other[1])
    OBVIOUS
  <2>2. other[1] \in 0 .. Len(Traffic)
    BY <1>1 DEF Moment
  <2> QED  BY <2>1, <2>2, DevicesAre
<1>6. moment \in Moment
  BY <1>1
<1>7. ShowsAlarmsOf(screen', moment)
  BY <1>2, <1>3, <1>4, <1>5, <1>6, AnswerAlerts
<1> QED  BY <1>7

\* What Render shows.
LEMMA RenderShows ==
    ASSUME ScreenInv, Render
    PROVE  \E m \in Message :
              /\ applied' = m /\ Honest(database, screen')
              /\ screen'.alerts = IF m.type = "alert"
                                  THEN UpsertAlert(screen.alerts, AlertFromApi(m))
                                  ELSE screen.alerts
<1>1. status.last \in Message
  <2>1. status.last \in Message \cup {NoMessage}
    BY DEF ScreenInv, ConnectionInv, Typed, StatusRecord
  <2> QED  BY <2>1 DEF Render
<1>2. screen' = ApplyRealtimeMessage(screen, status.last) /\ applied' = status.last
  BY DEF Render, CurrentState
<1> DEFINE m == status.last
<1>3. m \in Message /\ applied' = m /\ Honest(database, screen)
  BY <1>1, <1>2 DEF ScreenInv
<1>4. screen' = ApplyRealtimeMessage(screen, m)
  BY <1>2
<1> HIDE DEF m
<1>5. /\ Honest(database, ApplyRealtimeMessage(screen, m))
      /\ ApplyRealtimeMessage(screen, m).alerts =
           IF m.type = "alert" THEN UpsertAlert(screen.alerts, AlertFromApi(m)) ELSE screen.alerts
  BY <1>3, AppliedIs
<1> QED  BY <1>3, <1>4, <1>5

\* What EndPoll changes of the page.
LEMMA EndPollKeeps ==
    ASSUME ScreenInv, NEW k \in DOMAIN polls, EndPoll(k)
    PROVE  PageTyped' /\ Honest(database, screen')
<1>1. /\ polls' = RemoveAt(polls, k) /\ UNCHANGED cloud /\ token' = token
      /\ applied' = applied
  BY DEF EndPoll, FinishPoll, FailPoll
<1>2. PageTyped /\ MaxPolls \in Nat /\ MaxFailures \in Nat
  BY LiveAssumption DEF ScreenInv
<1>3. polls' \in Seq(Poll) /\ Len(polls') <= MaxPolls
  BY <1>1, <1>2, PollsChange DEF PageTyped
<1>4. failures' \in 0 .. MaxFailures
  BY <1>2 DEF EndPoll, FinishPoll, FailPoll, PageTyped
<1>5. PageTyped'
  <2>1. database' \in BOOLEAN
    BY <1>1, <1>2, Zenon DEF PageTyped, cloud
  <2>2. now' = now /\ sent' = sent /\ moments' = moments
    BY <1>1 DEF cloud
  <2> QED  BY <1>1, <1>2, <1>3, <1>4, <2>1, <2>2 DEF PageTyped, Poll
<1>6. CASE FinishPoll(k)
  BY <1>2, <1>5, <1>6, FinishShows DEF ShowsAlarmsOf
<1>7. CASE FailPoll(k)
  <2>1. screen' = DemoState("offline")
    BY <1>7 DEF FailPoll
  <2> QED  BY <1>5, <2>1, DemoIsHonest
<1> QED  BY <1>6, <1>7 DEF EndPoll

\* A new poll.
LEMMA NewPollKeeps ==
    ASSUME ScreenInv, NEW t \in Token, Len(polls) < MaxPolls,
           polls' = Append(polls, [token |-> t, from |-> sent, since |-> now])
    PROVE  polls' \in Seq(Poll) /\ Len(polls') <= MaxPolls
<1> DEFINE new == [token |-> t, from |-> sent, since |-> now]
<1>1. MaxPolls \in Nat /\ polls \in Seq(Poll) /\ Len(polls) <= MaxPolls
  BY LiveAssumption DEF ScreenInv, PageTyped
<1>2. new \in Poll
  BY DEF ScreenInv, PageTyped, Poll
<1>3. polls' = Append(polls, new)
  OBVIOUS
<1> HIDE DEF new
<1> QED  BY <1>1, <1>2, <1>3, PollsChange

\* A step that leaves the screen, or makes it an honest one, in the same cloud.
LEMMA PageKeeps ==
    ASSUME ScreenInv, UNCHANGED database,
           now' \in Nat, sent' \in 0 .. Len(Traffic), token' \in Token,
           moments' \subseteq (0 .. sent') \X Nat,
           polls' \in Seq(Poll), Len(polls') <= MaxPolls,
           applied' \in Message \cup {NoMessage}, failures' \in 0 .. MaxFailures,
           screen' = screen \/ Honest(database, screen')
    PROVE  PageTyped' /\ Honest(database, screen)'
<1>1. database' \in BOOLEAN
  BY Zenon DEF ScreenInv, PageTyped
<1>2. Honest(database, screen')
  BY Zenon DEF ScreenInv
<1>3. Honest(database, screen)'
  BY <1>2, Zenon
<1> QED  BY <1>1, <1>3 DEF PageTyped, Poll

LEMMA ScreenStep == ScreenInv /\ [Next]_vars => ScreenInv'
<1> SUFFICES ASSUME ScreenInv, [Next]_vars
             PROVE  ScreenInv'
  OBVIOUS
<1>1. ConnectionInv /\ ConnectionInv' /\ Bounds
  BY ConnectionStep DEF ScreenInv
<1>2. /\ now \in Nat /\ sent \in 0 .. Len(Traffic) /\ token \in Token
      /\ moments \subseteq (0 .. sent) \X Nat
      /\ polls \in Seq(Poll) /\ Len(polls) <= MaxPolls
      /\ applied \in Message \cup {NoMessage} /\ failures \in 0 .. MaxFailures
  BY DEF ScreenInv, PageTyped
<1>3. ASSUME Bounds', PageTyped' /\ Honest(database, screen)'
      PROVE  ScreenInv'
  BY <1>1, <1>3 DEF ScreenInv
<1>4. ASSUME UNCHANGED realtime
      PROVE  Bounds'
  BY <1>1, <1>4, SameBounds DEF realtime
<1>5. ASSUME UNCHANGED page
      PROVE  PageTyped' /\ Honest(database, screen)'
  <2>1. /\ now' = now /\ sent' = sent /\ moments' = moments /\ token' = token /\ polls' = polls
        /\ screen' = screen /\ applied' = applied /\ failures' = failures
    BY <1>5 DEF page, cloud
  <2>2. UNCHANGED database
    BY <1>5 DEF page, cloud
  <2> QED  BY <1>2, <2>1, <2>2, PageKeeps
<1>6. CASE Send
  <2>1. /\ sent' = sent + 1 /\ moments' = moments \cup {<<sent + 1, now>>}
        /\ sent < Len(Traffic) /\ Len(Traffic) \in Nat
        /\ now' = now /\ token' = token /\ polls' = polls /\ screen' = screen
        /\ applied' = applied /\ failures' = failures
    BY <1>6, LiveAssumption, LenProperties DEF Send
  <2>2. sent' \in 0 .. Len(Traffic) /\ moments' \subseteq (0 .. sent') \X Nat
    <3>1. /\ 0 .. sent \subseteq 0 .. sent + 1 /\ sent + 1 \in 0 .. sent + 1
          /\ sent + 1 \in 0 .. Len(Traffic)
      BY <1>2, <2>1
    <3> QED  BY <1>2, <2>1, <3>1
  <2>3. UNCHANGED database
    BY <1>6 DEF Send
  <2>4. PageTyped' /\ Honest(database, screen)'
    BY <1>2, <2>1, <2>2, <2>3, PageKeeps
  <2> QED  BY <1>1, <1>3, <1>6, <2>4, SendKeeps
<1>7. CASE Tick
  <2>1. /\ UNCHANGED realtime /\ sent' = sent /\ token' = token /\ polls' = polls
        /\ screen' = screen /\ applied' = applied /\ failures' = failures
    BY <1>7 DEF Tick
  <2>2. now' \in Nat /\ moments' \subseteq (0 .. sent') \X Nat
    <3>1. PICK tick \in Ticks : tick[1] = sent /\ now' = tick[2] /\ moments' = moments \cup {tick}
      BY <1>7 DEF Tick
    <3>2. tick \in Nat \X Nat
      BY LiveAssumption
    <3>3. tick \in (0 .. sent) \X Nat
      BY <1>2, <3>1, <3>2
    <3> QED  BY <1>2, <2>1, <3>1, <3>2, <3>3
  <2>3. UNCHANGED database
    BY <1>7 DEF Tick
  <2>4. PageTyped' /\ Honest(database, screen)'
    BY <1>2, <2>1, <2>2, <2>3, PageKeeps
  <2> QED  BY <1>3, <1>4, <2>1, <2>4
<1>8. CASE StartPoll \/ SetApiToken
  <2>1. /\ UNCHANGED realtime /\ UNCHANGED cloud /\ screen' = screen
        /\ applied' = applied /\ failures' = failures /\ Len(polls) < MaxPolls
    BY <1>8 DEF StartPoll, SetApiToken
  <2>2. PICK t \in Token :
          /\ token' = t
          /\ polls' = Append(polls, [token |-> t, from |-> sent, since |-> now])
    BY <1>2, <1>8 DEF StartPoll, SetApiToken
  <2>3. polls' \in Seq(Poll) /\ Len(polls') <= MaxPolls
    BY <2>1, <2>2, NewPollKeeps
  <2>4. now' = now /\ sent' = sent /\ moments' = moments
    BY <2>1 DEF cloud
  <2>5. UNCHANGED database
    BY <2>1 DEF cloud
  <2>6. PageTyped' /\ Honest(database, screen)'
    BY <1>2, <2>1, <2>2, <2>3, <2>4, <2>5, PageKeeps
  <2> QED  BY <1>3, <1>4, <2>1, <2>6
<1>9. CASE Render
  <2>1. /\ UNCHANGED realtime /\ UNCHANGED cloud /\ token' = token /\ polls' = polls
        /\ failures' = failures
    BY <1>9 DEF Render
  <2>2. PICK m \in Message : applied' = m /\ Honest(database, screen')
    BY <1>9, RenderShows
  <2>3. now' = now /\ sent' = sent /\ moments' = moments
    BY <2>1 DEF cloud
  <2>4. UNCHANGED database
    BY <2>1 DEF cloud
  <2>5. PageTyped' /\ Honest(database, screen)'
    BY <1>2, <2>1, <2>2, <2>3, <2>4, PageKeeps
  <2> QED  BY <1>3, <1>4, <2>1, <2>5
<1>10. CASE RunEffectsAgain
  <2>1. /\ Remount /\ UNCHANGED cloud /\ token' = token /\ polls' = polls
        /\ screen' = screen /\ failures' = failures /\ applied' = NoMessage
    BY <1>10 DEF RunEffectsAgain
  <2>2. now' = now /\ sent' = sent /\ moments' = moments
    BY <2>1 DEF cloud
  <2>3. UNCHANGED database
    BY <2>1 DEF cloud
  <2>4. PageTyped' /\ Honest(database, screen)'
    BY <1>2, <2>1, <2>2, <2>3, PageKeeps
  <2> QED  BY <1>1, <1>3, <2>1, <2>4, RemountKeeps
<1>11. ASSUME NEW k \in DOMAIN polls, EndPoll(k)
       PROVE  ScreenInv'
  <2>1. UNCHANGED realtime /\ UNCHANGED database
    BY <1>11 DEF EndPoll, FinishPoll, FailPoll, cloud
  <2>2. PageTyped' /\ Honest(database, screen')
    BY <1>11, EndPollKeeps
  <2>3. Honest(database, screen)'
    BY <2>1, <2>2, Zenon
  <2> QED  BY <1>3, <1>4, <2>1, <2>2, <2>3
<1>12. ASSUME NEW m \in Mount, ReconnectFires(m) \/ StaleFires(m), UNCHANGED page
       PROVE  ScreenInv'
  <2>1. Bounds'
    BY <1>1, <1>12, ReconnectKeeps, StaleKeeps
  <2> QED  BY <1>3, <1>5, <1>12, <2>1
<1>13. ASSUME NEW s \in Socket, Callback(s), UNCHANGED page
       PROVE  ScreenInv'
  <2>1. Bounds'
    BY <1>1, <1>13, CallbackKeeps
  <2> QED  BY <1>3, <1>5, <1>13, <2>1
<1>14. CASE UNCHANGED vars
  <2>1. UNCHANGED page /\ UNCHANGED realtime
    BY <1>14 DEF vars
  <2> QED  BY <1>3, <1>4, <1>5, <2>1
<1> QED
  BY <1>6, <1>7, <1>8, <1>9, <1>10, <1>11, <1>12, <1>13, <1>14 DEF Next

LEMMA ScreenInvHolds == Spec => []ScreenInv
<1>1. Init => ScreenInv
  BY ScreenInit
<1>2. ScreenInv /\ [Next]_vars => ScreenInv'
  BY ScreenStep
<1> QED  BY <1>1, <1>2, PTL DEF Spec

\* Whatever the order of polls, failures, tokens, connections and messages, nothing
\* made up is shown as live, nothing live as made up, and a device is shown once.  So
\* is an alert if the cloud answers from memory and no edge uses a number again; if it
\* answers from a database, an alert is shown once under each identifier, unless two
\* levels look alike (mergedState, applyRealtimeMessage, demoState).
THEOREM TheScreenIsHonest == Spec => []ScreenIsHonest
<1>1. ScreenInv => ScreenIsHonest
  <2> SUFFICES ASSUME ScreenInv PROVE ScreenIsHonest
    OBVIOUS
  <2>1. /\ screen \in ScreenRecord /\ AlertsOnce(database, screen.alerts) /\ Once(screen.devices)
        /\ screen.mode = "live" =>
              AllLive(screen.alerts) /\ AllLive(screen.devices) /\ AllLive(screen.vessels)
        /\ screen.mode = "demo" =>
              /\ screen.sensors = <<>>
              /\ AllDemo(screen.alerts) /\ AllDemo(screen.devices) /\ AllDemo(screen.vessels)
    BY Zenon DEF ScreenInv, Honest
  <2>2. RealtimeTypeOK
    <3>1. /\ mounts \in Seq(MountRecord) /\ Len(mounts) >= 1
          /\ sockets \in Seq(SocketRecord) /\ status \in StatusRecord
      BY DEF ScreenInv, ConnectionInv, Typed
    <3>2. Len(mounts) \in 1 .. MaxMounts
      BY <3>1, RealtimeAssumption DEF ScreenInv, Bounds
    <3>3. Len(sockets) \in 1 .. MaxSockets
      <4>1. Socket # {}
        BY <3>1 DEF ScreenInv, ConnectionInv, Linked, Mount
      <4>2. Len(sockets) \in Nat /\ Socket = 1 .. Len(sockets)
        BY <3>1 DEF Socket
      <4>3. Len(sockets) >= 1
        BY <4>1, <4>2
      <4> QED  BY <4>2, <4>3, RealtimeAssumption DEF ScreenInv, Bounds
    <3>4. status.last \in Message \cup {NoMessage}
      BY <3>1 DEF StatusRecord
    <3>5. {status.edge, status.mqtt, status.ws} \subseteq Level3
      BY <3>1 DEF StatusRecord
    <3> QED  BY <3>2, <3>3, <3>4, <3>5
             DEF RealtimeTypeOK, ScreenInv, ConnectionInv, Linked
  <2>3. TypeOK
    <3>1. screen.mode \in {"demo", "mixed", "live"} /\ screen.api \in {"idle", "online", "offline"}
      BY <2>1 DEF ScreenRecord
    <3>2. database \in BOOLEAN
      BY Zenon DEF ScreenInv, PageTyped
    <3> QED  BY <2>2, <3>1, <3>2 DEF TypeOK, ScreenInv, PageTyped, Poll
  <2>4. EachThingOnce
    <3>1. \A i, j \in DOMAIN screen.devices :
             screen.devices[i].id = screen.devices[j].id => i = j
      BY <2>1 DEF Once
    <3>2. AlertsDiffer => Differ(database)
      BY Zenon DEF AlertsDiffer, Differ
    <3>3. AlertsDiffer =>
             \A i, j \in DOMAIN screen.alerts :
                /\ screen.alerts[i].id = screen.alerts[j].id
                /\ database => Shows(screen.alerts[i]) = Shows(screen.alerts[j])
                => i = j
      BY <2>1, <3>2, Zenon DEF AlertsOnce, SameAlert
    <3> QED  BY <3>1, <3>3, Zenon DEF EachThingOnce
  <2>5. ASSUME screen.mode = "live", NEW part \in Parts, NEW item \in ToSet(screen[part])
        PROVE  LiveItem(item)
    <3>1. AllLive(screen[part])
      BY <2>1, <2>5 DEF Parts
    <3> QED  BY <2>5, <3>1 DEF AllLive, ToSet
  <2>6. ASSUME screen.mode = "demo", NEW part \in Parts, NEW item \in ToSet(screen[part])
        PROVE  ~LiveItem(item)
    <3>1. AllDemo(screen[part])
      BY <2>1, <2>6 DEF Parts
    <3> QED  BY <2>6, <3>1 DEF AllDemo, ToSet
  <2>7. screen.mode = "demo" => screen.sensors = <<>>
    BY <2>1
  <2> QED  BY <2>3, <2>4, <2>5, <2>6, <2>7 DEF ScreenIsHonest
<1> QED  BY <1>1, ScreenInvHolds, PTL

\* What a step forgets of the alerts.
LEMMA ForgetsRightly ==
    ASSUME ScreenInv, Next, NEW a \in ToSet(screen.alerts), LiveItem(a),
           ~There(a, screen'.alerts)
    PROVE  MayForget(a)
<1>1. PICK p \in DOMAIN screen.alerts : a = screen.alerts[p]
  BY DEF ToSet
<1>2. ~Item(a.id, screen'.alerts) /\ Item(a.id, screen.alerts)
  BY <1>1 DEF Item, There
<1>3. screen' # screen
  BY <1>2
<1>4. CASE Render
  <2>1. PICK m \in Message :
            screen'.alerts = IF m.type = "alert"
                             THEN UpsertAlert(screen.alerts, AlertFromApi(m))
                             ELSE screen.alerts
    BY <1>4, RenderShows
  <2>2. screen'.alerts = UpsertAlert(screen.alerts, AlertFromApi(m))
    BY <1>2, <2>1
  <2>3. AlertFromApi(m) \in AlertRecord /\ screen.alerts \in Seq(AlertRecord)
    <3>1. AlertFromApi(m) \in AlertRecord
      BY FromRow DEF Row
    <3>2. screen \in ScreenRecord
      BY Zenon DEF ScreenInv, Honest
    <3> QED  BY <3>1, <3>2 DEF ScreenRecord
  <2>4. \/ Len(UpsertAlert(screen.alerts, AlertFromApi(m))) = MaxShown
        \/ \A q \in DOMAIN screen.alerts :
              Item(screen.alerts[q].id, UpsertAlert(screen.alerts, AlertFromApi(m)))
    BY <2>3, UpsertAlertIs
  <2>5. Len(screen'.alerts) = MaxShown
    BY <1>1, <1>2, <2>2, <2>4
  <2> QED  BY <2>5 DEF MayForget
<1>5. ASSUME NEW k \in DOMAIN polls, FailPoll(k)
      PROVE  MayForget(a)
  <2>1. polls' = RemoveAt(polls, k) /\ screen'.api = "offline"
    BY <1>5, DemoIs DEF FailPoll
  <2> QED  BY <2>1 DEF MayForget, EndedWithout
<1>6. ASSUME NEW k \in DOMAIN polls, FinishPoll(k)
      PROVE  MayForget(a)
  <2>1. PICK moment \in MomentsOf(polls[k]) : ShowsAlarmsOf(screen', moment)
    BY <1>6, FinishShows DEF ScreenInv
  <2>2. CASE Len(screen'.alerts) >= MaxRows
    BY <2>2 DEF MayForget
  <2>3. CASE ~(Len(screen'.alerts) >= MaxRows)
    <3>1. ASSUME NEW j \in OfType("alert", moment[1]),
                 Shows(AlertFromApi(Traffic[j])) = Shows(a)
          PROVE  ~InRange(j, moment)
      BY <2>1, <2>3, <3>1 DEF ShowsAlarmsOf, There
    <3>2. LeftOut(a, moment)
      BY <3>1 DEF LeftOut
    <3>3. polls' = RemoveAt(polls, k)
      BY <1>6 DEF FinishPoll
    <3> QED  BY <3>2, <3>3 DEF MayForget, EndedWithout
  <2> QED  BY <2>2, <2>3
<1>7. Render \/ \E k \in DOMAIN polls : EndPoll(k)
  BY <1>3 DEF Next, Send, Tick, StartPoll, SetApiToken, RunEffectsAgain, page
<1> QED  BY <1>4, <1>5, <1>6, <1>7 DEF EndPoll

\* An alert that is on the screen leaves it, and none with its identifier takes its
\* place, only because a poll that failed is answered, or one whose answer was made
\* before the alert was stored or when it was out of the range of the routes, or
\* because the list is full, whatever else happens to the connection and to the page
\* (refresh, upsertAlert).
THEOREM AlertsAreForgottenLate == Spec => OnlyALatePollForgets
<1>1. ScreenInv /\ [Next]_vars
        => [\A a \in ToSet(screen.alerts) :
               LiveItem(a) /\ ~There(a, screen'.alerts) => MayForget(a)]_vars
  BY ForgetsRightly
<1> QED  BY <1>1, ScreenInvHolds, PTL DEF Spec, OnlyALatePollForgets
=============================================================================
