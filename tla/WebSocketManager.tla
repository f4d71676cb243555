-------------------------- MODULE WebSocketManager --------------------------
(***************************************************************************)
(* The WebSocket hub of the cloud (cloud/app/websocket/manager.py) and the *)
(* endpoint that uses it (websocket_realtime in cloud/app/api/routes.py).  *)
(*                                                                         *)
(* Everything runs on one asyncio loop: a step is what a coroutine does    *)
(* between two awaits.  Connecting waits for the manager's lock and, with  *)
(* the lock, for the handshake; a broadcast waits after each send; what is *)
(* going on elsewhere in between is what this module is about.             *)
(***************************************************************************)
EXTENDS Naturals, Sequences, SequencesExt

CONSTANTS Socket,         \* connections: a client that returns has a new one
          Message,        \* what is broadcast, each once
          Nobody,         \* no socket
          MaxConnections  \* max_connections

ASSUME SocketAssumption == Nobody \notin Socket
ASSUME CapAssumption == MaxConnections \in Nat

VARIABLES
  handler,   \* handler[s]: where the endpoint's coroutine for s is
  waiting,   \* the coroutines that wait for the lock, first come first served
  holder,    \* the socket whose coroutine has the lock
  active,    \* active_connections
  gone,      \* sockets whose client has left
  history,   \* broadcast_history
  todo,      \* todo[m]: the sockets m is still to be sent to
  got,       \* got[s]: what the client at s has received
  audience,  \* history: audience[m]: who was connected when m was broadcast
  front      \* history: front[m]: who of them had been connected longest

connecting == <<handler, waiting, holder>>
sending == <<history, todo, got, audience, front>>
vars == <<connecting, active, gone, sending>>

Place == {"new", "waiting", "accepting", "open", "refused", "closed"}

Goto(s, there) == handler' = [handler EXCEPT ![s] = there]

Init == /\ handler = [s \in Socket |-> "new"]
        /\ waiting = <<>>
        /\ holder = Nobody
        /\ active = <<>>
        /\ gone = {}
        /\ history = <<>>
        /\ todo = [m \in Message |-> <<>>]
        /\ got = [s \in Socket |-> <<>>]
        /\ audience = [m \in Message |-> {}]
        /\ front = [m \in Message |-> Nobody]

-----------------------------------------------------------------------------
(* connect *)

\* The endpoint asks for the lock: an asyncio.Lock serves in order.
Connect(s) == /\ handler[s] = "new"
              /\ Goto(s, "waiting")
              /\ waiting' = Append(waiting, s)
              /\ UNCHANGED <<holder, active, gone, sending>>

Full == Len(active) >= MaxConnections

NextInLine(s) == holder = Nobody /\ waiting # <<>> /\ Head(waiting) = s

Refuse(s) == /\ NextInLine(s)
             /\ Full
             /\ Goto(s, "refused")
             /\ waiting' = Tail(waiting)
             /\ UNCHANGED <<holder, active, gone, sending>>

\* With the lock, start the handshake.  The faulty variant gives the lock back
\* before it.
LockWhileAcceptingDropped(s) == Nobody
LockWhileAccepting(s) == s

StartAccept(s) == /\ NextInLine(s)
                  /\ ~Full
                  /\ Goto(s, "accepting")
                  /\ waiting' = Tail(waiting)
                  /\ holder' = LockWhileAccepting(s)
                  /\ UNCHANGED <<active, gone, sending>>

Accepted(s) == /\ handler[s] = "accepting"
               /\ Goto(s, "open")
               /\ active' = Append(active, s)
               /\ holder' = Nobody
               /\ UNCHANGED <<waiting, gone, sending>>

\* The handshake raises when the client has left.  The faulty variant keeps the
\* lock.
AcceptRaisesInLock(s) == /\ handler[s] = "accepting"
                         /\ s \in gone
                         /\ Goto(s, "closed")
                         /\ UNCHANGED <<waiting, holder, active, gone, sending>>
AcceptRaises(s) == /\ handler[s] = "accepting"
                   /\ s \in gone
                   /\ Goto(s, "closed")
                   /\ holder' = Nobody
                   /\ UNCHANGED <<waiting, active, gone, sending>>

-----------------------------------------------------------------------------
\* The client leaves; the cloud learns of it later.
Leave(s) == /\ handler[s] # "new"
            /\ s \notin gone
            /\ gone' = gone \cup {s}
            /\ UNCHANGED <<connecting, active, sending>>

\* disconnect: list.remove takes out the first occurrence.  In the faulty
\* variant s stays in.
FirstPlaceOf(s) == CHOOSE i \in DOMAIN active :
                     active[i] = s /\ \A j \in 1..(i - 1) : active[j] # s
KeptIn(s) == active
RemovedFrom(s) == IF s \in ToSet(active) THEN RemoveAt(active, FirstPlaceOf(s))
                  ELSE active

\* receive_text raises and the endpoint's "finally" disconnects.
Disconnect(s) == /\ handler[s] = "open"
                 /\ s \in gone
                 /\ Goto(s, "closed")
                 /\ active' = RemovedFrom(s)
                 /\ UNCHANGED <<waiting, holder, gone, sending>>

-----------------------------------------------------------------------------
(* broadcast *)

Unfinished == {m \in Message : todo[m] # <<>>}

\* Sending m to the first of the sockets.  A send to a client that has left is
\* ignored or raises, and if it raises the sockets after it get nothing.
SendFirst(m, sockets) ==
  LET s == Head(sockets) IN
  \/ /\ s \notin gone
     /\ got' = [got EXCEPT ![s] = Append(@, m)]
     /\ todo' = [todo EXCEPT ![m] = Tail(sockets)]
  \/ /\ s \in gone
     /\ \/ todo' = [todo EXCEPT ![m] = Tail(sockets)]
        \/ todo' = [todo EXCEPT ![m] = <<>>]
     /\ UNCHANGED got

\* The copy of active_connections that the broadcast works through.  The faulty
\* variant starts with the newest connection.
NewestFirst == Reverse(active)
Recipients == active

\* Up to the first send nothing else runs.
Broadcast(m) == /\ m \notin ToSet(history)
                /\ history' = Append(history, m)
                /\ audience' = [audience EXCEPT ![m] = ToSet(active)]
                /\ \/ /\ active = <<>>
                      /\ UNCHANGED <<todo, got, front>>
                   \/ /\ active # <<>>
                      /\ front' = [front EXCEPT ![m] = Head(active)]
                      /\ SendFirst(m, Recipients)
                /\ UNCHANGED <<connecting, active, gone>>

\* The send returned: go on to the next socket.
SendNext(m) == /\ todo[m] # <<>>
               /\ SendFirst(m, todo[m])
               /\ UNCHANGED <<connecting, active, gone, history, audience, front>>

-----------------------------------------------------------------------------
Endpoint(s) == \/ Refuse(s) \/ StartAccept(s) \/ Accepted(s) \/ AcceptRaises(s)
               \/ Disconnect(s)

Next == \/ \E s \in Socket : Connect(s) \/ Leave(s) \/ Endpoint(s)
        \/ \E m \in Message : Broadcast(m) \/ SendNext(m)

Spec == Init /\ [][Next]_vars

\* The loop resumes every coroutine whose await has completed; handshakes and
\* sends complete.
FairSpec == /\ Spec
            /\ \A s \in Socket : WF_vars(Endpoint(s))
            /\ \A m \in Message : WF_vars(SendNext(m))

-----------------------------------------------------------------------------
TypeOK == /\ handler \in [Socket -> Place]
          /\ waiting \in Seq(Socket)
          /\ holder \in Socket \cup {Nobody}
          /\ active \in Seq(Socket)
          /\ gone \in SUBSET Socket
          /\ history \in Seq(Message)
          /\ todo \in [Message -> Seq(Socket)]
          /\ got \in [Socket -> Seq(Message)]
          /\ audience \in [Message -> SUBSET Socket]
          /\ front \in [Message -> Socket \cup {Nobody}]

\* "enforces WEBSOCKET_MAX_CONNECTIONS atomically at connect time"
\* (README.md:45): the cap holds although a handshake suspends between the
\* check and the registration.
CapIsEnforced == Len(active) <= MaxConnections

\* The registered sockets are those whose endpoint is in its receive loop, each
\* registered once: none is forgotten in the list when its endpoint ends, and
\* none is served without being in it.
RegisteredAreOpen == /\ ToSet(active) = {s \in Socket : handler[s] = "open"}
                     /\ IsInjective(active)

\* A client receives only messages broadcast while it was registered, and each
\* at most once, however broadcasts overlap.
ReceivedOnce == \A s \in Socket : /\ IsInjective(got[s])
                                  /\ \A m \in ToSet(got[s]) : s \in audience[m]

\* The client connected longest when a message is broadcast receives it before
\* every later message, although broadcasts overlap (to the clients after it,
\* a later broadcast may overtake an earlier one).
LongestConnectedInOrder ==
  \A s \in Socket : \A i, j \in DOMAIN got[s] : \A k, l \in DOMAIN history :
    /\ k < l /\ front[history[k]] = s
    /\ got[s][i] = history[k] /\ got[s][j] = history[l]
    => i < j

\* What overlapping broadcasts give: nothing twice or uninvited, the longest
\* connected client in order, and whoever was registered when a message was
\* broadcast has it when the broadcast is over, unless some client of that
\* audience left: one that leaves may cost the others the message.
MissedOnlyIfSomeoneLeft ==
  /\ ReceivedOnce
  /\ LongestConnectedInOrder
  /\ \A m \in ToSet(history) \ Unfinished : \A s \in audience[m] :
       m \in ToSet(got[s]) \/ audience[m] \cap gone # {}

\* Every connection attempt is answered: served, refused or ended.  When a client
\* leaves, at whatever stage, its endpoint ends (and so, by RegisteredAreOpen,
\* is off the list for good).
ConnectIsAnswered ==
  \A s \in Socket :
    /\ handler[s] = "waiting" ~> handler[s] \notin {"waiting", "accepting"}
    /\ s \in gone ~> handler[s] \in {"refused", "closed"}
=============================================================================
