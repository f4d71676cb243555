---------------------------- MODULE RealtimeStatus ----------------------------
(* The realtime connection of the monitor: the hook useRealtimeStatus of
   src/frontend/src/services/realtime.ts.  Everything in it is a callback of the
   browser: of a socket, of one of two timers, or of React, which runs the
   effect on mounting and its cleanup before it runs it again (StrictMode, a
   reload of the module).  A run of the effect is a mount, with variables of its
   own; the status is of the component and outlives the mount. *)
EXTENDS Integers, Sequences, SequencesExt, FiniteSets

CONSTANTS
    Message,      \* what the cloud can send
    NoMessage,
    MaxMounts, MaxSockets   \* bounds of the model

ASSUME RealtimeAssumption ==
    /\ \A m \in Message : m.online \in BOOLEAN
    /\ MaxMounts \in Nat \ {0} /\ MaxSockets \in Nat \ {0}

VARIABLES
    status,       \* the state of the hook: [edge, mqtt, ws, last]
    mounts,       \* of each mount: [socket, disposed, reconnect, stale]
    sockets       \* of each socket: [mount, phase, inbox]

realtime == <<status, mounts, sockets>>

Mount   == DOMAIN mounts
Socket  == DOMAIN sockets
Current == Len(mounts)

NewSocket(m) == [mount |-> m, phase |-> "connecting", inbox |-> <<>>]
NewMount(s)  == [socket |-> s, disposed |-> FALSE, reconnect |-> FALSE, stale |-> FALSE]

RealtimeInit ==
    /\ status = [edge |-> "degraded", mqtt |-> "degraded", ws |-> "degraded",
                 last |-> NoMessage]
    /\ mounts = <<NewMount(1)>> /\ sockets = <<NewSocket(1)>>

Disposed(s) == mounts[sockets[s].mount].disposed
Phase(s, phase) == sockets' = [sockets EXCEPT ![s].phase = phase]
Closable == {"connecting", "open", "failed"}

\* React cleans up and runs the effect again: the old mount clears its timers and
\* closes its socket.
Remount ==
    LET old == mounts[Current].socket
    IN /\ Current < MaxMounts /\ Len(sockets) < MaxSockets
       /\ mounts' = Append([mounts EXCEPT ![Current] =
                              [@ EXCEPT !.disposed = TRUE, !.reconnect = FALSE,
                                        !.stale = FALSE]],
                           NewMount(Len(sockets) + 1))
       /\ sockets' = Append([sockets EXCEPT ![old].phase =
                               IF @ \in Closable THEN "closing" ELSE @],
                            NewSocket(Current + 1))
       /\ status' = [status EXCEPT !.ws = "degraded"]

\* A new socket by the reconnect timer.
ReconnectFires(m) ==
    /\ mounts[m].reconnect /\ Len(sockets) < MaxSockets
    /\ mounts' = [mounts EXCEPT ![m].reconnect = FALSE, ![m].socket = Len(sockets) + 1]
    /\ sockets' = Append(sockets, NewSocket(m))
    /\ status' = [status EXCEPT !.ws = "degraded"]

\* resetStaleTimer; the faulty variant leaves the timer as it is.
KeepsStaleTimer(m) == UNCHANGED mounts
ResetStaleTimer(m) == mounts' = [mounts EXCEPT ![m].stale = TRUE]

\* onopen
Open(s) ==
    /\ sockets[s].phase = "connecting"
    /\ Phase(s, "open")
    /\ IF Disposed(s) THEN UNCHANGED <<status, mounts>>
       ELSE /\ status' = [status EXCEPT !.ws = "online"]
            /\ mounts' = [mounts EXCEPT ![sockets[s].mount].stale = TRUE]

\* statusFromMessage
StatusFromMessage(current, m) ==
    CASE m.type \in {"alert", "alarm", "track"} ->
           [edge |-> "online", mqtt |-> "online", ws |-> "online", last |-> m]
      [] m.type \in {"status", "lwt"} ->
           [edge |-> IF m.type # "lwt" /\ m.online THEN "online" ELSE "offline",
            mqtt |-> "online", ws |-> "online", last |-> m]
      [] OTHER -> [current EXCEPT !.last = m, !.ws = "online"]

\* onmessage: the next message of an open socket.
Receive(s) ==
    /\ sockets[s].phase = "open" /\ sockets[s].inbox # <<>>
    /\ sockets' = [sockets EXCEPT ![s].inbox = Tail(@)]
    /\ IF Disposed(s) THEN UNCHANGED <<status, mounts>>
       ELSE /\ status' = StatusFromMessage(status, Head(sockets[s].inbox))
            /\ ResetStaleTimer(sockets[s].mount)

\* onerror; the browser closes the socket after it.
Fail(s) ==
    /\ sockets[s].phase \in {"connecting", "open"}
    /\ Phase(s, "failed")
    /\ status' = IF Disposed(s) THEN status ELSE [status EXCEPT !.ws = "degraded"]
    /\ UNCHANGED mounts

\* onclose.  The faulty variants forget that the mount was disposed of, and leave
\* a socket that failed to onerror.
AlwaysReconnects(s) == FALSE
LeftToOnError(s) == Disposed(s) \/ sockets[s].phase = "failed"
Ignored(s) == Disposed(s)

Close(s) ==
    /\ Phase(s, "closed")
    /\ IF Ignored(s) THEN UNCHANGED <<status, mounts>>
       ELSE /\ status' = [status EXCEPT !.edge = "degraded", !.mqtt = "degraded",
                                        !.ws = "offline"]
            /\ mounts' = [mounts EXCEPT ![sockets[s].mount].stale = FALSE,
                                        ![sockets[s].mount].reconnect = TRUE]

\* A socket that failed or was closed by the page ends; the cloud or the network
\* may end an open one.
CloseEnds(s)  == sockets[s].phase \in {"failed", "closing"} /\ Close(s)
CloseBreaks(s) == sockets[s].phase = "open" /\ Close(s)

\* markStale
StaleFires(m) ==
    /\ mounts[m].stale
    /\ mounts' = [mounts EXCEPT ![m].stale = FALSE]
    /\ status' = IF status.ws = "online"
                 THEN [status EXCEPT !.edge = "degraded", !.mqtt = "degraded"]
                 ELSE status
    /\ UNCHANGED sockets

\* The last socket of the model does not fail, so that reconnecting can succeed.
Callback(s) ==
    \/ Open(s) \/ Receive(s) \/ CloseEnds(s)
    \/ Len(sockets) < MaxSockets /\ (Fail(s) \/ CloseBreaks(s))

\* The cloud accepts connections, the browser reports what happens to a socket,
\* and timers fire.
RealtimeFairness ==
    /\ \A m \in 1 .. MaxMounts :
          /\ WF_realtime(m \in Mount /\ ReconnectFires(m))
          /\ WF_realtime(m \in Mount /\ StaleFires(m))
    /\ \A s \in 1 .. MaxSockets :
          /\ WF_realtime(s \in Socket /\ Open(s))
          /\ WF_realtime(s \in Socket /\ CloseEnds(s))

-----------------------------------------------------------------------------
Level3 == {"online", "degraded", "offline"}

RealtimeTypeOK ==
    /\ {status.edge, status.mqtt, status.ws} \subseteq Level3
    /\ status.last \in Message \cup {NoMessage}
    /\ Len(mounts) \in 1 .. MaxMounts /\ Len(sockets) \in 1 .. MaxSockets
    /\ \A m \in Mount : mounts[m].socket \in Socket
    /\ \A s \in Socket : sockets[s].mount \in Mount

\* However mounts, timers and closing sockets interleave, the page has one
\* connection: only the mount in use has timers, a socket that is not closed is
\* its last one or was told to close, and a reconnect timer runs only when its
\* last socket is closed.  While that connection is open an edge or broker that
\* counts as online is watched: the stale timer runs, so that silence will be
\* noticed.
OneConnection ==
    /\ \A m \in Mount :
          mounts[m].disposed => ~mounts[m].stale /\ ~mounts[m].reconnect
    /\ \A s \in Socket :
          sockets[s].phase \in Closable => s = mounts[Current].socket
    /\ mounts[Current].reconnect => sockets[mounts[Current].socket].phase = "closed"
    /\ /\ status.edge = "online" \/ status.mqtt = "online"
       /\ sockets[mounts[Current].socket].phase = "open"
       => mounts[Current].stale

\* When nothing more is sent, neither the edge nor the broker stays online, also
\* after errors and reconnects.
SilenceIsNoticed == <>[](status.edge # "online" /\ status.mqtt # "online")

\* A broken connection is made again, from any mount.
ConnectionComesBack == []<>(status.ws = "online")
===============================================================================
