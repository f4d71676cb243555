------------------------- MODULE ConsumerLifecycle -------------------------
(***************************************************************************)
(* The threads of EdgeMqttConsumer (cloud/app/mqtt/consumer.py) and their  *)
(* start and stop by the application's lifespan (cloud/app/main.py).       *)
(*                                                                         *)
(* Three kinds of thread meet.  The main thread runs the event loop and,   *)
(* in it, start and stop: while it is in stop, no coroutine runs.  The     *)
(* MQTT client's thread runs the callbacks one at a time and hands         *)
(* messages to the loop.  A reconnecting thread is started by the          *)
(* on_disconnect callback.  They share the stop event, the attribute       *)
(* event_loop, which is read three times for one message, and the client.  *)
(***************************************************************************)
EXTENDS Naturals, FiniteSets

CONSTANTS Thread,        \* reconnecting threads; a dead one's name is reused
          NoThread,      \* _reconnect_thread before the first one
          AutoReconnect, \* auto_reconnect
          MinDelay,      \* reconnect_min_delay_seconds
          MaxDelay,      \* reconnect_max_delay_seconds
          MaxAttempts,   \* reconnect_max_attempts
          NoLimit,       \* MaxAttempts when it is None
          MaxCounted,    \* bound: failed attempts counted when there is no limit
          MaxPending     \* bound: coroutines waiting in the event loop

ASSUME ThreadAssumption == NoThread \notin Thread
ASSUME DelayAssumption == MinDelay \in Nat /\ MaxDelay \in Nat
ASSUME AttemptAssumption == MaxAttempts = NoLimit \/ MaxAttempts \in Nat
ASSUME LifecycleBoundAssumption == MaxCounted \in Nat /\ MaxPending \in Nat

VARIABLES
  main,       \* where the main thread is
  client,     \* where the MQTT client's thread is
  link,       \* the connection: "down", "up", or "lost" and not yet reported
  subscribed, \* the broker has this connection's subscriptions
  stopEvent,  \* _stop_event is set
  eventLoop,  \* event_loop is not None
  scheduled,  \* how many coroutines the event loop has not run
  pc,         \* pc[t]: where reconnecting thread t is
  current,    \* _reconnect_thread
  delay,      \* delay[t]: seconds t waits after the next failure
  attempts,   \* attempts[t]: how often t failed
  overlooked, \* history: this loss found a thread that had just succeeded
  gaveUp      \* history: the last thread ended at its limit

mainVars == <<main, stopEvent, eventLoop>>
linkVars == <<link, subscribed>>
threadVars == <<pc, current, delay, attempts>>
lossHistory == <<overlooked, gaveUp>>
lifecycleVars == <<mainVars, client, linkVars, scheduled, threadVars, lossHistory>>

Stopping == {"forgetLoop", "loopStop", "disconnect", "join"}
MainLocation == {"outside", "connecting", "serving"} \cup Stopping
ClientLocation == {"off", "idle", "schedule", "submit", "running", "handOver",
                   "inPlace"}
ThreadLocation == {"dead", "check", "attempt", "wait", "subscribe", "ending"}

LifecycleInit == /\ main = "outside" /\ client = "off"
                 /\ link = "down" /\ subscribed = FALSE
                 /\ stopEvent = FALSE /\ eventLoop = FALSE
                 /\ scheduled = 0
                 /\ pc = [t \in Thread |-> "dead"] /\ current = NoThread
                 /\ delay = [t \in Thread |-> MinDelay]
                 /\ attempts = [t \in Thread |-> 0]
                 /\ overlooked = FALSE /\ gaveUp = FALSE

-----------------------------------------------------------------------------
(* The main thread: the lifespan's entry, the event loop, and its exit. *)

\* The lifespan sets event_loop before it calls start.
Start == /\ main = "outside"
         /\ main' = "connecting"
         /\ eventLoop' = TRUE
         /\ stopEvent' = FALSE
         /\ UNCHANGED <<client, linkVars, scheduled, threadVars, lossHistory>>

\* connect and loop_start.  An existing connection is replaced.
Connect == /\ main = "connecting"
           /\ main' = "serving"
           /\ link' = "up" /\ subscribed' = FALSE
           /\ client' = "idle"
           /\ overlooked' = FALSE /\ gaveUp' = FALSE
           /\ UNCHANGED <<stopEvent, eventLoop, scheduled, threadVars>>

\* connect raises: the application does not come up.
ConnectRaises == /\ main = "connecting"
                 /\ main' = "outside"
                 /\ UNCHANGED <<stopEvent, eventLoop, client, linkVars, scheduled,
                                threadVars, lossHistory>>

\* The event loop runs a coroutine; it cannot while start or stop runs.
RunNext == /\ main \in {"serving", "outside"}
           /\ scheduled > 0
           /\ scheduled' = scheduled - 1
           /\ UNCHANGED <<mainVars, client, linkVars, threadVars, lossHistory>>

\* stop: set the stop event, which wakes a waiting thread for good (even if
\* the event is cleared again before the thread goes on), ...
StopConsumer == /\ main = "serving"
                /\ main' = "forgetLoop"
                /\ stopEvent' = TRUE
                /\ pc' = [t \in Thread |-> IF pc[t] = "wait" THEN "ending" ELSE pc[t]]
                /\ UNCHANGED <<eventLoop, client, linkVars, scheduled, current, delay,
                               attempts, lossHistory>>

\* ... forget the event loop, ...
ForgetLoop == /\ main = "forgetLoop"
              /\ main' = "loopStop"
              /\ eventLoop' = FALSE
              /\ UNCHANGED <<stopEvent, client, linkVars, scheduled, threadVars,
                             lossHistory>>

\* ... wait for the client's thread to leave its callback and end, ...  The
\* faulty variant tells it to end and goes on.
NoWaitForCallback == UNCHANGED client
CallbackIsOver == client = "idle" /\ client' = "off"
LoopStop == /\ main = "loopStop"
            /\ CallbackIsOver
            /\ main' = "disconnect"
            /\ UNCHANGED <<stopEvent, eventLoop, linkVars, scheduled, threadVars,
                           lossHistory>>

\* ... disconnect, ...
Disconnect == /\ main = "disconnect"
              /\ main' = "join"
              /\ link' = "down" /\ subscribed' = FALSE
              /\ UNCHANGED <<stopEvent, eventLoop, client, scheduled, threadVars,
                             lossHistory>>

Alive(t) == pc[t] # "dead"

\* ... and wait for the reconnecting thread, for one second at most.
Join == /\ main = "join"
        /\ main' = "outside"
        /\ UNCHANGED <<stopEvent, eventLoop, client, linkVars, scheduled, threadVars,
                       lossHistory>>

MainStep == \/ RunNext \/ ForgetLoop \/ LoopStop \/ Disconnect \/ Join

-----------------------------------------------------------------------------
(* The MQTT client's thread: callbacks, one at a time. *)

\* _on_connect: subscribe, if the broker accepted.  The faulty variant leaves
\* subscribing to the reconnecting thread.
LeavesSubscribing == UNCHANGED subscribed
Subscribe == subscribed' = TRUE
OnConnect == /\ client = "idle"
             /\ link = "up" /\ ~subscribed
             /\ Subscribe
             /\ UNCHANGED <<mainVars, client, link, scheduled, threadVars, lossHistory>>

\* The broker refuses, and closes the connection.
OnConnectRefused == /\ client = "idle"
                    /\ link = "up" /\ ~subscribed
                    /\ link' = "lost"
                    /\ UNCHANGED <<mainVars, client, subscribed, scheduled, threadVars,
                                   lossHistory>>

\* _on_disconnect, with an error: reconnect if the configuration says so.
OnDisconnect == /\ client = "idle"
                /\ link = "lost"
                /\ link' = "down"
                /\ client' = IF AutoReconnect THEN "schedule" ELSE "idle"
                /\ UNCHANGED <<mainVars, subscribed, scheduled, threadVars, lossHistory>>

\* schedule_reconnect, stopped meanwhile
ScheduleStopped == /\ client = "schedule"
                   /\ stopEvent
                   /\ client' = "idle"
                   /\ UNCHANGED <<mainVars, linkVars, scheduled, threadVars, lossHistory>>

\* Faulty variants: do not look for a thread; take a dead thread for alive.
NobodyReconnects == FALSE
SomeoneEverReconnected == current # NoThread
SomeoneReconnects == current # NoThread /\ Alive(current)

\* schedule_reconnect: leave it to the thread there is, even if that one has
\* made its last attempt and only has to end, ...
LeaveToThread == /\ client = "schedule"
                 /\ ~stopEvent
                 /\ SomeoneReconnects
                 /\ client' = "idle"
                 /\ overlooked' = (pc[current] \in {"subscribe", "ending"})
                 /\ UNCHANGED <<mainVars, linkVars, scheduled, threadVars, gaveUp>>

\* ... or start one.
StartThread(t) == /\ client = "schedule"
                  /\ ~stopEvent
                  /\ ~SomeoneReconnects
                  /\ ~Alive(t)
                  /\ client' = "idle"
                  /\ current' = t
                  /\ pc' = [pc EXCEPT ![t] = "check"]
                  /\ overlooked' = FALSE /\ gaveUp' = FALSE
                  /\ UNCHANGED <<mainVars, linkVars, scheduled, delay, attempts>>

\* _on_message and _submit_event: after stop, nothing.
MessageArrives == /\ client = "idle"
                  /\ link = "up" /\ subscribed
                  /\ scheduled < MaxPending
                  /\ client' = IF stopEvent THEN "idle" ELSE "submit"
                  /\ UNCHANGED <<mainVars, linkVars, scheduled, threadVars, lossHistory>>

\* The first reading of event_loop: without one, asyncio.run runs the
\* coroutine here and now.
FirstRead == /\ client = "submit"
             /\ client' = IF eventLoop THEN "running" ELSE "inPlace"
             /\ UNCHANGED <<mainVars, linkVars, scheduled, threadVars, lossHistory>>

\* The second reading, for is_running: None raises, and the message is gone.
SecondRead == /\ client = "running"
              /\ client' = IF eventLoop THEN "handOver" ELSE "idle"
              /\ UNCHANGED <<mainVars, linkVars, scheduled, threadVars, lossHistory>>

\* The third, for run_coroutine_threadsafe; None raises.
HandOver == /\ client = "handOver"
            /\ client' = "idle"
            /\ scheduled' = IF eventLoop THEN scheduled + 1 ELSE scheduled
            /\ UNCHANGED <<mainVars, linkVars, threadVars, lossHistory>>

RunInPlace == /\ client = "inPlace"
              /\ client' = "idle"
              /\ UNCHANGED <<mainVars, linkVars, scheduled, threadVars, lossHistory>>

ClientStep == \/ OnConnect \/ OnDisconnect
              \/ ScheduleStopped \/ LeaveToThread \/ \E t \in Thread : StartThread(t)
              \/ FirstRead \/ SecondRead \/ HandOver \/ RunInPlace

-----------------------------------------------------------------------------
(* reconnect_with_backoff, in the reconnecting thread *)

Go(t, there) == pc' = [pc EXCEPT ![t] = there]

\* The stop event, as the loop's condition and the wait see it; the faulty
\* variant does not.
NotSeen == FALSE
StopSeen == stopEvent

MayAttempt(t) == MaxAttempts = NoLimit \/ attempts[t] < MaxAttempts

Check(t) == /\ pc[t] = "check"
            /\ Go(t, IF ~StopSeen /\ MayAttempt(t) THEN "attempt" ELSE "ending")
            /\ gaveUp' = (gaveUp \/ ~MayAttempt(t))
            /\ UNCHANGED <<mainVars, client, linkVars, scheduled, current, delay,
                           attempts, overlooked>>

Counted(n) == IF MaxAttempts = NoLimit /\ n = MaxCounted THEN n ELSE n + 1

\* The handler of any exception: at the limit, reconnect_with_backoff raises.
Fail(t) ==
  /\ attempts' = [attempts EXCEPT ![t] = Counted(@)]
  /\ LET atLimit == MaxAttempts # NoLimit /\ attempts[t] + 1 >= MaxAttempts IN
     /\ Go(t, IF atLimit THEN "ending" ELSE "wait")
     /\ gaveUp' = (gaveUp \/ atLimit)
  /\ UNCHANGED <<mainVars, client, scheduled, current, delay, overlooked>>

\* client.reconnect closes the connection there is, if any, and makes another,
\* ...
Reconnect(t) == /\ pc[t] = "attempt"
                /\ Go(t, "subscribe")
                /\ link' = "up" /\ subscribed' = FALSE
                /\ UNCHANGED <<mainVars, client, scheduled, current, delay, attempts,
                               lossHistory>>

\* ... or raises.
ReconnectRaises(t) == /\ pc[t] = "attempt"
                      /\ link' = IF link = "up" THEN "lost" ELSE link
                      /\ subscribed' = FALSE
                      /\ Fail(t)

NextDelay(d) == IF d * 2 < MaxDelay THEN d * 2 ELSE MaxDelay

\* _wait_before_reconnect: the delay is over, or stop was called.
WaitIsOver(t) == /\ pc[t] = "wait"
                 /\ ~StopSeen
                 /\ Go(t, "check")
                 /\ delay' = [delay EXCEPT ![t] = NextDelay(@)]
                 /\ UNCHANGED <<mainVars, client, linkVars, scheduled, current,
                                attempts, lossHistory>>
WaitIsStopped(t) == /\ pc[t] = "wait"
                    /\ StopSeen
                    /\ Go(t, "ending")
                    /\ UNCHANGED <<mainVars, client, linkVars, scheduled, current,
                                   delay, attempts, lossHistory>>

SubscribeAgain(t) == /\ pc[t] = "subscribe"
                     /\ Go(t, "ending")
                     /\ subscribed' = (link = "up")
                     /\ UNCHANGED <<mainVars, client, link, scheduled, current, delay,
                                    attempts, lossHistory>>

\* subscribe raises, which counts as a failed attempt.
SubscribeRaises(t) == /\ pc[t] = "subscribe"
                      /\ UNCHANGED linkVars
                      /\ Fail(t)

\* The thread's function has returned; until the thread is gone it is alive.
EndThread(t) == /\ pc[t] = "ending"
                /\ Go(t, "dead")
                /\ delay' = [delay EXCEPT ![t] = MinDelay]
                /\ attempts' = [attempts EXCEPT ![t] = 0]
                /\ UNCHANGED <<mainVars, client, linkVars, scheduled, current, lossHistory>>

\* The steps of a thread that end of themselves; reconnect may hang.
ThreadStep(t) == \/ Check(t) \/ WaitIsOver(t) \/ WaitIsStopped(t)
                 \/ SubscribeAgain(t) \/ EndThread(t)

-----------------------------------------------------------------------------
\* The network or the broker breaks the connection.
Break == /\ link = "up"
         /\ link' = "lost" /\ subscribed' = FALSE
         /\ UNCHANGED <<mainVars, client, scheduled, threadVars, lossHistory>>

LifecycleNext == \/ Start \/ Connect \/ ConnectRaises \/ StopConsumer \/ MainStep
                 \/ ClientStep \/ OnConnectRefused \/ MessageArrives
                 \/ \E t \in Thread : \/ ThreadStep(t)
                                      \/ Reconnect(t) \/ ReconnectRaises(t)
                                      \/ SubscribeRaises(t)
                 \/ Break

LifecycleSpec == LifecycleInit /\ [][LifecycleNext]_lifecycleVars

\* Threads that can go on do; nobody has to connect, to disconnect, to send a
\* message or to return from reconnect.
LifecycleFairSpec ==
  LifecycleSpec /\ WF_lifecycleVars(MainStep) /\ WF_lifecycleVars(ClientStep)
                          /\ \A t \in Thread : WF_lifecycleVars(ThreadStep(t))
-----------------------------------------------------------------------------
LifecycleTypeOK == /\ main \in MainLocation /\ client \in ClientLocation
                   /\ link \in {"down", "up", "lost"} /\ subscribed \in BOOLEAN
                   /\ stopEvent \in BOOLEAN /\ eventLoop \in BOOLEAN
                   /\ scheduled \in 0..MaxPending
                   /\ pc \in [Thread -> ThreadLocation]
                   /\ current \in Thread \cup {NoThread}
                   /\ delay \in [Thread -> Nat] /\ attempts \in [Thread -> Nat]
                   /\ overlooked \in BOOLEAN /\ gaveUp \in BOOLEAN

\* However often the connection breaks, and however start and stop interleave
\* with it, at most one thread reconnects (schedule_reconnect).
OneReconnectThread == \A t, u \in Thread : Alive(t) /\ Alive(u) => t = u

\* A message is handled outside the event loop only while the loop stands
\* still in stop: no two threads check and change the duplicate window, which no
\* lock protects, at once, however a message meets the steps of stop.  (The routes'
\* threads read the list of alerts at any time: see CloudConsumer.)
HandledInOneThread == client = "inPlace" => main = "loopStop"

\* The thread will attempt to connect, or has stopped only for the limit.
Working(t) == pc[t] \in {"check", "attempt", "wait"}

\* A reported loss of the connection is attended to: a thread reconnects, or
\* it has given up at the limit of attempts, or the loss came while the thread
\* that had just reconnected was still ending, so that nobody was started.
DisconnectIsAttended ==
  AutoReconnect /\ main = "serving" /\ link = "down" /\ client # "schedule" =>
    (\E t \in Thread : Working(t)) \/ gaveUp \/ overlooked

\* stop returns, even if a thread hangs in reconnect, and no thread goes on
\* attempting after it: unless one call of reconnect hangs for ever, there is no
\* thread left or a new start, again and again.
StopReturns         == main \in Stopping ~> main = "outside"
ThreadsEndAfterStop ==
  /\ StopReturns
  /\ \/ []<>(~stopEvent \/ \A t \in Thread : ~Alive(t))
     \/ <>[](\E t \in Thread : pc[t] = "attempt")

\* A connection, first or renewed, gets the subscriptions, unless it breaks or
\* the consumer is stopped.
ConnectionGetsSubscribed ==
  main = "serving" /\ link = "up" ~> subscribed \/ link # "up" \/ main # "serving"
=============================================================================
