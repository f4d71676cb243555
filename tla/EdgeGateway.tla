---------------------------- MODULE EdgeGateway ----------------------------
(***************************************************************************)
(* How an alarm event leaves the edge: EdgeProcessor numbers it            *)
(* (edge/edge_processor_v2.py), MqttGateway publishes or caches it         *)
(* (edge/mqtt_gateway.py), and the events cached in OfflineEventCache are  *)
(* flushed when the gateway connects (edge/cache/file_cache.py, whose      *)
(* operations are atomic here: CacheLock says why).                        *)
(*                                                                         *)
(* One thread runs all of it.  What happens between two of its steps is a  *)
(* crash of the program, after which a new run starts with the cache file  *)
(* of the old one and nothing else.  The MQTT client is external: a        *)
(* publish call is taken (rc 0), or refused (rc # 0 or an exception), and  *)
(* a refused event may have reached the broker all the same.               *)
(*                                                                         *)
(* An event has its sequence number and the wall clock's reading for its   *)
(* frame: the alarms of a frame share it, and the clock may be set back,   *)
(* so every event may carry any reading.  Which run of the program made    *)
(* it is not in the event: the model keeps it to tell events apart.  One   *)
(* device: keys are sequence numbers.                                      *)
(***************************************************************************)
EXTENDS Naturals, Sequences, FiniteSets

CONSTANTS Time,            \* readings of the wall clock
          MaxEvents,       \* bound: events made in a behaviour
          MaxCrashes,      \* bound: crashes
          MaxDoubts,       \* bound: refused publishes that reached the broker
          MaxTimeouts,     \* bound: cache operations that raise TimeoutError
          BackoffInitial, BackoffMax

ASSUME TimeAssumption == Time \subseteq Nat
ASSUME BoundsAssumption ==
  /\ MaxEvents \in Nat /\ MaxCrashes \in Nat
  /\ MaxDoubts \in Nat /\ MaxTimeouts \in Nat
ASSUME BackoffAssumption ==
  /\ BackoffInitial \in Nat \ {0} /\ BackoffMax \in Nat
  /\ BackoffInitial <= BackoffMax

VARIABLES
  made,       \* events made so far
  seq,        \* EdgeProcessor._seq
  pc,         \* where the thread is
  held,       \* the refused event publish_event is about to cache, as a set
  connected,  \* MqttGateway.connected
  backoff,    \* MqttGateway._backoff_seconds
  sentKeys,   \* MqttGateway._sent_keys
  connecting, \* flush_cache was called by connect
  queue,      \* events flush_cache has read and not yet looked at
  flushed,    \* flush_cache's list of sent events
  stored,     \* the events in the cache file
  taken,      \* history: events the client took (rc 0)
  broker,     \* history: what reached the broker, in order
  accepted,   \* history: events publish_event returned for
  doubted,    \* history: events refused although they reached the broker
  leftOver,   \* history: events a flush that ended early left in the cache
  interrupted,\* history: events a crash left in the cache although taken
  crashes, timeouts

processor == <<made, seq>>
gateway == <<connected, backoff, sentKeys>>
flush == <<connecting, queue, flushed>>
history == <<taken, broker, accepted, doubted, leftOver, interrupted>>
vars == <<processor, pc, held, gateway, flush, stored, history, crashes,
          timeouts>>

Event == [run : Nat, seq : Nat, ts : Time]

KeysOf(events) == {e.seq : e \in events}

\* sort(key=(timestamp, seq)); cached events differ in seq.  The faulty variant
\* sorts by the timestamp alone, so that any event of a frame may come first.
SortsBefore(e, f) == e.ts < f.ts \/ (e.ts = f.ts /\ e.seq < f.seq)
IsOldest(e, events) == \A f \in events : e.ts <= f.ts
IsFirst(e, events) == \A f \in events \ {e} : SortsBefore(e, f)

NoFlush == /\ connecting' = FALSE
           /\ queue' = {}
           /\ flushed' = {}

Init == /\ made = 0 /\ seq = 0
        /\ pc = "idle"
        /\ held = {}
        /\ connected = FALSE /\ backoff = BackoffInitial /\ sentKeys = {}
        /\ connecting = FALSE /\ queue = {} /\ flushed = {}
        /\ stored = {}
        /\ taken = {} /\ broker = <<>> /\ accepted = {} /\ doubted = {}
        /\ leftOver = {} /\ interrupted = {}
        /\ crashes = 0 /\ timeouts = 0

-----------------------------------------------------------------------------
(* The MQTT client (external) *)

\* publish returns rc 0; _publish_now notes the key.  The faulty variant
\* forgets to.
ClientTakesUnnoted(e) == /\ taken' = taken \cup {e}
                         /\ broker' = Append(broker, e)
                         /\ UNCHANGED <<sentKeys, doubted>>
ClientTakes(e) == /\ taken' = taken \cup {e}
                  /\ broker' = Append(broker, e)
                  /\ sentKeys' = sentKeys \cup {e.seq}
                  /\ UNCHANGED doubted

\* publish fails: the event did not reach the broker, or did so unnoticed.
ClientRefuses(e) == /\ \/ UNCHANGED <<broker, doubted>>
                       \/ /\ Cardinality(doubted) < MaxDoubts
                          /\ broker' = Append(broker, e)
                          /\ doubted' = doubted \cup {e}
                    /\ UNCHANGED <<taken, sentKeys>>

-----------------------------------------------------------------------------
(* publish_event *)

\* The event process_frame hands to the publisher, numbered by
\* _make_alarm_event, for a frame read at time t.
NextEvent(t) == [run |-> crashes, seq |-> seq, ts |-> t]

MakeEvent == /\ pc = "idle"
             /\ made < MaxEvents
             /\ made' = made + 1
             /\ seq' = seq + 1

\* OfflineEventCache.append drops an event whose key is in the file.
StoredWith(e) == IF e.seq \in KeysOf(stored) THEN stored ELSE stored \cup {e}

\* A cache operation may give up waiting for the lock file.
CacheTimesOut == /\ timeouts < MaxTimeouts
                 /\ timeouts' = timeouts + 1

PublishOffline ==
  /\ MakeEvent
  /\ ~connected
  /\ \/ \E t \in Time : /\ stored' = StoredWith(NextEvent(t))
                        /\ accepted' = accepted \cup {NextEvent(t)}
        /\ UNCHANGED timeouts
     \/ /\ CacheTimesOut
        /\ UNCHANGED <<stored, accepted>>
  /\ UNCHANGED <<pc, held, gateway, flush, taken, broker, doubted, leftOver,
                 interrupted, crashes>>

PublishOnline ==
  /\ MakeEvent
  /\ connected
  /\ \E t \in Time :
       \/ /\ ClientTakes(NextEvent(t))
          /\ accepted' = accepted \cup {NextEvent(t)}
          /\ UNCHANGED <<pc, held>>
       \/ /\ ClientRefuses(NextEvent(t))
          /\ pc' = "store"
          /\ held' = {NextEvent(t)}
          /\ UNCHANGED accepted
  /\ UNCHANGED <<connected, backoff, flush, stored, leftOver, interrupted,
                 crashes, timeouts>>

\* Cache the refused event, then go offline; a TimeoutError leaves publish_event
\* before connected is cleared.
GoesOffline == connected' = FALSE

StoreRefused ==
  /\ pc = "store"
  /\ pc' = "idle"
  /\ held' = {}
  /\ \/ /\ \E e \in held : stored' = StoredWith(e)
        /\ accepted' = accepted \cup held
        /\ GoesOffline
        /\ UNCHANGED timeouts
     \/ /\ CacheTimesOut
        /\ UNCHANGED <<stored, accepted, connected>>
  /\ UNCHANGED <<processor, backoff, sentKeys, flush, taken, broker, doubted,
                 leftOver, interrupted, crashes>>

-----------------------------------------------------------------------------
(* connect and flush_cache *)

\* on_disconnect
OnDisconnect == /\ pc = "idle"
                /\ connected
                /\ connected' = FALSE
                /\ UNCHANGED <<processor, pc, held, backoff, sentKeys, flush,
                               stored, history, crashes, timeouts>>

\* _sleep_backoff: sleep, and sleep longer the next time.
Longer(b) == IF 2 * b < BackoffMax THEN 2 * b ELSE BackoffMax
ConnectFailed(b) == /\ connected' = FALSE
                    /\ backoff' = Longer(b)

\* connect (and reconnect): the client connects and the flush begins, or it
\* raises.
Connect ==
  /\ pc = "idle"
  /\ \/ /\ connected' = TRUE
        /\ backoff' = BackoffInitial
        /\ pc' = "flush"
        /\ connecting' = TRUE
     \/ /\ ConnectFailed(backoff)
        /\ UNCHANGED <<pc, connecting>>
  /\ UNCHANGED <<processor, held, sentKeys, queue, flushed, stored, history,
                 crashes, timeouts>>

\* flush_cache called directly; it does nothing while disconnected.
FlushCache ==
  /\ pc = "idle"
  /\ connected
  /\ pc' = "flush"
  /\ UNCHANGED <<processor, held, gateway, flush, stored, history, crashes,
                 timeouts>>

\* A TimeoutError out of flush_cache: connect catches it, sleeps and raises it
\* again, any other caller gets it with the gateway still connected.
FlushRaises ==
  /\ pc \in {"flush", "remove", "forget"}
  /\ CacheTimesOut
  /\ IF connecting THEN ConnectFailed(backoff) ELSE UNCHANGED <<connected, backoff>>
  /\ pc' = "idle"
  /\ NoFlush
  /\ leftOver' = leftOver \cup stored
  /\ UNCHANGED <<processor, held, sentKeys, stored, taken, broker, accepted,
                 doubted, interrupted, crashes>>

ReadCache ==
  /\ pc = "flush"
  /\ queue' = stored
  /\ pc' = "send"
  /\ UNCHANGED <<processor, held, gateway, connecting, flushed, stored, history,
                 crashes, timeouts>>

\* The next event, unless its key is noted as sent already.
SkipSent(e) == /\ e.seq \in sentKeys
               /\ flushed' = flushed \cup {e}
               /\ queue' = queue \ {e}
               /\ UNCHANGED <<pc, sentKeys, taken, broker, doubted, leftOver>>

SendCached(e) == /\ e.seq \notin sentKeys
                 /\ ClientTakes(e)
                 /\ flushed' = flushed \cup {e}
                 /\ queue' = queue \ {e}
                 /\ UNCHANGED <<pc, leftOver>>

\* A refused event ends the loop; the gateway stays connected.
StopFlush(e) == /\ e.seq \notin sentKeys
                /\ ClientRefuses(e)
                /\ queue' = {}
                /\ pc' = "remove"
                /\ leftOver' = leftOver \cup (stored \ flushed)
                /\ UNCHANGED flushed

FlushNext ==
  /\ pc = "send"
  /\ \E e \in queue : /\ IsFirst(e, queue)
                      /\ SkipSent(e) \/ SendCached(e) \/ StopFlush(e)
  /\ UNCHANGED <<processor, held, connected, backoff, connecting, stored,
                 accepted, interrupted, crashes, timeouts>>

FlushDone == /\ pc = "send"
             /\ queue = {}
             /\ pc' = "remove"
             /\ UNCHANGED <<processor, held, gateway, flush, stored, history,
                            crashes, timeouts>>

\* remove_sent drops every event with the key of a flushed one.  The faulty
\* variant drops all that was read.
WithoutAll(events) == {}
Without(events) == {e \in stored : e.seq \notin KeysOf(events)}

RemoveSent == /\ pc = "remove"
              /\ stored' = Without(flushed)
              /\ pc' = "forget"
              /\ UNCHANGED <<processor, held, gateway, flush, history, crashes,
                             timeouts>>

\* Keys of events no longer cached are forgotten.
ForgetKeys == /\ pc = "forget"
              /\ sentKeys' = sentKeys \cap KeysOf(stored)
              /\ pc' = "idle"
              /\ NoFlush
              /\ UNCHANGED <<processor, held, connected, backoff, stored,
                             history, crashes, timeouts>>

-----------------------------------------------------------------------------
\* The program dies and is started again: the cache file and the wall clock
\* are all that is left, and the numbering starts at 0 once more.
Crash == /\ crashes < MaxCrashes
         /\ crashes' = crashes + 1
         /\ seq' = 0
         /\ pc' = "idle"
         /\ held' = {}
         /\ connected' = FALSE /\ backoff' = BackoffInitial /\ sentKeys' = {}
         /\ NoFlush
         /\ interrupted' = interrupted \cup (stored \cap taken)
         /\ UNCHANGED <<made, stored, taken, broker, accepted, doubted,
                        leftOver, timeouts>>

Next == \/ PublishOffline \/ PublishOnline \/ StoreRefused
        \/ OnDisconnect \/ Connect \/ FlushCache
        \/ FlushRaises \/ ReadCache \/ FlushNext \/ FlushDone
        \/ RemoveSent \/ ForgetKeys
        \/ Crash

Spec == Init /\ [][Next]_vars

-----------------------------------------------------------------------------
TypeOK == /\ made \in Nat /\ seq \in Nat
          /\ pc \in {"idle", "store", "flush", "send", "remove", "forget"}
          /\ held \in SUBSET Event
          /\ connected \in BOOLEAN
          /\ backoff \in BackoffInitial..BackoffMax
          /\ sentKeys \in SUBSET Nat
          /\ connecting \in BOOLEAN
          /\ queue \in SUBSET Event /\ flushed \in SUBSET Event
          /\ stored \in SUBSET Event
          /\ taken \in SUBSET Event
          /\ broker \in Seq(Event)
          /\ accepted \in SUBSET Event
          /\ doubted \in SUBSET Event
          /\ leftOver \in SUBSET Event /\ interrupted \in SUBSET Event
          /\ crashes \in Nat /\ timeouts \in Nat

Safe(e) == e \in taken \/ e \in stored

\* Every event publish_event returned for was taken by the client or is in the
\* cache file, whatever crashes, refusals and timeouts happened, unless another
\* run of the program gave an event the same (device_id, seq): the guarantee the
\* offline cache exists for, up to the uniqueness of its keys.
NothingLostUnlessKeyReused ==
  \A e \in accepted :
    Safe(e) \/ \E f \in accepted : f.seq = e.seq /\ f.run # e.run

\* "a stable deduplication key" (file_cache.py:19): two events never share
\* their key, so that no event publish_event returned for is ever lost.
NothingLost == \A e \in accepted : Safe(e)

\* A key noted as sent was sent: flush_cache skips (and then removes) only
\* events some event with the same key was taken for.
SentKeysWereTaken == sentKeys \subseteq KeysOf(taken)

\* An event leaves the cache file only after the client took an event with its
\* key.
CacheShrinksOnlyAfterTaking ==
  [][\A e \in stored \ stored' : e.seq \in KeysOf(taken)]_vars

\* An event reaches the broker twice only if its publish was reported as failed,
\* or the program died between its sending and its removal from the cache file:
\* timeouts in that place, and flushes repeated after them, do not resend, and
\* neither do restarts at any other moment.
TwiceOnlyIfDoubtedOrInterrupted ==
  \A i, j \in DOMAIN broker :
    i < j /\ broker[i] = broker[j] => broker[i] \in doubted \cup interrupted

\* e was made before f: in an earlier run, or earlier in the same run.
MadeBefore(e, f) == e.run < f.run \/ (e.run = f.run /\ e.seq < f.seq)

\* Connected and idle, the gateway has nothing waiting that a flush did not
\* already give up on: flush_cache ends early at a refused publish or a timeout
\* and leaves connected True, so that only the next connect sends the rest.
\* Events thus first reach the broker in the order in which they were made,
\* through caching, reconnecting and restarts.  An event is overtaken by one made
\* later only if a flush that ended early left it behind, if an event with its
\* key went out before, or if the later one sorts before it: the wall clock was
\* set back between them, or stood still over a restart.
InOrderUnlessLeftOver ==
  /\ connected /\ pc = "idle" => stored \subseteq leftOver
  /\ \A i, j \in DOMAIN broker :
       i < j /\ MadeBefore(broker[j], broker[i]) =>
         \/ broker[j] \in leftOver
         \/ \E k \in 1..i : broker[k].seq = broker[j].seq
         \/ SortsBefore(broker[i], broker[j])
=============================================================================
