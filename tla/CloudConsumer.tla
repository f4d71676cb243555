--------------------------- MODULE CloudConsumer ---------------------------
(***************************************************************************)
(* Ingestion of edge events by EdgeMqttConsumer (cloud/app/mqtt/           *)
(* consumer.py).  The MQTT client's thread hands each message to the       *)
(* asyncio loop as a coroutine and acknowledges it; the loop runs the      *)
(* coroutines one at a time, and no other coroutine runs from the          *)
(* duplicate check to the first send of the broadcast.  What the broadcast *)
(* does after that is WebSocketManager's business.                         *)
(*                                                                         *)
(* The REST routes are no coroutines: FastAPI runs them in a pool of       *)
(* threads, and one that answers /api/v1/alerts/latest (routes.py) reads   *)
(* the list of alerts while the loop changes it.  A coroutine is therefore *)
(* a step up to the write, one for each change of the list, and a request  *)
(* is a step for each alert it reads.                                      *)
(***************************************************************************)
EXTENDS Lists, Naturals, Sequences, SequencesExt, FiniteSets

CONSTANTS Message,          \* MQTT messages, records of type MessageType
          NoSeq,            \* the seq of a message that carries none
          MaxSeen,          \* max_seen_events
          MaxAlerts,        \* max_alerts
          MaxDeliveries,    \* bound: messages handed over by the client
          MaxWaiting,       \* bound: coroutines that wait in the event loop
          MaxWriteFailures  \* bound: writes that raise

\* stamp tells apart messages of the same device, number and kind: events of
\* different runs of an edge program, or repeated last wills.  It is the timestamp
\* of the event; the payload is a record of the fields that the message has.
MessageType(m) == /\ DOMAIN m = {"device", "seq", "kind", "valid", "stamp", "payload"}
                  /\ m.stamp \in Nat
                  /\ m.seq = NoSeq \/ m.seq \in Nat
                  /\ m.valid \in {"yes", "no", "not text"}

ASSUME MessageAssumption == \A m \in Message : MessageType(m)
ASSUME LimitAssumption == MaxSeen \in Nat /\ MaxAlerts \in Nat
ASSUME BoundAssumption ==
  MaxDeliveries \in Nat /\ MaxWaiting \in Nat /\ MaxWriteFailures \in Nat

VARIABLES
  stopped,    \* _stop_event
  step,       \* what the running coroutine does next: "list" or "trim" the
              \* alarm it has stored, the last of stored; "idle" if none runs
  pending,    \* coroutines the event loop has not run yet, in order
  seen,       \* _seen_event_keys
  order,      \* _seen_event_order
  stored,     \* the writer's written_events
  latest,     \* latest_alerts: of each alert, the place of its event in stored
  broadcasts, \* the manager's broadcast_history: places in stored
  request,    \* a request for the latest alerts: "none", "reading", "answered"
  answer,     \* the alerts it has read: places in stored
  deliveries, \* messages handed over so far
  acked,      \* history: messages the broker need not deliver again
  remembered, \* history: every key remembered, in order
  dropped,    \* history: messages dropped as duplicates
  failed,     \* history: messages whose write raised
  failures,
  expected,   \* history: the newest alarms clients had heard of at the request
  trims       \* history: alerts trimmed from the list since

memory == <<seen, order>>
output == <<stored, latest, broadcasts>>
history == <<acked, remembered, dropped, failed>>
routes == <<request, answer, expected, trims>>
vars == <<stopped, pending, step, memory, output, deliveries, history, failures,
          routes>>

\* _coerce_event: a message without a number, like the last will "offline", is
\* numbered 0.
NumberOf(m) == IF m.seq = NoSeq THEN 0 ELSE m.seq
KeyOf(m) == <<m.device, NumberOf(m)>>

KeysOf(messages) == {KeyOf(m) : m \in messages}
IsAlarm(m) == m.kind = "alarm"
RealtimeKinds == {"alarm", "track", "status", "lwt", "sensor"}

Init == /\ stopped = FALSE
        /\ pending = <<>> /\ step = "idle"
        /\ seen = {} /\ order = <<>>
        /\ stored = <<>> /\ latest = <<>> /\ broadcasts = <<>>
        /\ deliveries = 0
        /\ acked = {} /\ remembered = <<>> /\ dropped = {} /\ failed = {}
        /\ failures = 0
        /\ request = "none" /\ answer = <<>> /\ expected = {} /\ trims = 0

-----------------------------------------------------------------------------
\* _on_message and _submit_event, in the client's thread: after stop nothing is
\* submitted.  The broker may deliver a message again, even after it was
\* acknowledged (an acknowledgement lost, or an edge that resends).
\* The faulty variant has the stop check inverted.
SubmittedOnceStopped(m) == IF stopped THEN Append(pending, m) ELSE pending
Submitted(m) == IF stopped THEN pending ELSE Append(pending, m)

Deliver == deliveries < MaxDeliveries /\ deliveries' = deliveries + 1

OnMessage(m) == /\ Deliver
                /\ m.valid # "not text"
                /\ Len(pending) < MaxWaiting
                /\ acked' = acked \cup {m}
                /\ pending' = Submitted(m)
                /\ UNCHANGED <<stopped, step, memory, output, remembered, dropped,
                               failed, failures, routes>>

\* A message that is not UTF-8 raises in the callback, before the try that reports
\* other errors: it is neither submitted nor acknowledged.  The client's thread may
\* end with it, as it may in any state here: nothing says that messages come.
OnUndecodable(m) == /\ Deliver
                    /\ m.valid = "not text"
                    /\ UNCHANGED <<stopped, pending, step, memory, output, history,
                                   failures, routes>>

-----------------------------------------------------------------------------
(* _accept_edge_event *)

IsDuplicate(m) == KeyOf(m) \in seen

\* _remember_event: the oldest key goes when the window is full.  In the
\* faulty variant a full window takes nothing new.
RememberDropsNewest(m) ==
  IF Len(order) < MaxSeen
  THEN order' = Append(order, KeyOf(m)) /\ seen' = seen \cup {KeyOf(m)}
  ELSE UNCHANGED <<order, seen>>
Remember(m) ==
  LET longer == Append(order, KeyOf(m)) IN
  IF Len(longer) > MaxSeen
  THEN order' = Tail(longer) /\ seen' = (seen \cup {KeyOf(m)}) \ {Head(longer)}
  ELSE order' = longer /\ seen' = seen \cup {KeyOf(m)}

\* A message of a device that is not allowed or that cannot be read raises.
Reject(m) == /\ m.valid = "no"
             /\ UNCHANGED <<step, memory, output, remembered, dropped, failed, failures>>

Drop(m) == /\ m.valid = "yes"
           /\ IsDuplicate(m)
           /\ dropped' = dropped \cup {m}
           /\ UNCHANGED <<step, memory, output, remembered, failed, failures>>

\* The write raises, after the key was remembered.
FailToStore(m) == /\ m.valid = "yes"
                  /\ ~IsDuplicate(m)
                  /\ failures < MaxWriteFailures
                  /\ failures' = failures + 1
                  /\ Remember(m)
                  /\ remembered' = Append(remembered, KeyOf(m))
                  /\ failed' = failed \cup {m}
                  /\ UNCHANGED <<step, output, dropped>>

\* broadcast, of the event that was stored last.
Announced(events) == Append(broadcasts, Len(events))

\* The write; an alarm is then listed, anything else announced at once.  The
\* faulty variant announces an alarm too before it is listed.
AnnouncedFirst(m) ==
  /\ step' = IF IsAlarm(m) THEN "list" ELSE "idle"
  /\ broadcasts' = IF m.kind \in RealtimeKinds THEN Announced(stored') ELSE broadcasts
GoesOn(m) ==
  /\ step' = IF IsAlarm(m) THEN "list" ELSE "idle"
  /\ broadcasts' = IF m.kind \in RealtimeKinds /\ ~IsAlarm(m) THEN Announced(stored')
                   ELSE broadcasts

Store(m) == /\ m.valid = "yes"
            /\ ~IsDuplicate(m)
            /\ Remember(m)
            /\ remembered' = Append(remembered, KeyOf(m))
            /\ stored' = Append(stored, m)
            /\ GoesOn(m)
            /\ UNCHANGED <<latest, dropped, failed, failures>>

\* The event loop runs the next coroutine; those submitted before stop may
\* still run.
Accept == /\ pending # <<>> /\ step = "idle"
          /\ pending' = Tail(pending)
          /\ LET m == Head(pending) IN
             Reject(m) \/ Drop(m) \/ FailToStore(m) \/ Store(m)
          /\ UNCHANGED <<stopped, deliveries, acked, routes>>

\* _append_latest_alert appends the alert and then deletes the oldest ones beyond
\* max_alerts, if any; then the alarm is announced.
ListAlert ==
  LET longer == IF MaxAlerts = 0 THEN <<>> ELSE Append(latest, Len(stored)) IN
  /\ step = "list"
  /\ latest' = longer
  /\ \/ /\ Len(longer) > MaxAlerts
        /\ step' = "trim"
        /\ UNCHANGED broadcasts
     \/ /\ Len(longer) <= MaxAlerts
        /\ step' = "idle"
        /\ broadcasts' = Announced(stored)
  /\ UNCHANGED <<stopped, pending, memory, stored, deliveries, history, failures, routes>>

\* The faulty variant deletes the newest.
FirstAlerts == SubSeq(latest, 1, MaxAlerts)
NewestAlerts == SubSeq(latest, Len(latest) - MaxAlerts + 1, Len(latest))
Trim == /\ step = "trim"
        /\ latest' = NewestAlerts
        /\ step' = "idle"
        /\ broadcasts' = Announced(stored)
        /\ trims' = IF request = "reading" THEN trims + (Len(latest) - MaxAlerts)
                    ELSE trims
        /\ UNCHANGED <<stopped, pending, memory, stored, deliveries, history, failures,
                       request, answer, expected>>

-----------------------------------------------------------------------------
(* latest_alerts of the routes, in a thread of its own: a loop over the list that
   keeps its place in it, by number. *)

\* The alarms that clients have heard of, and the newest of them, which the list
\* has room for.
Heard == {p \in ToSet(broadcasts) : IsAlarm(stored[p])}
NewestHeard == {p \in Heard : Cardinality({q \in Heard : q > p}) < MaxAlerts}

Ask == /\ request # "reading"
       /\ request' = "reading"
       /\ answer' = <<>>
       /\ expected' = NewestHeard /\ trims' = 0
       /\ UNCHANGED <<stopped, pending, step, memory, output, deliveries, history, failures>>

ReadAlert == /\ request = "reading"
             /\ Len(answer) < Len(latest)
             /\ answer' = Append(answer, latest[Len(answer) + 1])
             /\ UNCHANGED <<stopped, pending, step, memory, output, deliveries, history,
                            failures, request, expected, trims>>

Answer == /\ request = "reading"
          /\ Len(answer) >= Len(latest)
          /\ request' = "answered"
          /\ UNCHANGED <<stopped, pending, step, memory, output, deliveries, history,
                         failures, answer, expected, trims>>

-----------------------------------------------------------------------------
\* stop
Stop == /\ ~stopped
        /\ stopped' = TRUE
        /\ UNCHANGED <<pending, step, memory, output, deliveries, history, failures,
                       routes>>

\* The loop ends some time after stop; what it has not run by then is lost.
EndLoop == /\ stopped
           /\ pending # <<>> /\ step = "idle"
           /\ pending' = <<>>
           /\ UNCHANGED <<stopped, step, memory, output, deliveries, history, failures,
                          routes>>

Ingest == Accept \/ ListAlert \/ Trim
Serve == Ask \/ ReadAlert \/ Answer

Next == \/ \E m \in Message : OnMessage(m) \/ OnUndecodable(m)
        \/ Ingest \/ Serve \/ Stop \/ EndLoop

Spec == Init /\ [][Next]_vars

\* The running event loop runs what it was given.
FairSpec == Spec /\ WF_vars(~stopped /\ Ingest)

-----------------------------------------------------------------------------
Key == KeysOf(Message)

TypeOK == /\ stopped \in BOOLEAN
          /\ pending \in Seq(Message)
          /\ step \in {"idle", "list", "trim"}
          /\ seen \in SUBSET Key /\ order \in Seq(Key)
          /\ stored \in Seq(Message)
          /\ latest \in Seq(Nat) /\ broadcasts \in Seq(Nat)
          /\ deliveries \in Nat
          /\ acked \in SUBSET Message /\ remembered \in Seq(Key)
          /\ dropped \in SUBSET Message /\ failed \in SUBSET Message
          /\ failures \in Nat
          /\ request \in {"none", "reading", "answered"}
          /\ answer \in Seq(Nat) /\ expected \in SUBSET Nat /\ trims \in Nat

\* The set and the deque of the duplicate window stay in step: the same keys, no
\* key twice, never more than max_seen_events of them.
WindowInStep == /\ seen = ToSet(order)
                /\ IsInjective(order)
                /\ Len(order) <= MaxSeen

\* A key is remembered a second time (and its event stored again) only after
\* max_seen_events other keys: within the window every duplicate is recognised,
\* however deliveries repeat and writes fail.
DuplicatesRecognisedInWindow ==
  \A i, j \in DOMAIN remembered :
    i < j /\ remembered[i] = remembered[j] => j - i > MaxSeen

\* Whatever was dropped as a duplicate had its key stored, or failed to be
\* stored, earlier: an event is never dropped on account of nothing.
DroppedWasHandled ==
  KeysOf(dropped) \subseteq KeysOf(ToSet(stored)) \cup KeysOf(failed)

\* A client that has heard of an alarm and then asks for the latest alerts is
\* answered with it, if it is one of the newest max_alerts, although the list changes
\* while the answer is made: of the alarms heard of before the request at most as
\* many are missing as were trimmed from the list meanwhile (they, or, since the
\* trimming moves the list under the reader, others in their place).  No alert is
\* answered twice or before an older one.
LatestAlertsAreAnswered ==
  /\ \A i, j \in DOMAIN answer : i < j => answer[i] < answer[j]
  /\ request = "answered" => Cardinality(expected \ ToSet(answer)) <= trims

\* Every message the broker was told it need not send again is, once the loop
\* has caught up, stored, or a duplicate, or invalid, or failed, or it came
\* after stop.
AckedIsHandled ==
  stopped \/ pending # <<>> \/
    \A m \in acked : m \in ToSet(stored) \cup dropped \cup failed \/ m.valid = "no"

\* Every message taken from the broker is dealt with in time, unless the cloud
\* is stopped: none waits behind others for ever.
EveryMessageIsAnswered ==
  \A m \in Message :
    m \in acked ~>
      stopped \/ m.valid = "no" \/ m \in ToSet(stored) \cup dropped \cup failed

=============================================================================
