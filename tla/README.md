# A verification project for haiyu

haiyu watches a stretch of water: an edge program detects and tracks vessels in
camera frames, judges the risk of collision and sends alarm events over MQTT; a
cloud service stores the events, answers REST queries and pushes realtime
messages over WebSocket to a browser monitor. This directory holds TLA+ models
of the parts of that program in which events can be lost, repeated, reordered or
blocked, targets mistaken for others, or answers differ from what was stored, the TLC
configurations that check them, and proofs, checked by TLAPS, of
the properties that matter most. Paths below are relative to the repository.

## 1. The system

| Part | State it keeps | Operations | Hard behaviour |
|---|---|---|---|
| Offline event cache, `edge/cache/file_cache.py` | two JSON files and a lock file with the owner's pid | `append`, `read_all`, `remove_sent`, `clear` | several processes; a process that dies with the lock; a pid that was reused |
| MQTT gateway, `edge/mqtt_gateway.py` | `connected`, `_backoff_seconds`, `_sent_keys` | `publish_event`, `connect`/`reconnect`, `flush_cache`, `on_disconnect` | a flush that fails half way; a crash between sending and removing; lock timeouts |
| Edge processor, `edge/edge_processor_v2.py` | `_seq`, a history per identity, the last start of `run` | `process_frame`, `run` | a failing stage; restarted numbering; histories that are never dropped; a clock that is set back |
| Detection, `edge/detect/` | the loaded model with its injected blocks | suppression, `inject`/`strip`, loading | chains of overlaps; blocks inside blocks |
| Tracker, `edge/track/tracker.py` | active tracks with their missed frames, next identity | `update` | identities; ageing with and without detections; a fallback that raises half way |
| Risk, `edge/risk/` | none | TCPA/CPA, level, alert decision | boundaries of the levels, no relative motion, predictions against the straight line |
| Prediction and training data, `edge/predict/`, `edge/track/history.py` | bounded histories, windows | `predict`, `append`/`extend`/`clear`, splits | histories that end in the middle of a batch; mixed coordinates |
| Training, `training/` | model and checkpoints | inject, train, save, clean | the order of those steps |
| Cloud consumer, `cloud/app/mqtt/consumer.py` | duplicate window (set and deque), `latest_alerts`, stop flag, reconnecting thread | callbacks of the MQTT client, `accept_event`, `start`, `stop` | two threads and an event loop, and routes that read its lists from threads of their own; redelivery; failing writes; stop while working |
| Storage, `cloud/app/db/influx.py` | written events and points | `write_event`, queries | limits and ranges, points that collide, two writers that answer the same questions by rules of their own |
| WebSocket hub, `cloud/app/websocket/manager.py` | `active_connections`, a lock, `broadcast_history` | `connect`, `disconnect`, `broadcast` | every `await` lets others run; clients that leave at any time |
| REST API, `cloud/app/api/routes.py` | none of its own | queries over the above, each in a thread of a pool, and the WebSocket endpoint | lists that change while they are read; events stored out of order; flags read by several rules |
| Monitor, `frontend/src/services/` | connection status, live data | socket and timer callbacks, polling | late callbacks; answers to old polls; messages never rendered |

An alarm travels: `process_frame` numbers it (`_seq`), the gateway publishes it or
puts it in the cache file, a later `connect` flushes the file, the broker
delivers it to the consumer's MQTT thread, which hands it to the event loop; the
loop drops it as a duplicate or remembers its key `(device_id, seq)`, writes it
and broadcasts it to the registered WebSockets. The parts share the cache
directory (all edge programs on a machine), the keys `(device_id, seq)` (cache,
`_sent_keys` and the cloud's window all identify events by them) and the event
loop (ingestion, broadcasts and endpoints).

What makes each part correct:

* cache: operations of different processes are atomic; a dead owner's lock is
  recovered from; nothing is removed that was not sent;
* gateway: what `publish_event` returned for is either with the client or in the
  file; nothing is sent twice or out of order without a reason that can be named,
  over any number of runs and whatever the clock shows;
* consumer: the window recognises every duplicate inside it; who has heard of an
  alarm is answered with it; nothing acknowledged disappears while the loop runs;
* hub: the cap holds; registered means served; a broadcast reaches whoever was
  there when it began;
* edge processing: an identity stands for one target, every target has its alarm
  whatever fails, and no prediction hides a danger;
* storage and queries: what one writer answers can be told from what the other does; the
  device rows and the summary are of what is stored;
* monitor: one connection; nothing shown as live that is not; nothing goes from the page
  without a reason; in the end it shows what the routes answer;
* training: what is saved can be loaded where it is meant to be; validation sees nothing of
  the training data.

The components in `PROJECT.json` list every part with its status, its
`hazards` every place where we think a test would hardly reach what can go
wrong.

## 2. The modules

| Module | Models | Checked by | Proved in |
|---|---|---|---|
| `AtomicCache` | what the cache promises: a file's keys change by one whole operation at a time | refinement | |
| `CacheLock` | the lock-file protocol and the read-modify-write under it | `MCCacheLock`, `CacheLock_*.cfg` | `CacheLockProofs` |
| `EdgeGateway` | numbering, publishing, caching, flushing, crashes | `MCEdgeGateway`, `EdgeGateway_*.cfg` | `EdgeGatewayProofs` |
| `CloudConsumer` | ingestion by the cloud | with the next | `CloudConsumerProofs` |
| `CloudQueries` | points, rows, queries of both writers, device rows and summary, as functions of what `CloudConsumer` keeps | `MCCloudConsumer`, `CloudConsumer_*.cfg` | `CloudConsumerProofs` |
| `ConsumerLifecycle` | start, stop, reconnecting and the three threads of the consumer | itself, `ConsumerLifecycle_run.cfg` | `CloudConsumerProofs` |
| `WebSocketManager` | the hub and its endpoint | `MCWebSocketManager`, `WebSocketManager_run.cfg` | `WebSocketManagerProofs` |
| `Detections` | overlap of boxes, suppression, the making of detections | with `EdgeProcessor` | `EdgeProcessorProofs` |
| `Tracker` | `IoUTracker.update` | with `EdgeProcessor` | `EdgeProcessorProofs` |
| `PredictorAdapter` | what surrounds the learned predictor | with `EdgeProcessor` | `EdgeProcessorProofs` |
| `RiskEngine` | closest approach, future distance, level, alert | with `EdgeProcessor` | `EdgeProcessorProofs` |
| `EdgeProcessor` | the frame loop over the four above | `MCEdgeProcessor`, `EdgeProcessor_*.cfg` | `EdgeProcessorProofs` |
| `RiskEncounter` | a target passing ownship, assessed at every step | `MCEdgeProcessor` | `EdgeProcessorProofs` |
| `RealtimeStatus` | the monitor's WebSocket, its timers and its effect | with `LiveMonitor` | `LiveMonitorProofs` |
| `LiveMonitor` | the page: polls, tokens and realtime messages on one screen | `MCLiveMonitor`, `LiveMonitor_run.cfg` | `LiveMonitorProofs` |
| `AttentionInjection` | attention blocks through injection, training, saving and loading | `MCTraining`, `Training_run.cfg` | `TrainingProofs` |
| `TrajectoryData` | histories, windows and the split | `MCTraining`, `Training_run.cfg` | `TrainingProofs` |
| `Lists` | no part of the program: sorting and comprehensions with a condition, which the modules of the edge, the cloud and the monitor share | with those | `ListLemmas` |

### CacheLock

`pc[p]` is where process p is in `_acquire_process_lock` or in the operation
under the lock. Each system call is an action: `Open` (create exclusively),
`WritePid`, `ReadPid`, then `FindStale`, `Wait` or `TimeOut` (the test of the pid
and the deadline; a deadline is a choice that may fall at any attempt),
`BreakStale` and `Release` (unlink whatever is at the path). The lock file is the pair `creator`, `written`: what is at
the path, which is why a process that writes its pid after its file was unlinked
changes nothing. The operations differ only in what they read and write:
`Read` and `Write` run once for `append` and for both files in the others.
`Start` gives a process its pid (never one in use), `End` is a crash or an exit
at any point. The thread lock inside one process is not modelled: one process is
one thread here, since nothing in the repository shares a cache between threads.

`AtomicCache` is the promise: `Store`, `Discard` and `Empty` on one file. The
refinement maps `content` to `file`; every step but `Write` is a stutter. `clear`
and `remove_sent` work on two files one after the other, and the abstract
steps do too: the pair is not atomic for a program that dies in between.

### EdgeGateway

One thread, so an action is a stretch of code in which nothing else can happen,
and the places between them are those where a crash makes a difference. The
cache's operations are single actions here: `CacheLock` is the reason why that
is right, or how it fails. Any of them may raise `TimeoutError`. The MQTT client is external: it takes an event
(rc 0), or refuses it, and a refused event may have reached the broker
(`doubted`). `Crash` keeps the cache file; `seq` starts at 0 again.
`broker`, `taken`, `accepted`, `doubted`, `leftOver` and `interrupted` (what a crash found in the
cache although it was taken) are history variables, no
guard of an action reads any of them except the bound on `doubted`.
There is one device, and an event is its number, its timestamp and, to tell events apart, the run that made
it. The timestamp is the wall clock's for the frame: any event may carry any of `Time`, so that
alarms of one frame share theirs and the clock may stand still or go back at any moment. A flush
goes by `(timestamp, seq)` (`SortsBefore`). `connect` sleeps and raises when the client or the flush
raises: `ConnectFailed`.

### CloudConsumer

`OnMessage` is the client's thread (it acknowledges the message when the callback
returns, whatever became of it); bytes that are no UTF-8 raise in that thread before anything
catches it, and are neither handed over nor acknowledged (`OnUndecodable`). `Accept` is the event loop. No other
coroutine runs from the duplicate check to the first send of the broadcast, but the threads
of the routes do, so that a coroutine is a step up to the write, `Reject` (source not
allowed, unreadable), `Drop` (duplicate), `FailToStore` (the write raises, after
the key was remembered) or `Store`, and for an alarm one for each change of the list of
latest alerts: `ListAlert`, and `Trim` if it is too long. `Ask`, `ReadAlert` and `Answer` are a route that lists
`latest_alerts`, alert by alert, by its place in the list. `latest`, `broadcasts` and `answer` hold places in
`stored`. `EndLoop` discards what had not run when the
loop ends after `Stop`. Messages carry a `stamp` so that two of them can have
the same device, number and kind. The rest of a broadcast is `WebSocketManager`'s.
`accept_event`, which takes an event directly, runs the same code as `Accept`.

### ConsumerLifecycle

The same class seen from its threads. `main` is where the main thread is in the
lifespan, `start` or `stop`; it also runs the event loop, which stands still
while it is in `stop`. `client` is where the MQTT client's thread is: between
callbacks (`idle`), in `schedule_reconnect`, or in `_submit_event`, which reads
`event_loop` three times for one message (`FirstRead`, `SecondRead`, `HandOver`)
while `ForgetLoop` may come between. `pc[t]` is where a reconnecting thread is;
its lock is never contended, because only the client's thread calls
`schedule_reconnect`. `stop` is one action per call it makes: setting the event
(which wakes a waiting thread for good), forgetting the loop, `loop_stop` (which
waits for the callback), `disconnect`, and `join` with its timeout of a second,
which is a choice: it may end with the thread still alive. The connection `link`
is external: it breaks at any time, and its loss is reported to `on_disconnect`
later; a connection that `reconnect` replaced first is not reported. `overlooked`
and `gaveUp` are history variables that no guard reads. What a message does once
it is in the loop is `CloudConsumer`'s, and so are the routes: `HandledInOneThread` is about the handling of messages,
not about who reads what they change.

### WebSocketManager

A step is what a coroutine does between two awaits. The `asyncio.Lock` is
`holder` and the queue `waiting` (it serves in order); checking the cap and
starting the handshake is one step, registering is another. Asking for a free
lock and getting it are two steps here and one in the code, which adds no
behaviour: the first changes nothing anybody else looks at. `broadcast` appends to the
history, copies the list and makes the first send in one step, then one send per
step. A client may leave whenever it likes; the cloud learns of it in the
endpoint's `receive_text`, and until then a send to it is ignored or raises.

### CloudQueries

Functions of `CloudConsumer`'s variables, evaluated in every state of its run. `stored` is
`written_events`; `Points` is what the database makes of the same writes: it keeps the last
of the points with one measurement, one set of tags and one time. `Query` is the in-memory
writer (durations count from the newest event of the type, both ends belong to the range,
the last rows are kept, a row has its `seq`), `FluxQuery` the database (durations count from now, the end is
open, `limit` takes the first rows of each series, a row has no `seq`, and a bound that is no duration is
refused, which the memory takes). `DeviceRow`, `RiskCount` and
`SummaryPayload` are the routes' own. A payload is a record with some of the fields an
edge may send, so that the rules by which the writer, the routes and the monitor read it
can differ, as they do. The scalar values are strings.

### Detections, Tracker, PredictorAdapter, RiskEngine, EdgeProcessor

A frame is one step: one thread processes it and shares nothing. `ProcessFrame`
follows `process_frame` with an operator for each stage; a stage that fails leaves its
error and its fallback. `Frames` is what the detector's rows can be, `Faults` which stages raise,
`ClockSteps` how the clock moves, `Futures` what the network predicts: each is chosen
anew for every frame. `paced` says whether `run` drives the processor, which sleeps
until the interval is over by the same clock; `simple` whether it was built without a
tracker. Everything numerical is on a grid: coordinates are integers, overlaps are pairs
of integers compared by cross multiplication, thresholds are in percent, an assessment
carries the scale of its time and squared distance. Nothing is rounded, so that a boundary of
a level is met exactly.

`Tracker` is `IoUTracker`: a record with the active tracks, the next identity and whether it
has a fallback. `_handle_missing_frame` ages tracks in the order of the dict and moves them
by their last velocity; when the fallback raises, the tracks before that one have been
aged and the rest have not, which is why `MissedCountsFrames` has the term `raises`. The history of
an identity is `EdgeProcessor`'s and is never removed. `frame`, `faulty`, `back`, `raises`,
`unsent`, `lastSeen` and `steady` are history variables; guards read the first three for
the bounds only. The coordinates' truncation in `Moved` is that of the grid.

### RiskEncounter

What `evaluate_risk` says of a target that passes ownship, step by step: it keeps its
velocity or turns once. The properties relate two assessments of the same encounter, and an
assessment without a prediction to the same one with any of `Expectations`.

### RealtimeStatus and LiveMonitor

The browser has one thread, so an action is a callback: of a socket (`Open`, `Receive`,
`Fail`, `Close`), of a timer (`ReconnectFires`, `StaleFires`), of React (`Remount`: cleanup
and effect again, as in StrictMode). A run of the effect is a mount with its own `socket`,
`disposed` and timers; callbacks of an old mount's socket keep coming. A socket is
`connecting`, `open`, `failed`, `closing` or `closed`, with the messages in its `inbox`.

`LiveMonitor` puts `useLiveDashboardData` on top: `polls` are the requests under way, each
with the token it was made with and the moment at which it was made, what the cloud had stored and what
its clock showed; the four routes of one poll may have been answered at different moments since. `Render` is
React's rendering
followed by the effect of `lastMessage`, which sees the last message only. The cloud stores and sends
`Traffic` one after the other (`Send`), and has a database or answers from memory (`database`, chosen at the
start); `Tick` is the database's clock, the only one that matters to an answer. The page gives no range, so
that the routes take an hour (`Span`): in memory the hour before the newest event of the type
(`HeldRows`), in the database the hour before now, and of each series the oldest `MaxRows` (`FoundRows`, which
leaves the order between series to the database). The rows are those of `CloudQueries`, reduced to what the
page looks at. The page makes the identifier of an alert from its number, or, where there is none, from its time:
a realtime message has the number and a row of the database has not, so that the same alert may be there under both
until the next poll. A list of rows is cut at `MaxRows` (100 in
the URLs), a list that realtime messages extend at `MaxShown` (50 in `slice`).

### AttentionInjection and TrajectoryData

A model is its sequence of layers with how often each was wrapped in
`Sequential(layer, SEResidualAttention)`; the keys of a state dict tell the layer, the depth to
which wrapping moved the parameter, and whether it belongs to a block. Training saves `best.pt` as a
module or as a dict, depending on the library's version, and `_strip_and_resave_checkpoint`
filters the keys. The checkpoint is the file last written, `best.pt` or its clean copy.
`TrajectoryData` is independent of it: `extend` stops at the first state that `append`
refuses and keeps what came before; `split_by_trajectory` may choose any of the trajectories.
`MCTraining` runs one of the two scripts.

## 3. What is checked

| Run | Instance | Shows |
|---|---|---|
| `lock_pair` | 2 processes, 2 keys, both may end | exclusion while both live; the cache changes as `AtomicCache` does through every crash; a lock file with a dead owner's pid goes in the end |
| `lock_break` | 3 processes, one ends | **violated**: mutual exclusion |
| `gateway_run` | 3 events at 2 readings of the clock, 2 crashes, 1 timeout, 1 doubtful publish | what is never lost, repeated or reordered, and the exact exceptions |
| `gateway_restart` | 3 events, 1 crash | **violated**: an event is lost because its key was given before |
| `cloud_run` | two scripts: 9 messages (valid, refused, unreadable, unnumbered, oddly spelt, late), or 3 alarms and requests for the latest; 4 deliveries, 2 waiting, window of 2, list of 2, 1 failing write | duplicates are recognised; who has heard of an alarm is answered with it; how the answers of the writers relate; device rows and summary are of what is stored; every message is dealt with |
| `cloud_points` | two alarms of one frame | **violated**: the database has a point for each alarm |
| `lifecycle_run` | 2 thread names, no limit of attempts, delays 1 to 3 | one thread reconnects, one thread handles, a loss is attended to, everything ends after `stop`, connections get subscribed |
| `hub_run` | 3 connections, cap 2, 2 broadcasts | cap, registration, who misses what; every connection is answered |
| `edge_run` | 4 frames out of 5 kinds, 4 sets of faults, 1 step back of the clock; encounters of 7 moves and 1 turn | suppression, identities, histories, predictions, alarms and numbers through failing stages; risk through an encounter |
| `edge_wiring` | the same with the publisher of `run_edge.py` | **violated**: alarms are published |
| `monitor_run` | memory or database, 2 mounts, 2 sockets, 2 polls at once, 2 messages stored and 2 sent, an alert older than the range, 1 bad token, lists of 2 and 3 | one connection, honest labels, what may take an alert off the screen, silence is noticed, the connection comes back, the page catches up |
| `training_run` | 6 steps on 3 architectures; 5 of 6 batches of 3 tracks | blocks stay where they belong, which cleaned files load, histories convert, splits lose and leak nothing |

A run spends its properties on what takes several steps to go wrong. The type invariants of
the modules with proofs are theorems, for all values of the constants, and are not run again.
`ScreenIsHonest` and `WrappedTogether` include the type invariant of their modules.

Bounds. Three processes are what it takes to break a lock under somebody (one
dead, two that judge it), which `lock_break` shows; two show everything that involves one
competitor, and the theorems about processes that live are for any number. Two keys in
`lock_pair` tell a lost update (an append that takes another key away) from any
change the abstract cache allows; elsewhere an update is lost or not whatever the key,
and the proofs below do without that bound. In `gateway_run` three events
are two with a collision after a restart and one to be overtaken; two crashes let
a key be used three times; two readings of the clock are equal, in order or in the wrong order. In `cloud_run` four
deliveries exceed the window of two
twice, three alarms exceed the limit of two latest alerts, so that the list is trimmed under a reader, and
the messages hold each way in which the readers of a payload can differ but a null `status` (the theorems
have it). In `lifecycle_run`
two names are enough for one thread too many, since
the name of a thread that ended is used again; delays of 1, 2, 3, 3 reach and pass the cap.
In `hub_run` three sockets
leave one outside a full hub and two in an audience, so that one who leaves can
cost the other the message. In `edge_run` a track is dropped with the second frame it misses, so that
four frames let it be seen, missed, dropped and seen again under another identity; a
window of two states turns over twice; three boxes in a chain, of which the ends hardly
overlap, with equal and different confidences and classes, are the smallest for which a greedy
choice can differ from another. Every level and the case without relative motion
are met by some encounter; seven moves take a target from before its closest approach to
after it. In `monitor_run` two mounts and two sockets make every callback of
a replaced one possible, and two polls overtake each other; the last socket of the model does not fail,
since otherwise no bounded model could come back. The second alert is more than the range of three later than the
first, which a timely poll then takes off the page, and the clock moves on once more, out of the range of what
comes before. No answer to the valid token fails
there (`MaxFailures = 0`): a failed answer is the same transition as the one to the bad token, which the run has.
Longer lists are left to the theorems. In `training_run` six steps reach blocks
nested several deep, also through a checkpoint that kept them. Every bound is a constant named `Max...` in a guard.
`CHECK_DEADLOCK FALSE` stands where the instance really ends: all deliveries made
and the consumer stopped, all sockets closed, all processes ended, all frames processed, all
steps of a script done.

Fairness. `lock_pair` assumes that a running process keeps
being scheduled and calls the cache again (the edge publishes an alarm per
track and frame). `cloud_run` assumes that the event loop runs what it was given
until it is stopped. `lifecycle_run` assumes that the main thread goes on through `stop`, the
client's thread through its callbacks, and a reconnecting thread through everything but the call of
`reconnect`, which may hang: the operating system schedules them, and the waits
have an end of their own. `hub_run` assumes that the loop resumes coroutines whose
await is over, and that handshakes and sends end: they are writes to a socket. `monitor_run`
assumes that timers fire, that the interval of polling goes on, that a request ends (the
oldest poll is taken off the list), that React
renders, and that a socket opens or closes once it was told to; it does not assume that a poll
succeeds (the bound on failures of a valid token does), nor that anything more is sent. No
fairness is assumed of crashes, clients, the broker, `Start`, `Stop`, messages, or the gateway's
`Connect`: nothing on the edge calls `reconnect` by itself. `edge_run` and `training_run` need
none.

### What the violations mean

* **Breaking a lock** (`lock_break`). P judges the dead owner's pid and pauses before
  `unlink`; Q judges it too, unlinks, creates its own lock and goes on; P unlinks Q's
  lock and creates another. Both are inside. With no process dead, or with one
  competitor only, this cannot happen: that is what `lock_pair` and
  the theorems say.
* **Numbers from 0** (`gateway_restart`). An event cached in one run has the key of an
  event in the next; `append` takes it for a duplicate and `publish_event` returns as
  usual. `NothingLostUnlessKeyReused` says that this is the only way to lose an
  event.
* **A gateway that cannot publish** (`edge_wiring`). `create_edge_pipeline(mqtt_enabled=True)`
  hands the processor the `MqttGateway` itself. The processor calls `publish`, the gateway
  has `publish_event`, and `_run_stage` catches the `AttributeError`: frames go on, alarms stay.
  `run_demo.py` wraps the gateway in an adapter that has `publish`; `edge_run` is checked with that.
* **Two alarms, one point** (`cloud_points`). The processor raises an alarm per track and
  frame, all with the frame's timestamp. Two of one level have equal tags (`deviceId`,
  `level`) and time, so that the database keeps the second; the in-memory writer keeps
  both.

### Exceptions that the properties name

Some properties hold only up to a case that the code does not handle; the case is part of the
formula, so that the run shows that there is no other.

* `TwiceOnlyIfDoubtedOrInterrupted`: a publish that was reported as failed although it arrived, and a crash
  between the sending of an event and its removal from the cache.
* `InOrderUnlessLeftOver`: an event is overtaken if a flush that ended early left it behind, if an event with its key
  went out before, or if the later one has the smaller `(timestamp, seq)`: a clock set back, or one that stood
  still over a restart.
* `LatestAlertsAreAnswered`: the trimming moves the list under the route that reads it, so that an answer may lack as
  many alerts as were trimmed meanwhile, also some that are still in the list, and may hold one more than
  `max_alerts`.
* `DisconnectIsAttended`: a connection lost while the thread that just made it has not quite
  ended starts no thread, and nobody tries again until `start`.
* `WritersAgree` is about ranges given as durations and asked for right after the newest event of the type; Flux
  refuses absolute ones, and at any other time the two count from different anchors. Before the limit the database then
  has the rows that the memory has of that time, without their `seq`; events with the same device, time
  and level, track or sensor type are one row. With the limit it keeps the oldest rows of each series, where the memory
  keeps the newest of all: the two answers may have no row in common. A status whose field `status` is null is read as
  online by the routes and by its `state` by the writer.
* `SummaryMatchesHistory`: only for alarms whose type is spelt `alarm` (the writers ignore
  the case, the consumer does not) and whose level is in `risk_level` (the routes do not
  read `level`) and is not null (which the summary counts as `None` and the writer reads as `none`); and
  only as long as no history is longer than an answer may be. While the loop lists an alarm, the list may lack that
  one or hold one more.
* `DeviceRowIsTheNewest`: `last_seen` is the newest event's whatever the order; the online flag is that of the newest
  status only if the statuses were stored in the order of their times: the code keeps no time of a status, so that
  an older one stored later wins.
* `PredictedWhereItLooked`: a track located in some of its frames only may be labelled with
  world coordinates that the model computed from pixels, or the other way round.
* `SavedCleanUnlessNested`: `save_clean_checkpoint` strips a model that was injected twice once, and the file does
  not load. The clean copy that training writes (`_strip_and_resave_checkpoint`) never has the keys of the
  architecture: what is left of a wrapped layer stays a level deeper, or, saved as a module, the blocks stay.
* `ScreenIsHonest`: an alert is on the page once only where the identifiers tell alerts apart (`AlertsDiffer`, a premise
  of the property and no assumption): in memory an edge that restarts numbers its events from 0 again, and the cloud
  remembers only the numbers in its window; in a database the alert may be there under two identifiers, once under each.
* `OnlyALatePollForgets`: an answer overtaken by a message takes it from the screen until
  the next poll; every failed poll replaces the screen by the demonstration data; a timely poll takes away what
  has left the range of an hour that the routes take; and full lists.
* `ScreenCatchesUp`: what the page shows in the end is what the routes answer, that is, of what is stored the
  part in their range, and the demonstration's items in place of a list that is empty for that; and the database's clock
  must have stopped, since otherwise the answer goes on changing.

## 4. What is proved

All theorems hold for every value of the constants that satisfies the module's
assumptions (which say no more than that sets and numbers are what they are
meant to be, and that the absent value is not a member).

* `CacheLockProofs`. `TypeCorrect`; `ExclusionWhileAllLive`, `NoLostUpdate`,
  `NoBreakingWhileAllLive` for any number of processes, keys and pids, reused or not; and
  `CacheIsAtomic`, the refinement of `AtomicCache`. Exclusion is not inductive by itself: `LockInv`
  adds that the file at the path belongs to the process between creating and
  removing it, that every pid read from it is that of a running process, that
  nobody is about to unlink a stale lock, and that a snapshot is current. The
  refinement follows because a `Write` happens with a current snapshot. When processes end,
  exclusion and refinement have the premise `OneSurvivor`: once one has ended, at most one runs, as where a single
  program is crashed and started again any number of times. `SurvivorInv` then needs that nobody else
  is inside when a lock is broken (`BreakerIsAlone`). `lock_break` shows why the premise is there: its two survivors break
  each other's lock. For two processes the premise follows from the specification (`CacheOfTwoIsAtomic`,
  what `lock_pair` checks), and so it does where none ends.
* `EdgeGatewayProofs`. `TypeCorrect`; `NothingLostExceptReusedKeys` and
  `NothingLostBeforeRestart` for any number of events, crashes, doubts and timeouts;
  `SentKeysSound`; `CacheShrinksSafely`. `DeliveryInv` adds what connects the
  variables during a flush: keys noted as sent and events flushed were taken, the queue
  is part of the file, numbers of the current run are below `seq`.
  `SentTwiceOnlyIfUnsure` and `EventsGoOutInOrder` are about what the broker has seen, over any number of crashes.
  The first needs that the noted keys cover everything that is cached although it was taken, or that a crash came
  since (`NotedInv`): that noted keys were taken, the other direction, would not keep an interrupted
  flush from sending again. The second needs that no event still cached or
  held has been overtaken without one of the named reasons (`OrderInv`), with what a flush has not looked at yet for
  each of its places; of the clock it needs nothing.
* `CloudConsumerProofs`. `TypeCorrect`; `WindowStaysInStep` and
  `DuplicatesAreRecognised` for every window size, 0 included; `DropsAreAccountedFor`;
  `AcknowledgedIsHandled`. `WindowInv` adds that the deque is the end of the sequence
  of all keys ever remembered, `FateInv` that each key in the window was stored or
  failed and that each acknowledged message waits or has been dealt with.
  `LatestAnswersAreSound`: whoever has heard of an alarm is answered with it, at any pace of the loop and of the
  reader and for any size of the list. The invariant follows the reader's place through the trims: what is expected and
  still to come is ahead in the list, but for as many as were trimmed.
* `CloudConsumerProofs`, second part, about `CloudQueries`, for any messages, payloads and limits.
  `SummaryIsOfTheHistory` needs that `latest_alerts` is the end of the list of all alarms stored, but for the one that
  is being listed
  (`LatestInv`): the end of a list with one element more needs only the end of the list (`EndOfAppend`).
  `DeviceRowsAreTheNewest` and `TheWritersAgree` follow a loop over the stored events, `RowAfter` the
  row of a device and `PointsAfter` the database: each point is one of an event, and each event has a point in its
  place, which of them it may be. The row that a question returns is determined by the place, so that the rows of the
  database in a range are those of the memory, and the limit then cuts the same set in each series. The proof
  of `SummaryIsOfTheHistory` showed that the property had been stated too widely: for a level that is there but
  null, and for a history that is cut, it is false (see above).
* `CloudConsumerProofs`, third part, about `ConsumerLifecycle`. `LifecycleTypeCorrect`; `OneThreadReconnects`, `OneThreadHandles`
  and `LossIsAttended` for any delays, limit and number of threads. `LifecycleInv` adds that
  only `_reconnect_thread` can be alive and says, for each place of the main thread,
  what the client's thread, the stop event and `event_loop` can be (`PhaseInv`): outside of
  `start` and `stop` there is no client's thread, and a callback is handled in place only
  where the loop was forgotten.
* `WebSocketManagerProofs`. `CapHolds` and `RegistrationIsExact` for every cap and set
  of sockets. `HubInv` adds that the lock is held by exactly the endpoint in its
  handshake, that a place is kept for it, and that those in line are waiting, each
  once. `TypeCorrect`, and `BroadcastsReachWhoStays`: `BroadcastInv` follows every broadcast
  through the sockets still to come: each client of its audience is ahead, has the message, or
  somebody of the audience has left, and those ahead that have not left are registered in the same order.
* `EdgeProcessorProofs`. Every invariant of `edge_run` and its action property, for any detector (any finite
  list of rows with integer coordinates), any sets of failing stages, any steps of the clock, any
  predictions, thresholds, lengths and publisher: `FrameTypes`, `SuppressionIsSound`,
  `TracksStayOnTarget`, `IdentitiesAreNew`, `PredictionsHold`, `AlarmsAreAccounted`. The argument has two halves.
  What holds of one frame's result (`ResultHolds`) follows from the stages, one after the other: the rows
  kept are an initial part of the rows sorted stably by confidence, so that a row that was not kept was met by a
  more confident one (`SuppressionCovers`); the pairs taken are a matching in which each refused pair was met by
  one preferred to it (`Matching`, `Stable`). What holds from frame to frame needs `FrameInv`, which
  `FrameInvariant` proves and TLC checked before on the instance of `edge_run`. Its parts are
  `HistoriesHold`: a deque ends with as many states in increasing time as `steady` says, or is as
  long as it may be (`InStep`), without which nothing could be said of a prediction after the clock was set
  back; `IdentitiesHold`: an identity that has a track or a history was seen, under a number below the
  next one (`Remembered`), the misses of a track are the frames since (`MissedCounted`), and the class
  of a track is that of its history (`OneTarget`), since an identity that would be given out again brings two
  targets into one deque; and `NumbersHold`: published numbers increase, are below `seq`, and `seq` counts what
  was published or refused.
  `AssessmentIsSoundHolds` and `ApproachIsConsistentHolds` are about `RiskEncounter`: for any
  thresholds that are not negative, any integer positions, courses and predictions, whether the
  bands of the thresholds lie in one another or not. The arithmetic is the identity of Lagrange: the squared
  distance times the squared speed is the square of the product along the course plus that
  of the product across it, and only the first changes on a straight track. `SoonerIsNoLessUrgent`
  is what the levels contribute: they never fall as time and distance do.
* `LiveMonitorProofs`. `OneConnectionHolds` for any number of mounts and sockets (`monitor_run` has two of
  each, so that a reconnect followed by a remount is beyond it). `ConnectionInv` adds that a
  mount and its last socket know one another, that all mounts but the last were disposed of, that only
  the cleanup closes a socket, and that the hook says "online" while its socket is open: a late `onclose`
  of an old socket then finds its mount disposed of, and the stale timer finds something to lower.
  `TheScreenIsHonest` and `AlertsAreForgottenLate` for any traffic, tokens, limits, polls and failures.
  `ScreenInv` adds to the connection that the page has its types (`PageTyped`), no moment with more messages than are sent, and
  that the screen is honest where every answer is (`Honest`). For the answers: the rows of the memory are alerts of
  different numbers where numbers differ; those of the database are points of different device, time and level, and the
  cut leaves all of them or as many as the limit (`CutLeaves`), so that an
  answer without an alert was made before it was stored, out of its range, or cut, which is what
  `MayForget` names. The order in which the database lists its rows is any that has each series by time (`Listing`), and that
  there is one is proved from the sorting by time. The
  lemmas under it go through `mergedState`, `vesselsFromTracks`, the device rows and the three `upsert`s, each for any
  list.
* `TrainingProofs`. `BlocksWrapTogether` and `CleanFilesLoad` for any architectures: `WrapInv` says that
  the model, and the one in a checkpoint, is the architecture with all its scales wrapped equally deep,
  and the lemmas under it that injecting finds the same scales through any number of blocks. A key one level deeper
  (`KeyOfWrapped`) is what a nested model leaves in the file of `save_clean_checkpoint`, and any model in that of
  training (`WrappedKeysDiffer`).
  `HistoriesConvert` for any batches, tracks, clocks and bounds: `HistoryInv` says that what was accepted is
  increasing in time and that the buffer is its newest part (`Buffered`), which holds after each state
  of a batch (`LatestStep`, `FoldTableSteps`). `SplitLosesNothing` for any histories,
  lengths, stride and seed, from the length of a history to its windows.

* `ListLemmas`, on which four of the modules above rest: `SortedInOrder` (what `Sorted` lists is the set, once,
  in the order, for any strict total order of a finite set), `InOrderUnique`, `PickedElements` and
  `PickedPlaces` (what a condition leaves of a list), and loops.

A loop over a list (suppression, association, `extend`) is a fold, and folds are recursive. They are reached
without induction over data: `FoldTableExists` gives a table of intermediate results, one for each prefix, that
the loop runs through (`LoopOfTable`), and an invariant of the loop is then carried from 0 to the length by the
least number at which it would fail (`LeastNumber`, `CountsUp`).

What the proofs about `EdgeProcessor` asked of the model: identities are bounded by `MaxTrackId`, a bound of
the model which `Next` observes, because a `CHOOSE` over all numbers is not one of a finite set; the order of
`str(track_id)`, by which the tracker breaks ties (10 comes before 2), is the constant `TextOrder`, of which the
proofs need only that it is a strict total order, and which `MCEdgeProcessor` gives its true value.
`PredictionRecovers` speaks of a deque that is full and holds the states that the predictor wants:
`history_len` of the processor and of the predictor are two settings, and with the first smaller than the
second the predictor is asked and refuses.

Only model-checked:

* liveness (`ReadableStaleLockIsRemoved`, `EveryMessageIsAnswered`, `ThreadsEndAfterStop`,
  `ConnectionGetsSubscribed`, `ConnectIsAnswered`, `SilenceIsNoticed`, `ConnectionComesBack`, `ScreenCatchesUp`):
  TLAPS does not do fairness.

## 5. What is not modelled

* A corrupted cache file (`_read_path`, the backup branch): the program writes its
  files by renaming, so only something outside it can corrupt them.
* The temporary cache file in `EdgeGateway`: only tests pass `temporary=True`;
  `CacheLock` has it.
* The acknowledgement of QoS 1: the gateway counts rc 0 as sent and never waits. The batching of the
  database's client: a write counts as done when `write_event` returns.
* A second device on the same cache or in `EdgeGateway`: keys of different devices
  never meet.
* Neural networks, image arithmetic, training loops, metrics; rounding of floating-point
  numbers; escaping and formatting; configuration; rendering: no state whose order or concurrency
  matters.
* Tokens, origins and the HMAC: they decide whether a request or message is looked at at all.

Limits that are known and not run, because the models show them at a glance: a process that ends
between `os.open` and `os.write` leaves an empty lock file, which counts as held for ever, and so
does one whose pid was given to another process (`lock_pair` has distinct pids and speaks of
files with a pid); a last will has no number, counts as number 0 and shares the key of event 0,
so that one of them is dropped; a thread inside `client.reconnect()` when `stop` gives up waiting
for it connects and subscribes after `stop` has returned; the monitor never shows "critical"
(`riskLevel` does not know it), and alerts do not say which track they are about, so that a vessel's
risk is that of an alert only if its track is named like the device.

## 6. The plan

1. done: `CacheLock` over `AtomicCache`, `EdgeGateway`, `CloudConsumer`,
   `WebSocketManager`, `ConsumerLifecycle`, with the theorems above;
2. done: `CloudQueries`; `Detections`, `Tracker`, `PredictorAdapter`, `RiskEngine` under
   `EdgeProcessor`, and `RiskEncounter`; `RealtimeStatus` under `LiveMonitor`;
   `AttentionInjection` and `TrajectoryData`;
3. done: proofs about the encounter, the realtime connection and the screen of the monitor, the broadcasts of the hub, the order of what the
   edge sends, training, the whole frame loop of the edge, what the latest alerts answer while they change, the
   answers of `CloudQueries`, and the cache through crashes;
4. liveness stays with TLC; no safety property of a run is without a theorem.
