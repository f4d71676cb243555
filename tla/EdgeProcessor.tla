---------------------------- MODULE EdgeProcessor ----------------------------
(* The frame loop of the edge (src/edge/edge_processor_v2.py): detector,
   tracker, predictor, risk evaluator and publisher, composed as run_edge.py
   and run_demo.py compose them.  A frame is processed by one thread and shares
   nothing with another, so that process_frame is one action; what can go wrong
   inside is the failure of any stage, and the clock, which is time.time and
   may be set back between two frames. *)
EXTENDS Tracker, RiskEngine, PredictorAdapter

CONSTANTS
    Device,
    HistoryLen,     \* history_len of the processor: the maxlen of its deques
    MinInterval,    \* 1 / fps
    Publisher,      \* what mqtt_publisher is: "none", "adapter" or "gateway"
    Frames,         \* what a detector can see: [rows, located]
    Faults,         \* sets of stages <<stage, position>> that fail in a frame
    ClockSteps,     \* how far the clock can move between two frames
    Futures,        \* what the model can predict: sequences of positions
    MaxFrames, MaxFaults, MaxStepsBack   \* bounds of the model

ASSUME ProcessorAssumption ==
    /\ HistoryLen \in Nat \ {0} /\ MinInterval \in Nat \ {0}
    /\ Publisher \in {"none", "adapter", "gateway"}
    /\ {MaxFrames, MaxFaults, MaxStepsBack} \subseteq Nat
    /\ Frames \subseteq [rows : Seq(Rows), located : BOOLEAN]
    /\ Faults \subseteq SUBSET (STRING \X Nat)
    /\ ClockSteps \subseteq Int /\ Futures \subseteq Seq(Place)

VARIABLES
    simple,      \* built without a tracker: positions in the list are identities
    paced,       \* driven by run, which sleeps, and not frame by frame
    tracker,     \* the IoUTracker
    history,     \* _history
    seq,         \* _seq
    last,        \* last_start of run, as a sequence of at most one
    now,         \* the clock
    result,      \* the last FrameProcessingResult
    published,   \* the events the publisher took
    \* what the properties remember; the code has none of it
    frame, faulty, back, raises, unsent, lastSeen, steady

code == <<simple, paced, tracker, history, seq, last, now, result, published>>
past == <<frame, faulty, back, raises, unsent, lastSeen, steady>>
vars == <<code, past>>

NoResult == [timestamp |-> 0, rows |-> <<>>, before |-> <<>>, detections |-> <<>>,
             tracks |-> <<>>, predictions |-> <<>>, risks |-> <<>>,
             events |-> <<>>, errors |-> {}, faults |-> {}]

Init ==
    /\ simple \in BOOLEAN /\ paced \in BOOLEAN
    /\ \E fallback \in BOOLEAN : tracker = NewTracker(fallback)
    /\ simple => ~tracker.fallback
    /\ history = <<>> /\ seq = 0 /\ last = <<>> /\ now = 1
    /\ result = NoResult /\ published = <<>>
    /\ frame = 0 /\ faulty = 0 /\ back = 0 /\ raises = 0 /\ unsent = 0
    /\ lastSeen = <<>> /\ steady = <<>>

\* run sleeps until MinInterval after the last start, by the same clock: a
\* clock that was set back makes it sleep so much longer.
StartOfFrame(reading) ==
    IF paced /\ last # <<>> /\ reading - last[1] < MinInterval
    THEN last[1] + MinInterval
    ELSE reading

\* Detectors other than YOLO (the one of run_demo) also give world coordinates.
Detect(input, timestamp) ==
    LET found == DetectionsFrom(input.rows, Device, timestamp)
    IN IF input.located
       THEN Listed([k \in DOMAIN found |-> [found[k] EXCEPT !.world = found[k].pixel]])
       ELSE found

\* SimpleTracker.
SimpleUpdate(detections, timestamp) ==
    [tracker |-> tracker,
     states |-> Listed([k \in DOMAIN detections |->
                          StateFrom(detections[k], k - 1, Still, timestamp)]),
     raised |-> FALSE]

\* deque(maxlen=history_len), one for each identity, never removed.  The faulty
\* variants have no bound, and keep the oldest.
KeepAll(h)    == h
KeepOldest(h) == SubSeq(h, 1, Smaller(Len(h), HistoryLen))
Kept(h) == IF Len(h) > HistoryLen THEN SubSeq(h, Len(h) - HistoryLen + 1, Len(h)) ELSE h
Past(histories, id) == IF id \in DOMAIN histories THEN histories[id] ELSE <<>>
Appended(histories, states) ==
    LET new(id) == Picked(states, {k \in DOMAIN states : states[k].id = id})
    IN Over([id \in {states[k].id : k \in DOMAIN states} |->
                Kept(Past(histories, id) \o new(id))],
            histories)

\* _make_alarm_event; every risk becomes an alarm, whether it alerts or not.
AlarmOf(risk, number) ==
    [seq |-> number, id |-> risk.id, level |-> risk.level, alert |-> risk.alert,
     timestamp |-> risk.timestamp]

\* mqtt_publisher.publish: MqttGateway has publish_event and no publish, so
\* that run_edge, which passes the gateway itself, gets an error for each alarm.
CanPublish == Publisher # "gateway"

\* The stages of process_frame.  One that fails leaves its fallback and, in
\* Errors, its error; the loop over the tracks goes on.
Detected(input, faults, timestamp) ==
    IF <<"detect", 0>> \in faults THEN <<>> ELSE Detect(input, timestamp)

Tracked(detections, timestamp) ==
    IF simple THEN SimpleUpdate(detections, timestamp)
    ELSE Update(tracker, detections, timestamp)

\* Only a full deque is predicted from.
Full(past_) == Len(past_) >= HistoryLen

\* _maybe_predict.
MaybePredict(states, fails, timestamp, future) ==
    IF Full(states) /\ Predictable(states) /\ ~fails
    THEN <<Predict(states, timestamp, future)>>
    ELSE NoPrediction

\* For each track a sequence of at most one prediction, then of one assessment.
Predictions(tracks, histories, faults, timestamp, future) ==
    Listed([k \in DOMAIN tracks |->
              MaybePredict(histories[tracks[k].id], <<"predict", k>> \in faults,
                           timestamp, future)])

Risks(tracks, predictions, faults) ==
    Listed([k \in DOMAIN tracks |->
              IF Evaluable(tracks[k], predictions[k]) /\ <<"risk", k>> \notin faults
              THEN <<EvaluateTrackRisk(tracks[k], predictions[k])>>
              ELSE <<>>])

\* The alarms that are not published.
Refused(alarms, faults) ==
    {j \in DOMAIN alarms :
        Publisher # "none" /\ (~CanPublish \/ <<"mqtt_publish", j>> \in faults)}

Errors(faults, update, histories, predictions, risks) ==
    {f \in faults : f[1] \in {"enhance", "detect"}}
    \cup (IF update.raised THEN {<<"track", 0>>} ELSE {})
    \cup {<<"predict", k>> : k \in {i \in DOMAIN predictions :
                                      /\ Full(histories[update.states[i].id])
                                      /\ predictions[i] = NoPrediction}}
    \cup {<<"risk", k>> : k \in {i \in DOMAIN risks : risks[i] = <<>>}}
    \cup {<<"mqtt_publish", j>> : j \in Refused(Made(risks), faults)}

\* What the properties remember of a frame: when an identity was last seen, and
\* how many of its last states came with increasing timestamps.
Grows(id, timestamp) ==
    /\ id \in DOMAIN history
    /\ history[id][Len(history[id])].timestamp < timestamp
Remember(r) ==
    LET ids == {r.tracks[k].id : k \in DOMAIN r.tracks}
    IN /\ frame' = frame + 1
       /\ lastSeen' = IF r.detections = <<>> THEN lastSeen
                      ELSE Over([id \in ids |-> frame + 1], lastSeen)
       /\ steady' = Over([id \in ids |->
                             IF Grows(id, r.timestamp) THEN steady[id] + 1 ELSE 1],
                         steady)

\* _seq counts every alarm, in the faulty variant those that were published.
CountSent(r, sent) == Len(sent)
Counted(r, sent)   == Len(r.events)

\* The fields that a frame leaves behind.
Finish(update, histories, r) ==
    LET refused == {j \in DOMAIN r.events : <<"mqtt_publish", j>> \in r.errors}
        sent    == Picked(r.events, (DOMAIN r.events) \ refused)
    IN /\ tracker' = update.tracker
       /\ history' = histories
       /\ seq' = seq + Counted(r, sent)
       /\ last' = <<r.timestamp>>
       /\ now' = r.timestamp
       /\ result' = r
       /\ published' = IF Publisher = "none" THEN published ELSE published \o sent
       /\ unsent' = unsent + Cardinality(refused)
       /\ raises' = IF update.raised THEN raises + 1 ELSE raises
       /\ Remember(r)
       /\ UNCHANGED <<simple, paced>>

\* process_frame, by itself or as the body of run: a stage after the other.
ProcessFrame(input, faults, step, future) ==
    \E timestamp \in {StartOfFrame(now + step)} :
    \E detections \in {Detected(input, faults, timestamp)} :
    \E update \in {Tracked(detections, timestamp)} :
    \E histories \in {Appended(history, update.states)} :
    \E predictions \in
          {Predictions(update.states, histories, faults, timestamp, future)} :
    \E risks \in {Risks(update.states, predictions, faults)} :
    \E alarms \in {Made(risks)} :
       Finish(update, histories,
              [timestamp |-> timestamp, rows |-> input.rows, before |-> tracker.tracks,
               detections |-> detections, tracks |-> update.states,
               predictions |-> Made(predictions), risks |-> alarms,
               events |-> [j \in DOMAIN alarms |-> AlarmOf(alarms[j], seq + j - 1)],
               errors |-> Errors(faults, update, histories, predictions, risks),
               faults |-> faults])

Next ==
    \E input \in Frames, faults \in Faults, step \in ClockSteps, future \in Futures :
       /\ frame < MaxFrames /\ tracker.next + Len(input.rows) <= MaxTrackId + 1
       /\ faults # {} => faulty < MaxFaults
       /\ step < 0 => back < MaxStepsBack
       /\ now + step >= 0
       /\ faulty' = IF faults = {} THEN faulty ELSE faulty + 1
       /\ back' = IF step < 0 THEN back + 1 ELSE back
       /\ ProcessFrame(input, faults, step, future)

Spec == Init /\ [][Next]_vars

-----------------------------------------------------------------------------
\* Each variable has its type.
TypeOK ==
    /\ simple \in BOOLEAN /\ paced \in BOOLEAN
    /\ tracker.next \in Nat \ {0} /\ tracker.fallback \in BOOLEAN
    /\ DOMAIN tracker.tracks \subseteq Identities
    /\ \A id \in DOMAIN tracker.tracks :
          tracker.tracks[id].state.id = id /\ tracker.tracks[id].missed \in 0 .. MaxMissed
    /\ DOMAIN history \subseteq Identities
    /\ \A id \in DOMAIN history : Len(history[id]) \in 1 .. HistoryLen
    /\ seq \in Nat /\ now \in Nat /\ Len(last) <= 1
    /\ {frame, faulty, back, raises, unsent} \subseteq Nat

\* Of two detections of a class that overlap the more confident one is kept, and
\* every confident row is kept or covered by such a one (non_max_suppression).
KeptCoverSuppressed ==
    LET kept == result.detections
    IN /\ \A i, j \in DOMAIN kept :
             i # j /\ kept[i].class = kept[j].class
                => ~Exceeds(Iou(kept[i].box, kept[j].box), NmsThreshold)
       /\ <<"detect", 0>> \notin result.faults =>
             \A n \in DOMAIN result.rows :
                LET row == result.rows[n]
                IN Confident(row) =>
                      \E i \in DOMAIN kept :
                         /\ kept[i].class = row.class /\ kept[i].conf >= row.conf
                         /\ \/ kept[i].box = row.box
                            \/ Exceeds(Iou(row.box, kept[i].box), NmsThreshold)

\* The association is one to one and stable: a detection and a track that fit
\* are matched with each other, or one of them with another that fits no worse
\* (_match_detections).
NoBlockingPair ==
    LET matched(i) == result.tracks[i].id
        fit(i, id) == Overlap(result.before, result.detections, <<i, id>>)
    IN (~simple /\ result.detections # <<>>) =>
          /\ \A i, j \in DOMAIN result.tracks : matched(i) = matched(j) => i = j
          /\ \A pair \in Candidates(result.before, result.detections) :
                \E other \in Candidates(result.before, result.detections) :
                   /\ other[1] = pair[1] \/ other[2] = pair[2]
                   /\ matched(other[1]) = other[2]
                   /\ ~IouLess(fit(other[1], other[2]), fit(pair[1], pair[2]))

\* A track that is kept has missed as many frames as went by since it was last
\* detected, but for those in which the fallback raised before its turn, and an
\* identity seen so recently is still there.
MissedCountsFrames ==
    ~simple =>
       /\ \A id \in DOMAIN tracker.tracks :
             LET gap == frame - lastSeen[id]
             IN tracker.tracks[id].missed \in gap - raises .. gap
       /\ \A id \in DOMAIN lastSeen :
             frame - lastSeen[id] <= MaxMissed => id \in DOMAIN tracker.tracks

\* Under IoUTracker the history of an identity is that of one target: the states
\* that the predictor gets together are of one class.
OneTargetPerIdentity ==
    ~simple => \A id \in DOMAIN history :
                  \A j, k \in DOMAIN history[id] :
                     history[id][j].class = history[id][k].class

\* What a track stands for: its target is matched as well as possible, aged by
\* the frames it is missing from, and never another one.
TracksFollowTargets == NoBlockingPair /\ MissedCountsFrames /\ OneTargetPerIdentity

\* An identity that is dropped never comes back, and a new one was never used
\* (_allocate_track_id).
IdentitiesNeverReused ==
    [][\A id \in DOMAIN tracker'.tracks :
          id \notin DOMAIN tracker.tracks => id \notin DOMAIN lastSeen]_vars

\* A clock that was set back spoils the prediction of a track only until its
\* window has turned over: with a full deque and enough states in order the
\* track is predicted, whatever came before.
PredictionRecovers ==
    \A k \in DOMAIN result.tracks :
       LET id == result.tracks[k].id
       IN /\ Len(history[id]) >= Larger(HistoryLen, PredictHistoryLen)
          /\ steady[id] >= PredictHistoryLen
          /\ <<"predict", k>> \notin result.faults
          => \E j \in DOMAIN result.predictions : result.predictions[j].id = id

\* A prediction is about the future: its points come after the frame, in order.
PredictedPointsFollow ==
    \A j \in DOMAIN result.predictions :
       LET points == result.predictions[j].points
       IN \A k \in DOMAIN points :
             points[k].timestamp > (IF k = 1 THEN result.timestamp
                                    ELSE points[k - 1].timestamp)

\* A track that was located in all of its frames, or in none, is predicted in the
\* coordinates that the model read (_build_trajectory_points).
LocatedAlike(states) ==
    \A j, k \in DOMAIN states : (states[j].world = NoWorld) <=> (states[k].world = NoWorld)
PredictedWhereItLooked ==
    \A j \in DOMAIN result.predictions :
       LET p == result.predictions[j]
       IN LocatedAlike(Recent(history[p.id])) =>
             \A k \in DOMAIN p.points : (p.points[k].world # NoWorld) <=> p.readsWorld

\* What the processor gets of the predictor through failures, misses and clocks
\* that were set back.
PredictionsAreSound ==
    PredictionRecovers /\ PredictedPointsFollow /\ PredictedWhereItLooked

\* The failure of a stage takes no alarm of another track with it: each track of
\* the frame has one alarm, unless its own assessment failed.
EveryTrackIsAssessed ==
    \A k \in DOMAIN result.tracks :
       Cardinality({j \in DOMAIN result.events :
                       result.events[j].id = result.tracks[k].id})
          = (IF <<"risk", k>> \in result.errors THEN 0 ELSE 1)

\* Numbers are given once and in order, and each one is of an alarm that was
\* published or whose publication is among the errors of its frame.
SequenceAccountsForAlarms ==
    /\ \A k \in 2 .. Len(published) : published[k - 1].seq < published[k].seq
    /\ Publisher # "none" => seq = Len(published) + unsent

\* Every target has its alarm and every alarm its number, whichever stages fail.
AlarmsAreComplete == EveryTrackIsAssessed /\ SequenceAccountsForAlarms

\* Stated by run_edge.py: with a broker the pipeline publishes its alarms.
AlarmsLeaveTheEdge ==
    result.faults = {} => \A e \in DOMAIN result.events :
                             \E k \in DOMAIN published : published[k] = result.events[e]

===============================================================================
