------------------------------- MODULE Tracker -------------------------------
(* The tracker of the edge (src/edge/track/tracker.py): IoUTracker.update with
   greedy association by overlap, ageing of the tracks that were not seen, and
   the constant velocity fallback for frames without detections.

   A tracker is a record [tracks, next, fallback]: _tracks, _next_track_id, and
   whether it was built with a fallback and emit_predictions_on_miss.  The keys
   of the dict are in the order of insertion, which is that of the identities. *)
EXTENDS Detections

CONSTANTS IouThreshold,   \* percent
          MaxMissed,
          MaxTrackId,     \* bound: the last identity
          TextOrder       \* <<i, j>> when str(i) is before str(j)

Identities == 0 .. MaxTrackId

ASSUME TrackerAssumption ==
    /\ IouThreshold \in 0 .. 100 /\ MaxMissed \in Nat /\ MaxTrackId \in Nat
    /\ \A i, j, k \in Identities :
          /\ <<i, i>> \notin TextOrder
          /\ <<i, j>> \in TextOrder /\ <<j, k>> \in TextOrder => <<i, k>> \in TextOrder
          /\ i = j \/ <<i, j>> \in TextOrder \/ <<j, i>> \in TextOrder

NewTracker(fallback) == [tracks |-> <<>>, next |-> 1, fallback |-> fallback]

Still == [dx |-> 0, dy |-> 0, dt |-> 1]

\* _velocity_from_detection: dx / dt and dy / dt, in the unit of the world when
\* both ends have a world coordinate and in pixels otherwise.
VelocityFrom(previous, detection, timestamp) ==
    LET dt    == timestamp - previous.timestamp
        world == previous.world # NoWorld /\ detection.world # NoWorld
        old   == IF world THEN previous.world ELSE previous.pixel
        new   == IF world THEN detection.world ELSE detection.pixel
    IN IF dt <= 0 THEN Still
       ELSE [dx |-> new[1] - old[1], dy |-> new[2] - old[2], dt |-> dt]

\* _state_from_detection; the processor always gives the timestamp.
StateFrom(detection, id, velocity, timestamp) ==
    [device |-> detection.device, id |-> id, timestamp |-> timestamp,
     box |-> detection.box, class |-> detection.class, pixel |-> detection.pixel,
     world |-> detection.world, velocity |-> velocity]

\* _ActiveTrack.from_state and to_state.
Active(state, missed) == [state |-> state, missed |-> missed]

\* ConstantVelocityFallback.predict, on the grid of the coordinates: it raises
\* when the clock is behind the state.
CanPredict(state, timestamp) == timestamp >= state.timestamp
Moved(state, timestamp) ==
    LET dt    == timestamp - state.timestamp
        dx    == (state.velocity.dx * dt) \div state.velocity.dt
        dy    == (state.velocity.dy * dt) \div state.velocity.dt
        at(p) == <<p[1] + dx, p[2] + dy>>
    IN [state EXCEPT !.timestamp = timestamp,
                     !.box = <<@[1] + dx, @[2] + dy, @[3] + dx, @[4] + dy>>,
                     !.pixel = at(@),
                     !.world = IF @ = NoWorld THEN NoWorld ELSE at(@)]

\* _can_match
CanMatch(state, detection) ==
    /\ state.device = detection.device
    /\ state.class = detection.class

Overlap(tracks, detections, pair) ==
    Iou(tracks[pair[2]].state.box, detections[pair[1]].box)

Candidates(tracks, detections) ==
    {pair \in (DOMAIN detections) \X (DOMAIN tracks) :
        /\ CanMatch(tracks[pair[2]].state, detections[pair[1]])
        /\ Reaches(Overlap(tracks, detections, pair), IouThreshold)}

\* candidates.sort(reverse=True) on (iou, str(track_id), detection_index).  The
\* faulty variant sorts upwards.
WorstFirst(tracks, detections, p, q) ==
    LET a == Overlap(tracks, detections, p)
        b == Overlap(tracks, detections, q)
    IN \/ IouLess(a, b)
       \/ ~IouLess(b, a) /\ (<<p[2], q[2]>> \in TextOrder \/ (p[2] = q[2] /\ p[1] < q[1]))
Preferred(tracks, detections, p, q) ==
    LET a == Overlap(tracks, detections, p)
        b == Overlap(tracks, detections, q)
    IN \/ IouLess(b, a)
       \/ ~IouLess(a, b) /\ (<<q[2], p[2]>> \in TextOrder \/ (p[2] = q[2] /\ p[1] > q[1]))

\* _match_detections: pairs <<detection, identity>>, the best overlap first.
Take(matches, pair) ==
    IF \E m \in matches : m[1] = pair[1] \/ m[2] = pair[2] THEN matches
    ELSE matches \cup {pair}
MatchDetections(tracks, detections) ==
    LET preferred(p, q) == Preferred(tracks, detections, p, q)
    IN FoldLeft(Take, {}, Sorted(Candidates(tracks, detections), preferred))

\* _age_unmatched_tracks: one more frame missed, or dropped.
Aged(tracks, ids) ==
    LET lost == {id \in ids : tracks[id].missed + 1 > MaxMissed}
    IN [id \in DOMAIN tracks \ lost |->
          IF id \in ids THEN Active(tracks[id].state, tracks[id].missed + 1)
          ELSE tracks[id]]

\* _allocate_track_id: the first new identity; the faulty variant takes the first
\* one above those in use.
AboveInUse(tracker) ==
    IF tracker.tracks = <<>> THEN 1
    ELSE 1 + CHOOSE id \in DOMAIN tracker.tracks :
                \A other \in DOMAIN tracker.tracks : other <= id
FirstNew(tracker) == tracker.next

\* The identities of the detections: a new one for each that is not matched, in
\* the order of the list.
Unmatched(matches, n) == {j \in 1 .. n : \A m \in matches : m[1] # j}
IdentityOf(tracker, matches, i) ==
    IF i \in Unmatched(matches, i)
    THEN FirstNew(tracker) + Cardinality(Unmatched(matches, i)) - 1
    ELSE (CHOOSE m \in matches : m[1] = i)[2]

\* _state_from_detection with the track that was matched, if there was one.
Associated(tracks, detection, id, timestamp) ==
    StateFrom(detection, id,
              IF id \in DOMAIN tracks
              THEN VelocityFrom(tracks[id].state, detection, timestamp)
              ELSE Still,
              timestamp)

\* The tracks that these states make.
Seen(states) ==
    [id \in {states[k].id : k \in DOMAIN states} |->
       Active(states[CHOOSE k \in DOMAIN states : states[k].id = id], 0)]

\* update with detections.
Associate(tracker, detections, timestamp) ==
    LET tracks  == tracker.tracks
        matches == MatchDetections(tracks, detections)
        states  == Listed([i \in DOMAIN detections |->
                      Associated(tracks, detections[i], IdentityOf(tracker, matches, i),
                                 timestamp)])
        unseen  == {id \in DOMAIN tracks : \A m \in matches : m[2] # id}
    IN [tracker |->
          [tracks   |-> Over(Seen(states), Aged(tracks, unseen)),
           next     |-> FirstNew(tracker)
                          + Cardinality(Unmatched(matches, Len(detections))),
           fallback |-> tracker.fallback],
        states |-> states,
        raised |-> FALSE]

\* _handle_missing_frame.  The fallback raises at the first track that is ahead
\* of the clock: the tracks before it are aged, it and the rest are not.
Surviving(tracks) == {id \in DOMAIN tracks : tracks[id].missed + 1 <= MaxMissed}
Ahead(tracker, timestamp) ==
    {id \in Surviving(tracker.tracks) :
        tracker.fallback /\ ~CanPredict(tracker.tracks[id].state, timestamp)}
Reached(tracker, timestamp) ==
    {id \in DOMAIN tracker.tracks : \A a \in Ahead(tracker, timestamp) : id < a}

AgedAndMoved(tracker, timestamp) ==
    LET reached == Reached(tracker, timestamp)
        aged    == Aged(tracker.tracks, reached)
    IN [id \in DOMAIN aged |->
          IF tracker.fallback /\ id \in reached
          THEN Active(Moved(aged[id].state, timestamp), aged[id].missed)
          ELSE aged[id]]

HandleMissingFrame(tracker, timestamp) ==
    LET after   == AgedAndMoved(tracker, timestamp)
        raised  == Ahead(tracker, timestamp) # {}
        emitted == Upwards(Surviving(tracker.tracks))
    IN [tracker |-> [tracks |-> after, next |-> tracker.next,
                     fallback |-> tracker.fallback],
        states |-> IF tracker.fallback /\ ~raised
                   THEN Listed([k \in DOMAIN emitted |-> after[emitted[k]].state])
                   ELSE <<>>,
        raised |-> raised]

\* IoUTracker.update.
Update(tracker, detections, timestamp) ==
    IF detections = <<>>
    THEN HandleMissingFrame(tracker, timestamp)
    ELSE Associate(tracker, detections, timestamp)
===============================================================================
