--------------------------- MODULE PredictorAdapter ---------------------------
(* The bridge from the histories of tracks to the learned predictor
   (src/edge/predict/predictor_adapter.py).  What the model computes is not
   looked at: its output is any sequence of positions. *)
EXTENDS Integers, Sequences

CONSTANTS PredictHistoryLen,   \* history_len of the adapter
          PredictsWorld,       \* use_world_coordinate of the adapter
          DefaultStep          \* the interval of a history of one state

ASSUME PredictorAssumption ==
    /\ PredictHistoryLen \in Nat \ {0} /\ DefaultStep \in Nat \ {0}
    /\ PredictsWorld \in BOOLEAN

Recent(history) ==
    SubSeq(history, Len(history) - PredictHistoryLen + 1, Len(history))

Increasing(states) ==
    \A k \in 2 .. Len(states) : states[k - 1].timestamp < states[k].timestamp

\* predict raises on a history that is too short or whose recent timestamps do
\* not increase (_track_states_to_feature_array).
Predictable(history) ==
    /\ Len(history) >= PredictHistoryLen
    /\ Increasing(Recent(history))

\* _track_states_to_feature_array: the coordinates that the rows hold.
ReadsWorld(states) ==
    PredictsWorld /\ \A k \in DOMAIN states : states[k].world # <<>>

\* _infer_dt.
InferStep(states) ==
    LET n == Len(states)
    IN IF n >= 2 /\ states[n].timestamp > states[n - 1].timestamp
       THEN states[n].timestamp - states[n - 1].timestamp
       ELSE DefaultStep

\* _build_trajectory_points: the label depends on the last state alone.
\* The first point is one step ahead.
LabelsWorld(last) == PredictsWorld /\ last.world # <<>>

PredictedPoint(last, timestamp, position) ==
    [timestamp |-> timestamp,
     pixel |-> IF LabelsWorld(last) THEN last.pixel ELSE position,
     world |-> IF LabelsWorld(last) THEN position ELSE <<>>]

PointTime(timestamp, step, k) == timestamp + step * k

Predict(history, timestamp, future) ==
    LET recent == Recent(history)
        last   == recent[Len(recent)]
        step   == InferStep(recent)
    IN [device |-> last.device, id |-> last.id, timestamp |-> timestamp,
        points |-> [k \in DOMAIN future |->
                      PredictedPoint(last, PointTime(timestamp, step, k), future[k])],
        readsWorld |-> ReadsWorld(recent)]
===============================================================================
