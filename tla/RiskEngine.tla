------------------------------ MODULE RiskEngine ------------------------------
(* The risk engine of the edge (src/edge/risk/tcpa_cpa.py and risk_engine.py):
   the closed form of the closest approach, the shortest distance to a
   predicted trajectory, and the risk level.

   Positions and displacements are integers and nothing is rounded: an
   assessment [tcpa, cpa2, scale] stands for tcpa / scale seconds to the closest
   approach and the square root of cpa2 / scale metres at it, and thresholds
   are brought to the same scale before they are compared.  Ownship is at the
   origin and does not move, as in every evaluator of the repository. *)
EXTENDS Integers, Sequences

\* RiskThresholds: seconds and metres, none of them negative.
ThresholdNames == {"tcpaAlert", "tcpaCritical", "tcpaHigh", "tcpaLow",
                   "cpaAlert", "cpaCritical", "cpaHigh", "cpaLow"}
RiskThresholds == [ThresholdNames -> Nat]

CONSTANTS Thresholds, UseWorldCoordinate
ASSUME RiskAssumption ==
    Thresholds \in RiskThresholds /\ UseWorldCoordinate \in BOOLEAN

\* should_alert, on times, distances and thresholds of one scale.
ShouldAlert(tcpa, cpa, limits) ==
    /\ 0 <= tcpa /\ tcpa < limits.tcpaAlert
    /\ cpa < limits.cpaAlert

\* classify_risk_level: the most urgent band first.
ClassifyRiskLevel(tcpa, cpa, limits) ==
    IF ~ShouldAlert(tcpa, cpa, limits) THEN "none"
    ELSE IF tcpa < limits.tcpaCritical /\ cpa < limits.cpaCritical THEN "critical"
    ELSE IF tcpa < limits.tcpaHigh \/ cpa < limits.cpaHigh THEN "high"
    ELSE IF tcpa >= limits.tcpaLow /\ cpa >= limits.cpaLow THEN "low"
    ELSE "medium"

AtScale(limits, scale) ==
    [name \in ThresholdNames |->
       IF name \in {"tcpaAlert", "tcpaCritical", "tcpaHigh", "tcpaLow"}
       THEN limits[name] * scale
       ELSE limits[name] * limits[name] * scale]

Dot(p, v)   == p[1] * v.dx + p[2] * v.dy
Cross(p, v) == p[1] * v.dy - p[2] * v.dx
Square(p)   == p[1] * p[1] + p[2] * p[2]

\* calculate_tcpa_cpa: position relative to ownship, velocity dx / dt, dy / dt.
\* The time may be negative: the closest approach is then in the past.  The faulty
\* variant has the wrong sign.
TimeSinceCpa(position, velocity) ==
    LET speed2 == velocity.dx * velocity.dx + velocity.dy * velocity.dy
    IN [tcpa |-> Dot(position, velocity) * velocity.dt,
        cpa2 |-> Cross(position, velocity) * Cross(position, velocity),
        scale |-> IF speed2 = 0 THEN 1 ELSE speed2]
CalculateTcpaCpa(position, velocity) ==
    LET speed2 == velocity.dx * velocity.dx + velocity.dy * velocity.dy
    IN IF speed2 = 0
       THEN [tcpa |-> 0, cpa2 |-> Square(position), scale |-> 1]
       ELSE [tcpa |-> -(Dot(position, velocity) * velocity.dt),
             cpa2 |-> Cross(position, velocity) * Cross(position, velocity),
             scale |-> speed2]

\* _position_from_schema, of a track state or of a predicted point.
Position(source) ==
    IF UseWorldCoordinate /\ source.world # <<>> THEN source.world ELSE source.pixel

\* calculate_min_future_distance: the first of the nearest points that are not
\* in the past, as a sequence of at most one [time, distance2].
NotPast(timestamp, points) == {k \in DOMAIN points : points[k].timestamp >= timestamp}

FirstNearest(points, k, others) ==
    LET distance2(j) == Square(Position(points[j]))
    IN \A j \in others : \/ distance2(k) < distance2(j)
                         \/ distance2(k) = distance2(j) /\ k <= j

MinFutureDistance(timestamp, points) ==
    LET ahead == NotPast(timestamp, points)
        k     == CHOOSE k \in ahead : FirstNearest(points, k, ahead)
    IN IF ahead = {} THEN <<>>
       ELSE <<[time |-> points[k].timestamp - timestamp,
               distance2 |-> Square(Position(points[k]))]>>

\* In the faulty variant the prediction replaces the straight line.
AssessPrediction(position, velocity, timestamp, points) ==
    LET line   == CalculateTcpaCpa(position, velocity)
        future == MinFutureDistance(timestamp, points)
    IN IF future = <<>> THEN line
       ELSE [line EXCEPT !.cpa2 = future[1].distance2 * line.scale,
                         !.tcpa = future[1].time * line.scale]
\* evaluate_risk: the prediction counts only when it comes nearer than the
\* straight line; the earlier of the two times is then taken.
Assess(position, velocity, timestamp, points) ==
    LET line   == CalculateTcpaCpa(position, velocity)
        future == MinFutureDistance(timestamp, points)
    IN IF future # <<>> /\ future[1].distance2 * line.scale < line.cpa2
       THEN LET time == future[1].time * line.scale
            IN [line EXCEPT !.cpa2 = future[1].distance2 * line.scale,
                            !.tcpa = IF time < @ THEN time ELSE @]
       ELSE line

NoPrediction == <<>>

\* evaluate_track_risk raises when the prediction is of another target.
Evaluable(target, prediction) ==
    prediction # NoPrediction =>
        /\ prediction[1].device = target.device
        /\ prediction[1].id = target.id

EvaluateTrackRisk(target, prediction) ==
    LET points == IF prediction = NoPrediction THEN <<>> ELSE prediction[1].points
        a      == Assess(Position(target), target.velocity, target.timestamp, points)
        limits == AtScale(Thresholds, a.scale)
    IN [device |-> target.device, id |-> target.id, timestamp |-> target.timestamp,
        level |-> ClassifyRiskLevel(a.tcpa, a.cpa2, limits),
        alert |-> ShouldAlert(a.tcpa, a.cpa2, limits)]
===============================================================================
