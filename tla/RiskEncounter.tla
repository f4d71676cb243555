---------------------------- MODULE RiskEncounter ----------------------------
(* A target that passes ownship, assessed at every step by the risk engine
   (src/edge/risk/): it keeps its velocity, or turns, and the predictor may
   expect anything of it. *)
EXTENDS RiskEngine

CONSTANTS Starts, Courses,        \* relative positions and velocities
          Expectations,           \* sequences of predicted points, from time 0
          MaxMoves, MaxTurns      \* bounds of the model

Places == Int \X Int
Points == [timestamp : Int, pixel : Places, world : {<<>>} \cup Places]

ASSUME EncounterAssumption ==
    /\ Starts \subseteq Places
    /\ Courses \subseteq [dx : Int, dy : Int, dt : Nat \ {0}]
    /\ Expectations \subseteq Seq(Points)
    /\ {MaxMoves, MaxTurns} \subseteq Nat

VARIABLES position, velocity, moves, turns

encounter == <<position, velocity, moves, turns>>

After(p, v, n) == <<p[1] + n * v.dx, p[2] + n * v.dy>>

EncounterInit ==
    /\ position \in Starts /\ velocity \in Courses
    /\ moves = 0 /\ turns = 0

\* One step of the target takes velocity.dt seconds.
Move ==
    /\ moves < MaxMoves
    /\ moves' = moves + 1
    /\ position' = After(position, velocity, 1)
    /\ UNCHANGED <<velocity, turns>>

Turn ==
    /\ turns < MaxTurns
    /\ turns' = turns + 1
    /\ velocity' \in Courses \ {velocity}
    /\ UNCHANGED <<position, moves>>

EncounterNext == Move \/ Turn

EncounterSpec == EncounterInit /\ [][EncounterNext]_encounter

-----------------------------------------------------------------------------
Line         == CalculateTcpaCpa(position, velocity)
With(points) == Assess(position, velocity, 0, points)
Level(a)    == ClassifyRiskLevel(a.tcpa, a.cpa2, AtScale(Thresholds, a.scale))
Moving      == velocity.dx # 0 \/ velocity.dy # 0

Urgency == [none |-> 0, low |-> 1, medium |-> 2, high |-> 3, critical |-> 4]

\* The closest approach is the least distance of the straight track, in the past
\* and in the future, and is reached at the time given (calculate_tcpa_cpa).
ClosestIsClosest ==
    \A n \in -MaxMoves .. MaxMoves :
       LET distance2 == Square(After(position, velocity, n)) * Line.scale
       IN /\ Line.cpa2 <= distance2
          /\ Line.tcpa = n * velocity.dt * Line.scale => Line.cpa2 = distance2

\* No prediction makes a target look less dangerous than its straight track
\* (evaluate_risk).
PredictionNeverLowersRisk ==
    \A points \in Expectations : Urgency[Level(Line)] <= Urgency[Level(With(points))]

\* An assessment says how near the target comes, or how near it is expected to.
AssessmentIsSound == ClosestIsClosest /\ PredictionNeverLowersRisk

\* While a target keeps its course each assessment agrees with the one before:
\* the distance stays, the time goes down by the time that passed, and before
\* its closest approach the target becomes no less urgent (classify_risk_level).
ApproachIsConsistent ==
    [][(velocity' = velocity /\ Moving) =>
          /\ Line'.cpa2 = Line.cpa2
          /\ Line'.tcpa = Line.tcpa - velocity.dt * Line.scale
          /\ Line'.tcpa >= 0 => Urgency[Level(Line)] <= Urgency[Level(Line')]]_encounter
===============================================================================
