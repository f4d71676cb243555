----------------------------- MODULE MCTraining -----------------------------
(* The two training scripts, of which one is run: a detector with attention
   (AttentionInjection) or a trajectory predictor (TrajectoryData). *)
EXTENDS AttentionInjection, TrajectoryData

VARIABLE script

training == <<vars, trajectoryVars, script>>

Layer(channels, head) == [channels |-> channels, head |-> head, blocks |-> 0]

\* A neck of three scales with layers before their last ones, one with a channel
\* count out of bounds, and one with two scales, where nothing is injected.
MCArchitectures ==
    {<<Layer(64, FALSE), Layer(64, FALSE), Layer(128, FALSE), Layer(128, FALSE),
       Layer(256, FALSE), Layer(0, TRUE)>>,
     <<Layer(32, FALSE), Layer(64, FALSE), Layer(600, FALSE), Layer(128, FALSE),
       Layer(64, FALSE), Layer(256, FALSE), Layer(0, TRUE)>>,
     <<Layer(64, FALSE), Layer(128, FALSE), Layer(0, TRUE)>>}

State(track, time, world, v) == [track |-> track, time |-> time, world |-> world, v |-> v]

\* States of three tracks, some of which are refused: too old, or at a time that
\* is there already, at the start, in the middle and across batches.
MCBatches ==
    {<<State("a", 1, TRUE, 1), State("a", 2, TRUE, 1), State("a", 3, FALSE, 2)>>,
     <<State("a", 3, TRUE, 3), State("b", 1, TRUE, 0)>>,
     <<State("b", 1, TRUE, 0), State("b", 2, FALSE, 1)>>,
     <<State("a", 4, TRUE, 1), State("b", 3, TRUE, 1), State("b", 2, TRUE, 1),
       State("a", 5, TRUE, 1)>>,
     <<State("a", 6, TRUE, 1), State("a", 7, TRUE, 0)>>,
     <<State("c", 2, TRUE, 1), State("c", 4, TRUE, 2), State("c", 5, TRUE, 2)>>}

MCInit ==
    /\ script \in {"detection", "trajectory"}
    /\ Init /\ TrajectoryInit

MCNext ==
    \/ script = "detection" /\ Next /\ UNCHANGED <<trajectoryVars, script>>
    \/ script = "trajectory" /\ TrajectoryNext /\ UNCHANGED <<vars, script>>

MCSpec == MCInit /\ [][MCNext]_training
=============================================================================
