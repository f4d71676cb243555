--------------------------- MODULE MCEdgeProcessor ---------------------------
(* The instance that TLC checks: either the frame loop of EdgeProcessor or an
   encounter of RiskEncounter.  The boxes A, B and C lie along a line; neighbours
   overlap by one half, A and C by one fifth. *)
EXTENDS EdgeProcessor, RiskEncounter

VARIABLE part

A == <<0, 0, 12, 12>>
B == <<4, 0, 16, 12>>
C == <<8, 0, 20, 12>>

\* As text 10 comes between 1 and 2.
MCText(id)  == IF id < 10 THEN 100 * id ELSE 100 + id
MCTextOrder == {pair \in (0 .. 12) \X (0 .. 12) : MCText(pair[1]) < MCText(pair[2])}

Row(box, conf, class) == [box |-> box, conf |-> conf, class |-> class]
Unlocated(rows)       == [rows |-> rows, located |-> FALSE]
Located(rows)         == [rows |-> rows, located |-> TRUE]

MCFrames ==
    {Unlocated(<<>>), Unlocated(<<Row(A, 90, "ship")>>), Located(<<Row(B, 90, "ship")>>),
     Unlocated(<<Row(C, 80, "ship"), Row(B, 80, "ship"), Row(A, 70, "ship"),
                 Row(C, 40, "buoy")>>),
     Located(<<Row(B, 80, "buoy"), Row(C, 60, "buoy"), Row(A, 90, "ship")>>)}

MCFaults ==
    {{}, {<<"detect", 0>>}, {<<"enhance", 0>>, <<"mqtt_publish", 1>>},
     {<<"predict", 2>>, <<"risk", 1>>}}

MCClockSteps == {-2, 1}
MCFutures    == {<<<<4, 0>>, <<20, 20>>>>}

MCThresholds ==
    [tcpaAlert |-> 6, tcpaCritical |-> 2, tcpaHigh |-> 3, tcpaLow |-> 4,
     cpaAlert |-> 20, cpaCritical |-> 6, cpaHigh |-> 9, cpaLow |-> 14]

MCStarts  == {-18, -4, 5, 12} \X {-12, 0, 3}
MCCourses == [dx : {-3, 0, 2}, dy : {-1, 0, 4}, dt : 1 .. 2]

Expected(time, place) == [timestamp |-> time, pixel |-> place, world |-> <<>>]
MCExpectations ==
    {<<Expected(t, p)>> : t \in {0, 4, 9}, p \in {<<0, 3>>, <<10, 10>>}}
    \cup {<<Expected(1, <<11, 11>>), Expected(5, p)>> : p \in {<<0, 3>>, <<10, 10>>}}

\* The encounter that goes on next to the frames: none.
Unmoved == position = <<5, 0>> /\ velocity = [dx |-> 0, dy |-> 0, dt |-> 1]

MCInit ==
    /\ part \in {"frames", "encounter"}
    /\ Init /\ EncounterInit
    /\ part = "encounter" => simple /\ paced
    /\ part = "frames" => Unmoved

MCNext ==
    \/ part = "frames" /\ Next /\ UNCHANGED <<encounter, part>>
    \/ part = "encounter" /\ EncounterNext /\ UNCHANGED <<vars, part>>

MCSpec == MCInit /\ [][MCNext]_<<vars, encounter, part>>
===============================================================================
