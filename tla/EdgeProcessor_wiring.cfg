SPECIFICATION MCSpec
CONSTANTS
    Device = edge1
    ConfidenceThreshold = 50
    NmsThreshold = 45
    IouThreshold = 30
    MaxMissed = 1
    MaxTrackId = 12
    TextOrder <- MCTextOrder
    HistoryLen = 2
    PredictHistoryLen = 2
    PredictsWorld = TRUE
    UseWorldCoordinate = TRUE
    DefaultStep = 1
    MinInterval = 1
    Publisher = "gateway"
    Frames <- MCFrames
    Faults <- MCFaults
    ClockSteps <- MCClockSteps
    Futures <- MCFutures
    Thresholds <- MCThresholds
    MaxFrames = 4
    MaxFaults = 1
    MaxStepsBack = 1
    Starts <- MCStarts
    Courses <- MCCourses
    Expectations <- MCExpectations
    MaxMoves = 7
    MaxTurns = 1
INVARIANTS
    AlarmsLeaveTheEdge
CHECK_DEADLOCK FALSE
