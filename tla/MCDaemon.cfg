SPECIFICATION DaemonSpec
CONSTANTS
    BoardOrder <- TwoBoards
    Tasks = {"t1", "t2"}
    TaskOf <- Interleaved
    MaxEvents = 2
    HistoryMayMove = TRUE
    MaxFrame = 2
    Threshold = 1
    MaxFaults = 2
    s1 = s1
    s2 = s2
    s3 = s3
    l1 = l1
    l2 = l2
    Storms = {s1, s2, s3}
    Cards = {"c1", "c2"}
    Lanes = {l1, l2}
    NoLane = NoLane
    NoStorm = NoStorm
    LaneOf <- GroupLanes
    MinCount = 1
    MaxRecent = 1
    MaxMisses = 1
    MaxRestarts = 1
    MaxMoves = 1
INVARIANT CursorCovered
INVARIANT ActionableReserved
INVARIANT AlertsAccounted
INVARIANT HaltsAccounted
PROPERTY FrameIsWhole
PROPERTY EveryEventHandled
PROPERTY StormIsHalted
