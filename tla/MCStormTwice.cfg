SPECIFICATION StormSpec
CONSTANTS
    s1 = s1
    s2 = s2
    s3 = s3
    l1 = l1
    l2 = l2
    NoLane = NoLane
    NoStorm = NoStorm
    Storms = {s1}
    Cards = {"c1", "c2"}
    Lanes = {l1}
    LaneOf <- GroupLanes
    MinCount = 2
    MaxRecent = 2
    MaxMisses = 1
    MaxRestarts = 0
    MaxMoves = 1
INVARIANT OncePerEpisode
