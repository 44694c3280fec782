SPECIFICATION WatcherSpec
CONSTANTS
    rev = rev
    gat = gat
    fix1 = fix1
    fix2 = fix2
    park1 = park1
    park2 = park2
    wrk = wrk
    trp = trp
    par = par
    chd = chd
    Review = rev
    Gated = gat
    Fixes = {fix1, fix2}
    Parked = {park1, park2}
    Worker = wrk
    Trap = trp
    Parent = par
    Child = chd
    Casts <- AllCasts
    Priority <- PickOrder
    MaxEvents <- LongLimit
    MaxFaults = 0
    MaxMisses = 0
PROPERTY SupersedesItsEpisode
