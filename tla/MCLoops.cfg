SPECIFICATION LoopsSpec
CONSTANTS
    rev = rev
    gat = gat
    fix1 = fix1
    fix2 = fix2
    park1 = park1
    park2 = park2
    wrk = wrk
    trp = trp
    par = par
    chd = chd
    Review = rev
    Gated = gat
    Fixes = {fix1, fix2}
    Parked = {park1, park2}
    Worker = wrk
    Trap = trp
    Parent = par
    Child = chd
    Casts <- AllCasts
    Priority <- PickOrder
    MaxEvents <- EventLimit
    MaxFaults = 1
    MaxMisses = 1
    MinAge = 1
    Window = 2
    Recency = 3
    Setups <- AllSetups
    MaxCommits <- Commits
    MaxCards <- CardLimit
    MaxLosses <- Losses
INVARIANT OneOpenFix
INVARIANT GateMovesPerCompletion
INVARIANT OneReview
PROPERTY DryRunTakesNothing
PROPERTY DefectGetsFix
PROPERTY TrapsGuarded
PROPERTY DeadlockBroken
PROPERTY GapClosed
PROPERTY HandoffCompleted
PROPERTY DriftCarded
