SPECIFICATION GapFairSpec
CONSTANTS
    MinAge = 1
    Window = 1
    Recency = 2
    Setups <- OneSetup
    MaxCommits <- Commits
    MaxCards <- CardLimit
    MaxLosses <- Losses
CHECK_DEADLOCK FALSE
PROPERTY DriftNeverQuiet
