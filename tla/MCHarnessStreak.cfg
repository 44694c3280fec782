SPECIFICATION FairSpec
CONSTANTS
    Cooldown = 2
    Retention = 1
    RetireNights = 3
    StallNights = 2
    MaxFaults = 1
    Casts <- JobSetting
PROPERTY StreakFrozenWhileOff
