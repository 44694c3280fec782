SPECIFICATION FairSpec
CONSTANTS
    Cooldown = 2
    Retention = 1
    RetireNights = 3
    StallNights = 2
    MaxFaults = 1
    Casts <- AllSettings
INVARIANT AppliedHasPair
INVARIANT TopicClosesEntry
INVARIANT LifecyclesApart
PROPERTY ErrorEscalates
