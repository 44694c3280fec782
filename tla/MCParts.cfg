SPECIFICATION PartsSpec
CONSTANTS
    Boards <- AllBoards
    MaxFaults = 1
    Identities = {"g1", "g2"}
    Topics = {"t1"}
    MaxMerges = 2
    MaxClock = 2
    MaxUnread = 1
    MaxId = 3
    MaxCount = 3
    Operators = {"o1", "o2"}
    UserHooks = {"u1", "u2"}
    MaxWrites = 3
    MaxCrashes = 2
    Callers = {"c1", "c2"}
    AdmissionKeys = {"k1"}
    MaxKilled = 2
INVARIANT ToldOnce
INVARIANT CursorStandsOnHandled
INVARIANT UserHookKept
INVARIANT BlindSpotQueued
INVARIANT EvidenceBeforeDispatch
INVARIANT PolicyIsStable
PROPERTY OnlyResetsGoBack
PROPERTY UninstallRestores
PROPERTY EvidenceIsFinal
PROPERTY BoardTold
