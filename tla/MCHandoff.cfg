SPECIFICATION FairSpec
CONSTANTS
    d1 = d1
    d2 = d2
    r1 = r1
    q1 = q1
    t1 = t1
    l1 = l1
    l2 = l2
    NoProc = NoProc
    NoTask = NoTask
    Tasks = {t1}
    LockFiles = {l1, l2}
    MaxDisturbances = 4
    Procs <- AllProcs
    Role <- Roles
    LockOf <- Locks
INVARIANT TypeOK
INVARIANT LockExclusive
INVARIANT RowTellsTheBoard
INVARIANT OneEver
PROPERTY NeverResumed
PROPERTY PromiseSpec
PROPERTY PendingStarts
