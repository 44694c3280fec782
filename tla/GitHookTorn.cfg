SPECIFICATION HookSpec
CONSTANTS
    Operators = {"o1", "o2"}
    UserHooks = {"u1"}
    MaxWrites = 2
    MaxCrashes = 1
INVARIANT ForeignHookKept
