\* One thread that edits a file after staging it (README, Known disagreements).
SPECIFICATION TraceSpec
CONSTANTS
    Tids = {1}
    Root = 1
    Calls <- MCCalls
    Builtins <- MCBuiltins
    MayFail = {}
    MaxEdges = 6
INVARIANT
    LastWordKept
CHECK_DEADLOCK FALSE
