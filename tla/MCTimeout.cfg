\* A run whose budget ends after its worker has (README, Known disagreements).
SPECIFICATION TraceSpec
CONSTANTS
    Tids = {1, 2}
    Root = 1
    Calls <- MCCalls
    Builtins <- MCBuiltins
    MayFail = {}
    MaxEdges = 6
INVARIANT
    TimeoutReported
CHECK_DEADLOCK FALSE
