\* A worker and a child, two builtins, six edges of calls and spans.
SPECIFICATION TraceSpec
CONSTANTS
    Tids = {1, 2}
    Root = 1
    Calls <- MCCalls
    Builtins <- MCBuiltins
    MayFail = {"chdir"}
    MaxEdges = 6
INVARIANTS
    EventsExact
    FootprintExact
    RefusedIffIncomplete
    ProgramOrderKept
CHECK_DEADLOCK FALSE
