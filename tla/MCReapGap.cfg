\* Between a reap and its submission, with nothing failing.
CONSTANTS
    Callers = {c1, c2}
    Names = {n}
    Series = {n}
    Concluder = Concluder
    None = None
    Faults = {}
    MaxJobs = 2
    MaxCommands = 2
SPECIFICATION Spec
CHECK_DEADLOCK FALSE
INVARIANTS
    ConclusionsKeepTrees
