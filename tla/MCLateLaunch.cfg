\* Two sandboxes under two names, two commands; kills may fail.
CONSTANTS
    Callers = {c1}
    Names = {n, m}
    Series = {}
    Concluder = Concluder
    None = None
    Faults = {"kill"}
    MaxJobs = 2
    MaxCommands = 2
SPECIFICATION ShutdownSpec
CHECK_DEADLOCK FALSE
INVARIANTS
    OutstandingTerminated
