\* Everything that may fail, two sandboxes of one name, two commands.
CONSTANTS
    Callers = {c1, c2}
    Names = {n}
    Series = {n}
    Concluder = Concluder
    None = None
    Faults = {"build", "launch", "kill", "terminate"}
    MaxJobs = 2
    MaxCommands = 2
SPECIFICATION Spec
CHECK_DEADLOCK FALSE
INVARIANTS
    TreesKept
PROPERTIES
    CallbacksMatch
    StopCloses
