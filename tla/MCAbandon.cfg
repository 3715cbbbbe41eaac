\* A launch whose exit cannot be watched is abandoned.
CONSTANTS
    Sessions = {1, 2}
    Jobs = {a}
    None = None
    MaxPid = 3
    MayAbandon = TRUE
    MayTimeOut = FALSE
SPECIFICATION Spec
CHECK_DEADLOCK FALSE
INVARIANTS
    KnownDead
