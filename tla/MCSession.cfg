\* Two sessions of one job: a tracer, a worker and a descendant, or two tracers.
CONSTANTS
    Sessions = {1, 2}
    Jobs = {a}
    None = None
    MaxPid = 3
    MayAbandon = TRUE
    MayTimeOut = TRUE
SPECIFICATION Spec
CHECK_DEADLOCK FALSE
INVARIANTS
    OneOwner
    NoStragglers
    QuietTree
PROPERTIES
    OrphansDie
