\* A job that is spawned and a command submitted to it before it is built.
CONSTANTS
    t1 = t1
    t2 = t2
    c1 = c1
    small = small
    large = large
    Callers = {t1, t2}
    Concluder = Concluder
    Clients = {}
    Sizes = {small}
    InitialSize = small
    None = None
    Capacity = 1
    MaxJobs = 1
    MaxCalls = 2
SPECIFICATION Spec
CHECK_DEADLOCK FALSE
INVARIANT
    ReservationsCleared
