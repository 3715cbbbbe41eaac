\* Two sandboxes of one name, two sizes, a channel of two messages, three calls.
CONSTANTS
    t1 = t1
    t2 = t2
    c1 = c1
    small = small
    large = large
    Callers = {t1, t2}
    Concluder = Concluder
    Clients = {c1}
    Sizes = {small, large}
    InitialSize = small
    None = None
    Capacity = 2
    MaxJobs = 2
    MaxCalls = 3
SPECIFICATION Spec
CHECK_DEADLOCK FALSE
SYMMETRY Symmetry
INVARIANTS
    ClientsAgree
    HandleKept
    OneSize
    NoLostWakeup
