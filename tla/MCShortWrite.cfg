\* A write that fails half way, the session going on, and a stop.
CONSTANTS
    a = a
    b = b
    d = d
    dx = dx
    v = v
    w = w
    Paths = {a}
    Contents = {v, w}
    Absent = Absent
    Gone = Gone
    Depth <- MCDepth
    Under <- MCUnder
    InitialTrees <- MCTrees
    CommandTrees <- MCTrees
    Transactions = {1, 2}
    MaxCrashes = 1
    Faults = {"crash", "io error"}
SPECIFICATION Spec
CHECK_DEADLOCK FALSE
INVARIANTS
    NeverRefused
