\* Everything that may fail, together.
CONSTANTS
    a = a
    b = b
    d = d
    dx = dx
    v = v
    w = w
    Paths = {d, dx}
    Contents = {v}
    Absent = Absent
    Gone = Gone
    Depth <- MCDepth
    Under <- MCUnder
    InitialTrees <- MCTrees
    CommandTrees <- MCTrees
    Transactions = {1, 2}
    MaxCrashes = 2
    Faults = {"crash", "power loss", "io error"}
SPECIFICATION Spec
CHECK_DEADLOCK FALSE
INVARIANTS
    HistoryBacked
