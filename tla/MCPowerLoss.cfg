\* Removals are not synced before End is.
CONSTANTS
    a = a
    b = b
    d = d
    dx = dx
    v = v
    w = w
    Paths = {a, b}
    Contents = {v}
    Absent = Absent
    Gone = Gone
    Depth <- MCDepth
    Under <- MCUnder
    InitialTrees <- MCTrees
    CommandTrees <- MCTrees
    Transactions = {1, 2}
    MaxCrashes = 2
    Faults = {"power loss"}
SPECIFICATION Spec
CHECK_DEADLOCK FALSE
INVARIANTS
    OpenIsWhole
