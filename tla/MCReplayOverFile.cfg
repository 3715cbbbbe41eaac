\* A directory replaced by a file of its name, and a crash before End.
CONSTANTS
    a = a
    b = b
    d = d
    dx = dx
    v = v
    w = w
    Paths = {d, dx}
    Contents = {v}
    Absent = Absent
    Gone = Gone
    Depth <- MCDepth
    Under <- MCUnder
    InitialTrees <- MCDirectoryTrees
    CommandTrees <- MCTrees
    Transactions = {1, 2}
    MaxCrashes = 2
    Faults = {"crash"}
SPECIFICATION Spec
CHECK_DEADLOCK FALSE
INVARIANTS
    NeverRefused
