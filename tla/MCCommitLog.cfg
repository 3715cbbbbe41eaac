\* Crashes anywhere in publication and recovery: what is a file may become a
\* directory of its name, and every start comes to an end.
CONSTANTS
    a = a
    b = b
    d = d
    dx = dx
    v = v
    w = w
    Paths = {d, dx, a}
    Contents = {v, w}
    Absent = Absent
    Gone = Gone
    Depth <- MCDepth
    Under <- MCUnder
    InitialTrees <- MCFileTrees
    CommandTrees <- MCDirectoryTrees
    Transactions = {1, 2}
    MaxCrashes = 3
    Faults = {"crash"}
SPECIFICATION Spec
CHECK_DEADLOCK FALSE
INVARIANTS
    OpenIsWhole
PROPERTIES
    Restarts
    ImplementsAtomicSeed
