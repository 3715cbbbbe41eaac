\* A git builtin that fails half way, inside a command that exits 0.
CONSTANTS
    alice = alice
    bob = bob
    a = a
    index = index
    absent = absent
    v = v
    Principals = {alice, bob}
    Jobs = {alice, bob}
    Resources = {a}
    Paths = {a, index}
    Contents = {absent, v}
    Programs <- MCPrograms
    Plans = {"transaction", "bypass"}
    NoCommand = NoCommand
    MaxSeq = 2
    MaxPast = 3
SPECIFICATION MCSpec
SYMMETRY MCSymmetry
CHECK_DEADLOCK FALSE
PROPERTIES
    DirtIsSafe
