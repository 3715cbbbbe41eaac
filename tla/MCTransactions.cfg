\* Two jobs on one file and the git index, in transactions and on shared trees.
CONSTANTS
    alice = alice
    bob = bob
    a = a
    index = index
    absent = absent
    v = v
    Principals = {alice, bob}
    Jobs = {alice, bob}
    Resources = {a}
    Paths = {a, index}
    Contents = {absent, v}
    Programs <- MCPrograms
    Plans = {"transaction", "bypass"}
    NoCommand = NoCommand
    MaxSeq = 2
    MaxPast = 3
SPECIFICATION MCSpec
SYMMETRY MCSymmetry
CHECK_DEADLOCK FALSE
INVARIANTS
    GenerationsCoverChanges
PROPERTIES
    NoClobber
    ImplementsSerialSeed
