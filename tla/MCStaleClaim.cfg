\* The read claim, taken by a bypass of a superseded version.
CONSTANTS
    alice = alice
    bob = bob
    a = a
    index = index
    absent = absent
    v = v
    Principals = {alice, bob}
    Jobs = {alice, bob}
    Resources = {a}
    Paths = {a, index}
    Contents = {absent, v}
    Programs <- MCAnnounced
    Plans = {"transaction", "bypass"}
    NoCommand = NoCommand
    MaxSeq = 3
    MaxPast = 5
SPECIFICATION MCSpec
SYMMETRY MCSymmetry
CHECK_DEADLOCK FALSE
PROPERTIES
    LookBeforeWriting
