\* Every action, two principals, two files.
CONSTANTS
    alice = alice
    bob = bob
    a = a
    b = b
    Principals = {alice, bob}
    Resources = {a, b}
    NoReader = NoReader
    MaxHistory = 4
    Commands <- MCCommands
SPECIFICATION Spec
SYMMETRY MCSymmetry
CHECK_DEADLOCK FALSE
INVARIANTS
    RowsPartition
    ProjectionDecides
PROPERTIES
    NoSurprise
    OwnerKeepsDirt
    ImplementsRowTable
