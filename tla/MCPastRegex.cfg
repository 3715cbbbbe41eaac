\* Rules over three principals and one resource, histories of two events.
CONSTANTS
    p1 = p1
    p2 = p2
    p3 = p3
    edit = edit
    read = read
    r1 = r1
    Principals = {p1, p2, p3}
    Actions = {edit, read}
    Resources = {r1}
    Policies <- MCPolicies
    MaxHistory = 2
    MaxMarks = 1
    MaxAtoms = 2
    MaxMinterms = 6
    MaxStates = 3
SPECIFICATION Spec
INVARIANTS
    Decides
    Scoped
CHECK_DEADLOCK FALSE
