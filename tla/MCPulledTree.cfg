\* The discard of an escapee deletes a tree of its version taken meanwhile.
CONSTANTS
    Readers = {r1, r2}
    Escapers = {r1, r2}
    Unlisted = Unlisted
    Keys = {"cat"}
    MaxSeq = 1
    MaxUsers = 3
    AppendFaults = 0
    Kills = 0
    Restarts = 0
SPECIFICATION BypassSpec
CHECK_DEADLOCK FALSE
PROPERTIES
    NeverPulled
