\* An escapee is stopped by force: its run leaves no evidence.
CONSTANTS
    Readers = {r1, r2}
    Escapers = {r1, r2}
    Unlisted = Unlisted
    Keys = {"cat"}
    MaxSeq = 1
    MaxUsers = 3
    AppendFaults = 0
    Kills = 1
    Restarts = 0
SPECIFICATION BypassSpec
CHECK_DEADLOCK FALSE
INVARIANTS
    EveryEscapeQuarantined
