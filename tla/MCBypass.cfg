\* Two commands on shared trees, both of which may write to theirs after all;
\* one append may fail, and the session may be restarted once.
CONSTANTS
    Readers = {r1, r2}
    Escapers = {r1, r2}
    Unlisted = Unlisted
    Keys = {"cat"}
    MaxSeq = 2
    MaxUsers = 3
    AppendFaults = 1
    Kills = 1
    Restarts = 1
SPECIFICATION BypassSpec
CHECK_DEADLOCK FALSE
INVARIANTS
    LeasesCounted
    NoneForgotten
    TrustEarned
    Quarantined
PROPERTIES
    OnlyDiscardPulls
