\* Every git builtin, over one file of two contents and one that comes and
\* goes, in commands of at most two events.
CONSTANTS
    v = v
    w = w
    None = None
    Unborn = Unborn
    Paths <- MCPaths
    Dirs <- MCDirs
    SnapshotRoot <- MCRoot
    Contents = {v, w}
    Seeds <- MCSeeds
    Calls <- MCCalls
    Components <- MCComponents
    Edits <- MCEdits
    MaxEvents = 2
    MaxStash = 1
    MaxUnclaimed = 0
SPECIFICATION Spec
CHECK_DEADLOCK FALSE
INVARIANTS
    RefusedLeavesAll
    OnlyNamed
    WorkSurvives
    RowsMatchRepo
