CONSTANTS
    Node = {n1, n2, n3}
    Command = {c}
    NoOp = NoOp
    None = None
    AsyncApply = FALSE
    SnapshotThreshold = 1
    MaxBatchEntries = 1
    Links <- AllConnected
    MaxTerm = 2
    MaxLogLength = 0
    MaxInTransit = 2
    MaxTimeouts = 2
    MaxCrashes = 1
SPECIFICATION MCSpec
SYMMETRY Symmetry
CHECK_DEADLOCK FALSE
INVARIANTS
    ElectionSafety
    LeaderCompleteness
PROPERTIES
    DurableStateAdvances
