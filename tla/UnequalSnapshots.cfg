CONSTANTS
    Node = {n1, n2, n3}
    Command = {c}
    NoOp = NoOp
    None = None
    AsyncApply = FALSE
    SnapshotThreshold = 2
    MaxBatchEntries = 1
    Links <- AllConnected
    MaxTerm = 1
    MaxLogLength = 3
    MaxInTransit = 2
    MaxTimeouts = 1
    MaxCrashes = 0
SPECIFICATION MCSpec
SYMMETRY Symmetry
CHECK_DEADLOCK FALSE
PROPERTIES
    RejectionMakesProgress
