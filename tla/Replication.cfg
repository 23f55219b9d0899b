CONSTANTS
    Node = {n1, n2, n3}
    Command = {c}
    NoOp = NoOp
    None = None
    AsyncApply = TRUE
    SnapshotThreshold = 2
    MaxBatchEntries = 2
    Links <- AllConnected
    MaxTerm = 1
    MaxLogLength = 2
    MaxInTransit = 2
    MaxTimeouts = 1
    MaxCrashes = 1
SPECIFICATION MCSpec
SYMMETRY Symmetry
CHECK_DEADLOCK FALSE
INVARIANTS
    TypeOK
    StateMachineSafety
    StoresConsistent
    MatchIndexSound
    RequestsAreValid
