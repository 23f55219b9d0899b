CONSTANTS
    Node = {n1, n2, n3}
    Command = {c}
    NoOp = NoOp
    None = None
    AsyncApply = FALSE
    SnapshotThreshold = 0
    MaxBatchEntries = 1
    Links <- AllConnected
    MaxTerm = 4
    MaxLogLength = 0
    MaxInTransit = 1
    MaxTimeouts = 2
    MaxCrashes = 1
SPECIFICATION DivergentSpec
SYMMETRY Symmetry
CHECK_DEADLOCK FALSE
INVARIANTS
    LogMatching
    CommittedOnQuorum
    NoCommittedEntryReplaced
