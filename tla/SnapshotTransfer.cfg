SPECIFICATION FairSpec
CONSTANTS
    Sender = {1, 2}
    MaxIndex = 2
    Byte <- Bytes
    Contents <- Snapshots
    ChunkBytes = 1
    MaxTerm = 2
    MaxFaults = 1
INVARIANTS InstalledWhole AcknowledgedIsApplied
PROPERTIES TransferCompletes
CHECK_DEADLOCK FALSE
