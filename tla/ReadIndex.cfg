SPECIFICATION Spec
CONSTANTS
    Peer = {1, 2}
    Flaky = {1}
    Client = {3, 4}
    Lease = TRUE
    Pipeline <- Reads
    MaxIndex = 3
    MaxPendingReads = 2
    MaxFaults = 1
INVARIANTS ReadsAreFresh ReadsQueuedOnce ReadsOnTheirWay
CHECK_DEADLOCK FALSE
