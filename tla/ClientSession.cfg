SPECIFICATION FairSpec
CONSTANTS
    Client <- TwoClients
    Scripts <- Workloads
    MaxInput = 4
    MaxOutput = 2
    MaxCommands = 2
    MaxPerTurn = 2
    MaxEntries = 2
    MaxBytes = 2
    MaxWriteBytes = 3
INVARIANTS RepliesInOrder FlushOnItsWay OneCommandAtATime
PROPERTIES SessionsProgress
