SPECIFICATION FairSpec
CONSTANTS
    MaxQueued = 3
    Kinds = 2
    MaxFaults = 2
INVARIANTS OneAttempt FramesInOrder
PROPERTIES LinkHeals
