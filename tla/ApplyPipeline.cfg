SPECIFICATION FairSpec
CONSTANTS
    MaxBatchEntries = 2
    MaxPending = 3
    MaxIndex = 4
    MaxProposals = 2
INVARIANTS
    AnswersAreTrue
    ExecutorAvailable
    SingleWriter
PROPERTIES
    ProposalsAnswered
    BacklogDrains
    TeardownEnds
