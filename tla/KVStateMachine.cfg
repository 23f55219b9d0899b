SPECIFICATION Spec
CONSTANTS
    Replica = {r1, r2}
    Key = {k}
    Value = {x}
    Absent = Absent
    ClientId = {c}
    NoClient = NoClient
    MaxRequestId = 2
    MaxLog = 4
    MaxBatchEntries = 3
INVARIANTS
    TypeOK
    StateIsLastWriter
    RepliesAreExact
CHECK_DEADLOCK FALSE
