SPECIFICATION Spec
CONSTANTS
    Command = {x, y}
    None = None
    MaxIndex = 3
    MaxTerm = 2
INVARIANTS
    TypeOK
    RecoverySucceeds
    MemoryMirrorsDisk
PROPERTIES
    ImplementsDurableLog
    RecoveryIsInvisible
