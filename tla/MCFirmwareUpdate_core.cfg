SPECIFICATION Spec
CONSTANTS
    a = a
    b = b
    MaxConns = 2
    Images = {a, b}
    Loadable = {a}
    Length <- LengthDef
    MaxWorkers = 2
    None = none
    AreaSize = 4
    CheckMax = 2
    RegionSize = 2
    BlockSize = 2
    Data <- FileData
    Old = old
    Erased = erased
    Garbled = garbled
INVARIANTS
    TypeOK
    OneUpdate
    VerdictExact
    FileIntact
    TasksRunOnce
PROPERTIES
    UpdateEnds
CONSTRAINT
    Ordered
VIEW
    View
