\* An image of two sectors with two values, two changes and a power cut.
SPECIFICATION MCSpec
CONSTANTS
    AreaSize = 8
    RegionSize = 2
    BlockSize = 4
    Data <- FileData
    Erased = erased
    Garbled = garbled
    None = none
    Values = {0, 1}
    MaxChanges = 2
    MaxCalls = 1
    MaxCuts = 1
    MaxLag = 1
INVARIANTS
    TypeOK

    
    
