\* A count of three, so that a window can end between two starts; a wait of two
\* passes and a window of four.  Shorts wrap just above them.
SPECIFICATION RestartFairSpec
CONSTANTS
    Limit = 3
    Wait = 2
    Window = 4
    MinShort <- Lowest
    MaxShort = 5
INVARIANTS
    RestartTypeOK
    RestartsLimited
PROPERTIES
    GiveUpEnds
