\* Jumps within a side and between the sides; an operator stops the machine at any
\* moment.
SPECIFICATION FairSpec
CONSTANTS
    NearUp = "OF1"
    NearDown = "UF1"
    Levels = {"normal", "over", "farOver", "under"}
CONSTRAINT
    Undisturbed
INVARIANTS
    TypeOK
    FlagsTrue
PROPERTIES
    UndisturbedActs
