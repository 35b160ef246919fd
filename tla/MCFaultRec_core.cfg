\* The recovery, with operators who stop the machine at any moment, and a start
\* that takes longer than the waiting time.
SPECIFICATION FairSpec
CONSTANT
    Waits <- OneWait
CONSTRAINT
    Undisturbed
INVARIANTS
    TypeOK
    FlagsTrue
PROPERTIES
    FaultRecovers
