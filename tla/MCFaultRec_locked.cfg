\* A lock that appears while the timer runs.
SPECIFICATION Spec
CONSTANT
    Waits <- OneWait
PROPERTIES
    LockedStays
