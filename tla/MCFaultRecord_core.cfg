\* Two registers; the FPGA locks and unlocks as it likes.
SPECIFICATION RecordSpec
CONSTANTS
    Registers = 2
    None = none
INVARIANTS
    RecordTypeOK
    FlagsEnd
PROPERTIES
    RecordsLogged
