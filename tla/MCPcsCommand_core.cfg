\* A thread that is every caller of the two functions but the EMU's parser, is
\* terminated and created again by firmware updates, and may reset the
\* controller; the EMU's data_parse_task, and the second one that CAN_Thread
\* creates when it is created again.
SPECIFICATION FairSpec
VIEW View
CONSTANTS
    Operators = {t1}
    Hmi = {t1}
    Emu = {t2, t3}
    Later = {t3}
    Automatic = {t1}
    Resetters = {t1}
    RawWords <- RawDef
    Killable = {t1}
INVARIANTS
    TypeOK
    NoStuckCommand
    ManFlagOwned
PROPERTIES
    PulsesComplete
