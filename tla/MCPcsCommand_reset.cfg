\* The EMU parser and the thread that carries out a reset order.
SPECIFICATION Spec
CONSTANTS
    Operators = {}
    Hmi = {}
    Emu = {emu}
    Later = {}
    Automatic = {}
    Resetters = {shell}
    RawWords = {}
    Killable = {}
PROPERTIES
    NoResetWhileOn
