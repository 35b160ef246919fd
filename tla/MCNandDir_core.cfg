\* Blocks of 5 pages, one of which may go bad, and two power cuts between a mark
\* and its page.
SPECIFICATION FairSpec
CONSTANTS
    d0 = d0
    d1 = d1
    Dirs = {d0, d1}
    Default = d0
    Pages = 5
    LastBlock = 2
    MaxBad = 1
    MaxTorn = 2
INVARIANTS
    TypeOK
    ProgramsBlankPages
PROPERTIES
    ImplementsDirectory
    ChangeSaved
