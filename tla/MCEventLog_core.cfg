\* A connection on a ring of two entries that three events overflow, sent two entries
\* to a message, num of four values; log_update_task, nand_task and the sender
\* scheduled fairly.
SPECIFICATION FairSpec
CONSTANTS
    c1 = c1
    Conns = {c1}
    N = 2
    SendMax = 2
    Width = 4
    MaxEvent = 3
INVARIANTS
    TypeOK
    CursorsInStep
    LogInOrder
PROPERTIES
    ImplementsQueue
    EventSaved
