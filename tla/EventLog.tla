------------------------------ MODULE EventLog ------------------------------
(***************************************************************************)
(* The event log: a ring of N entries that log_add fills and log_clear     *)
(* empties, a task that writes a snapshot of it to the NAND file log.dat,  *)
(* and a cursor for every Modbus connection, from which mbresp_spec_task   *)
(* sends the log to the client.                                            *)
(*                                                                         *)
(* log_sem covers every access to the ring; send_logs holds it while it    *)
(* fills a message entry by entry.  Outside of it are: the write of the    *)
(* snapshot to flash, the transmission of a filled message, the memset of  *)
(* a connection slot that is reused, which may fall into log_add and into  *)
(* send_logs, and the flag that enables the sending, which is set before   *)
(* the cursor is rewound.                                                  *)
(***************************************************************************)
EXTENDS Integers, Sequences

CONSTANTS
    Conns,      \* mbser_inf: the connection slots
    N,          \* LOG_MAXNUM
    SendMax,    \* LOG_SEND_MAXNUM
    Width,      \* how many values sendlog_inf.num has: 2^32
    MaxEvent    \* bound on the events of a behaviour, numbered from 1

ASSUME ConstantsAssumption ==
    /\ N \in Nat \ {0}
    /\ SendMax \in Nat \ {0}
    /\ Width \in Nat /\ Width > N + 1
    /\ MaxEvent \in Nat

Slots == 0 .. N - 1
Events == 0 .. MaxEvent     \* 0: an entry that was never written

\* An image of the log: the entries and the head that describes them.
Images == [entry : [Slots -> Events], head : Slots, tail : Slots, cnt : 0 .. N]
Blank == [entry |-> [i \in Slots |-> 0], head |-> 0, tail |-> 0, cnt |-> 0]

VARIABLES
    plog,       \* plog with log_head, log_tail and log_cnt
    next,       \* the number of the next event
    modified,   \* log_modified
    temp,       \* plog_temp
    writing,    \* log_update_task is between the snapshot and the end of the write
    file,       \* log.dat, as the file table in memory has it
    saved,      \* log.dat, as the file table on flash has it
    conns,      \* the slots with a connection
    enflag,     \* the slots that are to send
    cursor,     \* sendlog_inf.tail of every slot
    num,        \* sendlog_inf.num of every slot
    rewinding,  \* the slots whose mbrs_translog has set enflag, not yet the cursor
    rewound,    \* history: the slots whose cursor was set since the slot was taken
    sender,     \* where mbresp_spec_task is in send_logs, for which slot, how many
                \* entries are left to fill (lognum), and (history) whether the
                \* cursor the message was filled from had been rewound
    buf         \* spec_buf: the entries of the message being filled or sent

vars == <<plog, next, modified, temp, writing, file, saved, conns, enflag, cursor, num,
          rewinding, rewound, sender, buf>>
flashVars == <<temp, writing, file, saved>>
connVars == <<conns, enflag, rewinding, rewound>>
sendVars == <<sender, buf>>

Idle == [at |-> "idle"]
Senders == {Idle} \cup [at : {"locked"}, conn : Conns]
                  \cup [at : {"fill"}, conn : Conns, left : 1 .. SendMax]
                  \cup [at : {"send"}, conn : Conns, synced : BOOLEAN]

TypeOK ==
    /\ plog \in Images
    /\ next \in 1 .. MaxEvent + 1
    /\ modified \in BOOLEAN
    /\ temp \in Images
    /\ writing \in BOOLEAN
    /\ file \in Images /\ saved \in Images
    /\ conns \subseteq Conns
    /\ enflag \subseteq Conns
    /\ cursor \in [Conns -> Slots]
    /\ num \in [Conns -> 0 .. Width - 1]
    /\ rewinding \subseteq Conns
    /\ rewound \subseteq Conns
    /\ sender \in Senders
    /\ buf \in Seq(Events)

Init ==
    /\ plog = Blank /\ temp = Blank /\ file = Blank /\ saved = Blank
    /\ next = 1
    /\ modified = FALSE /\ writing = FALSE
    /\ conns = {} /\ enflag = {} /\ rewinding = {} /\ rewound = {}
    /\ cursor = [c \in Conns |-> 0]
    /\ num = [c \in Conns |-> 0]
    /\ sender = Idle
    /\ buf = <<>>

\* Mutated form: the index wraps one entry too late.
SuccLate(i) == (i + 1) % (N + 1)

Succ(i) == (i + 1) % N

\* send_logs holds log_sem while it fills a message; everybody else who takes
\* log_sem is one step.
Unlocked == sender.at # "fill"
-----------------------------------------------------------------------------
(* log_add and log_clear.                                                  *)

\* Mutated forms: a full ring keeps its oldest entry; the tail is advanced
\* before the entry is written.
EnqueueKeepsHead(e) ==
    plog' = [entry |-> [plog.entry EXCEPT ![plog.tail] = e],
             head |-> plog.head,
             tail |-> Succ(plog.tail),
             cnt |-> IF plog.cnt = N THEN N ELSE plog.cnt + 1]

EnqueueAfterTail(e) ==
    LET full == plog.cnt = N IN
    plog' = [entry |-> [plog.entry EXCEPT ![Succ(plog.tail)] = e],
             head |-> IF full THEN Succ(plog.head) ELSE plog.head,
             tail |-> Succ(plog.tail),
             cnt |-> IF full THEN N ELSE plog.cnt + 1]

Enqueue(e) ==
    LET full == plog.cnt = N IN
    plog' = [entry |-> [plog.entry EXCEPT ![plog.tail] = e],
             head |-> IF full THEN Succ(plog.head) ELSE plog.head,
             tail |-> Succ(plog.tail),
             cnt |-> IF full THEN N ELSE plog.cnt + 1]

CursorAfter(c) == IF num[c] = N THEN Succ(cursor[c]) ELSE cursor[c]
NumAfter(c) == IF num[c] = N THEN N ELSE (num[c] + 1) % Width

LogAdd ==
    /\ Unlocked
    /\ next <= MaxEvent
    /\ Enqueue(next)
    /\ next' = next + 1
    /\ modified' = TRUE
    /\ cursor' = [c \in Conns |-> CursorAfter(c)]
    /\ num' = [c \in Conns |-> NumAfter(c)]
    /\ UNCHANGED flashVars /\ UNCHANGED connVars /\ UNCHANGED sendVars

\* Mutated form: the cursors of the connections are not reset.
LogClearKeepsCursors ==
    /\ Unlocked
    /\ plog' = [plog EXCEPT !.head = 0, !.tail = 0, !.cnt = 0]
    /\ modified' = TRUE
    /\ UNCHANGED <<next, cursor, num>>
    /\ UNCHANGED flashVars /\ UNCHANGED connVars /\ UNCHANGED sendVars

LogClear ==
    /\ Unlocked
    /\ plog' = [plog EXCEPT !.head = 0, !.tail = 0, !.cnt = 0]
    /\ modified' = TRUE
    /\ cursor' = [c \in Conns |-> 0]
    /\ num' = [c \in Conns |-> 0]
    /\ UNCHANGED next
    /\ UNCHANGED flashVars /\ UNCHANGED connVars /\ UNCHANGED sendVars
-----------------------------------------------------------------------------
(* log_update_flash.                                                       *)

Snapshot ==
    /\ Unlocked
    /\ ~writing
    /\ modified
    /\ temp' = plog
    /\ modified' = FALSE
    /\ writing' = TRUE
    /\ UNCHANGED <<plog, next, file, saved, cursor, num>>
    /\ UNCHANGED connVars /\ UNCHANGED sendVars

\* Mutated form: log_modified is reset once the file is written.
WriteFileThenReset ==
    /\ writing
    /\ file' = temp
    /\ writing' = FALSE
    /\ modified' = FALSE
    /\ UNCHANGED <<plog, next, temp, saved, cursor, num>>
    /\ UNCHANGED connVars /\ UNCHANGED sendVars

\* write_file: once the last page is written the FILE_STRUCT in memory points to
\* the new file, as a whole (StoredData has the pages).
WriteFile ==
    /\ writing
    /\ file' = temp
    /\ writing' = FALSE
    /\ UNCHANGED <<plog, next, modified, temp, saved, cursor, num>>
    /\ UNCHANGED connVars /\ UNCHANGED sendVars

\* nand_task writes the file table to flash (NandDir): from now on the new file is
\* the one a restart finds.
SaveTable ==
    /\ saved' = file
    /\ UNCHANGED <<plog, next, modified, temp, writing, file, cursor, num>>
    /\ UNCHANGED connVars /\ UNCHANGED sendVars
-----------------------------------------------------------------------------
(* The connections.                                                        *)

\* mbser_addconn: the slot is taken and its flag reset.
TakeSlot(c) ==
    /\ c \notin conns
    /\ conns' = conns \cup {c}
    /\ enflag' = enflag \ {c}
    /\ rewound' = rewound \ {c}
    /\ UNCHANGED rewinding

\* Its memset, outside log_sem.
Connect(c) ==
    /\ TakeSlot(c)
    /\ cursor' = [cursor EXCEPT ![c] = 0]
    /\ num' = [num EXCEPT ![c] = 0]
    /\ UNCHANGED <<plog, next, modified>>
    /\ UNCHANGED flashVars /\ UNCHANGED sendVars

\* The memset falls into what log_add does to the cursor: between the test of num
\* and tail++, or between the read and the write of tail or num.
ConnectDuringAdd(c) ==
    /\ TakeSlot(c)
    /\ Unlocked
    /\ next <= MaxEvent
    /\ Enqueue(next)
    /\ next' = next + 1
    /\ modified' = TRUE
    /\ \E a \in IF num[c] = N THEN {CursorAfter(c), Succ(0)} ELSE {0} :
         cursor' = [d \in Conns |-> IF d = c THEN a ELSE CursorAfter(d)]
    /\ num' = [d \in Conns |-> IF d # c THEN NumAfter(d)
                               ELSE IF num[c] = N THEN 0 ELSE NumAfter(c)]
    /\ UNCHANGED flashVars /\ UNCHANGED sendVars

\* mbresp_task after a receive error.
Disconnect(c) ==
    /\ c \in conns \ rewinding
    /\ conns' = conns \ {c}
    /\ UNCHANGED <<plog, next, modified, cursor, num, enflag, rewinding, rewound>>
    /\ UNCHANGED flashVars /\ UNCHANGED sendVars

\* mbrs_translog: the client's request, then the cursor under log_sem.
TransLog(c, enable) ==
    /\ c \in conns \ rewinding
    /\ enflag' = IF enable THEN enflag \cup {c} ELSE enflag \ {c}
    /\ rewinding' = rewinding \cup {c}
    /\ UNCHANGED <<plog, next, modified, cursor, num, conns, rewound>>
    /\ UNCHANGED flashVars /\ UNCHANGED sendVars

\* Mutated form: the cursor is set to the start of the ring.
RewindToStart(c) ==
    /\ Unlocked
    /\ c \in rewinding
    /\ cursor' = [cursor EXCEPT ![c] = 0]
    /\ num' = [num EXCEPT ![c] = plog.cnt]
    /\ rewinding' = rewinding \ {c}
    /\ rewound' = rewound \cup {c}
    /\ UNCHANGED <<plog, next, modified, conns, enflag>>
    /\ UNCHANGED flashVars /\ UNCHANGED sendVars

Rewind(c) ==
    /\ Unlocked
    /\ c \in rewinding
    /\ cursor' = [cursor EXCEPT ![c] = plog.head]
    /\ num' = [num EXCEPT ![c] = plog.cnt]
    /\ rewinding' = rewinding \ {c}
    /\ rewound' = rewound \cup {c}
    /\ UNCHANGED <<plog, next, modified, conns, enflag>>
    /\ UNCHANGED flashVars /\ UNCHANGED sendVars
-----------------------------------------------------------------------------
(* send_logs.                                                              *)

\* The tests before log_sem is taken.
SendCheck(c) ==
    /\ sender = Idle
    /\ c \in conns \cap enflag
    /\ sender' = [at |-> "locked", conn |-> c]
    /\ UNCHANGED <<plog, next, modified, cursor, num, buf>>
    /\ UNCHANGED flashVars /\ UNCHANGED connVars

BatchSize(c) == IF num[c] > SendMax THEN SendMax ELSE num[c]

\* log_sem is taken and lognum fixed.
SendBegin(c) ==
    /\ sender = [at |-> "locked", conn |-> c]
    /\ sender' = IF BatchSize(c) = 0 THEN Idle
                 ELSE [at |-> "fill", conn |-> c, left |-> BatchSize(c)]
    /\ UNCHANGED <<plog, next, modified, cursor, num, buf>>
    /\ UNCHANGED flashVars /\ UNCHANGED connVars

NumBefore(c) == (num[c] + Width - 1) % Width

\* lognum--; after the last entry log_sem is released.
EntryFilled(c, synced) ==
    sender' = IF sender.left = 1 THEN [at |-> "send", conn |-> c, synced |-> synced]
              ELSE [sender EXCEPT !.left = @ - 1]

\* Mutated form: the entry is copied and the cursor left where it is.
SendEntryStays(c) ==
    /\ sender.at = "fill" /\ sender.conn = c
    /\ buf' = Append(buf, plog.entry[cursor[c]])
    /\ num' = [num EXCEPT ![c] = NumBefore(c)]
    /\ EntryFilled(c, c \in rewound)
    /\ UNCHANGED <<plog, next, modified, cursor>>
    /\ UNCHANGED flashVars /\ UNCHANGED connVars

\* One round of the loop: an entry is copied and the cursor advanced.
SendEntry(c) ==
    /\ sender.at = "fill" /\ sender.conn = c
    /\ buf' = Append(buf, plog.entry[cursor[c]])
    /\ cursor' = [cursor EXCEPT ![c] = Succ(@)]
    /\ num' = [num EXCEPT ![c] = NumBefore(c)]
    /\ EntryFilled(c, c \in rewound)
    /\ UNCHANGED <<plog, next, modified>>
    /\ UNCHANGED flashVars /\ UNCHANGED connVars

\* The memset falls into a round.  tail and num are each cleared before they are
\* read, after that (and the old value is written back, less or more one), or
\* after they are written; the entry holds bytes of the one at the old cursor or
\* of the first.
ConnectDuringEntry(c) ==
    /\ TakeSlot(c)
    /\ sender.at = "fill" /\ sender.conn = c
    /\ \E i \in {cursor[c], 0} : buf' = Append(buf, plog.entry[i])
    /\ \E a \in {Succ(0), Succ(cursor[c]), 0} : cursor' = [cursor EXCEPT ![c] = a]
    /\ \E n \in {Width - 1, NumBefore(c), 0} : num' = [num EXCEPT ![c] = n]
    /\ EntryFilled(c, FALSE)
    /\ UNCHANGED <<plog, next, modified>>
    /\ UNCHANGED flashVars

\* mb_send, whose failure changes nothing either.
SendDone ==
    /\ sender.at = "send"
    /\ sender' = Idle
    /\ buf' = <<>>
    /\ UNCHANGED <<plog, next, modified, cursor, num>>
    /\ UNCHANGED flashVars /\ UNCHANGED connVars
-----------------------------------------------------------------------------
\* Power is lost at any point; log_init reads the log.dat of the table on flash, or
\* clears the log if it cannot be read.
Restart ==
    /\ \/ plog' = saved /\ modified' = FALSE
       \/ plog' = [saved EXCEPT !.head = 0, !.tail = 0, !.cnt = 0] /\ modified' = TRUE
    /\ temp' = saved /\ file' = saved
    /\ writing' = FALSE
    /\ conns' = {} /\ enflag' = {} /\ rewinding' = {} /\ rewound' = {}
    /\ cursor' = [c \in Conns |-> 0]
    /\ num' = [c \in Conns |-> 0]
    /\ sender' = Idle
    /\ buf' = <<>>
    /\ UNCHANGED <<next, saved>>

Next ==
    \/ LogAdd \/ LogClear
    \/ Snapshot \/ WriteFile \/ SaveTable
    \/ \E c \in Conns :
         \/ Connect(c) \/ ConnectDuringAdd(c) \/ Disconnect(c)
         \/ \E enable \in BOOLEAN : TransLog(c, enable)
         \/ Rewind(c)
         \/ SendCheck(c) \/ SendBegin(c) \/ SendEntry(c) \/ ConnectDuringEntry(c)
    \/ SendDone
    \/ Restart

Spec == Init /\ [][Next]_vars

\* log_update_task, nand_task and mbresp_spec_task run again and again; log_sem is
\* first come, first served, and held for a bounded time.
FairSpec ==
    /\ Spec
    /\ SF_vars(Snapshot) /\ WF_vars(WriteFile) /\ WF_vars(SaveTable)
    /\ WF_vars(\E c \in Conns : SendEntry(c))
-----------------------------------------------------------------------------
(* Properties.                                                             *)

\* The entries an image describes, oldest first.
Contents(image) == [i \in 1 .. image.cnt |-> image.entry[(image.head + i - 1) % N]]

\* head, tail and cnt of the ring agree.
RingOK(image) ==
    \/ image.head + image.cnt = image.tail
    \/ image.head + image.cnt = image.tail + N

\* The ring, its snapshot and the files describe their entries consistently,
\* whatever was added, cleared or lost: log_add drops the oldest entry by
\* moving head exactly when tail is about to overtake it.
RingsConsistent == RingOK(plog) /\ RingOK(temp) /\ RingOK(file) /\ RingOK(saved)

\* A cursor that was set by mbrs_translog stays in step with the ring through
\* every log_add, log_clear and entry sent: it is never ahead of what was logged
\* nor behind the oldest entry, and a message that is being filled from it never
\* runs past the newest.  (What is left in the cursor of a slot that is reset
\* while a message is filled from it, num below zero even, is another matter: it
\* is rewound before it counts again.)
CursorsInStep ==
    \A c \in rewound :
        /\ num[c] <= plog.cnt
        /\ \/ cursor[c] + num[c] = plog.tail
           \/ cursor[c] + num[c] = plog.tail + N
        /\ sender.at = "fill" /\ sender.conn = c => sender.left <= num[c]

\* What is in the log, and on flash, is in the order it happened.
Ordered(s) == \A i \in 1 .. Len(s) - 1 : 0 < s[i] /\ s[i] < s[i + 1]
LogInOrder ==
    /\ Ordered(Contents(plog))
    /\ Ordered(Contents(file))
    /\ Ordered(Contents(saved))

\* The entries still to be sent to a rewound connection.
PendingOf(c) == [i \in 1 .. num[c] |-> plog.entry[(cursor[c] + i - 1) % N]]

\* The log is the queue of EventQueue: the ring is its log, and what is filled
\* into messages from a rewound cursor is what the client still had to get, in
\* order, once each.  The queue hands a message over when send_logs has fixed its
\* length; until it is filled, the rest of it lies ahead of the cursor.  (A message
\* filled from a cursor nobody has set, or whose slot is reset while it is filled,
\* is no part of the promise.)
FillingFor(c) == sender.at = "fill" /\ sender.conn = c
Left(c) == IF FillingFor(c) THEN sender.left ELSE 0
SentTo(c) == sender.at = "send" /\ sender.conn = c /\ sender.synced

Pending == [c \in Conns |->
    IF c \in rewound THEN SubSeq(PendingOf(c), Left(c) + 1, num[c]) ELSE <<>>]
Batch == [c \in Conns |->
    IF c \in rewound /\ FillingFor(c) THEN buf \o SubSeq(PendingOf(c), 1, Left(c))
    ELSE IF SentTo(c) THEN buf ELSE <<>>]

Queue == INSTANCE EventQueue WITH
    Capacity <- N,
    BatchMax <- SendMax,
    log <- Contents(plog),
    staged <- Contents(temp),
    written <- Contents(file),
    saved <- Contents(saved),
    following <- rewound,
    pending <- Pending,
    batch <- Batch
ImplementsQueue == Queue!Spec

\* An event that is logged reaches the flash and the file table there, unless it is cleared, dropped
\* or lost with the power first: an event that arrives while the file is being
\* written is not forgotten.
EventSaved ==
    \A e \in 1 .. MaxEvent :
        (\E i \in 1 .. plog.cnt : Contents(plog)[i] = e)
          ~> \/ \E i \in 1 .. saved.cnt : Contents(saved)[i] = e
             \/ ~ \E i \in 1 .. plog.cnt : Contents(plog)[i] = e
=============================================================================
