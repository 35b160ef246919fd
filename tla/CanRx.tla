------------------------------- MODULE CanRx --------------------------------
(***************************************************************************)
(* The reception of CAN frames: the receive interrupt stores a frame in    *)
(* rx_frame and counts it, CAN_Thread reads the frames every 10 ms and     *)
(* sets both counts back to 0.  The interrupt wraps its count at           *)
(* CAN_RX_NUM, the reader's count is a plain uint8_t; nothing keeps the    *)
(* interrupt out while the reader sets the counts back.  A firmware update *)
(* terminates CAN_Thread at any point and creates it again.                *)
(*                                                                         *)
(* A frame is the EMU's, which passes the filter of can_rx_info and counts *)
(* as its heartbeat, or another one.                                       *)
(***************************************************************************)
EXTENDS Integers, FiniteSets

CONSTANTS
    CAN_RX_NUM,  \* frames in rx_frame: 20
    Width        \* rd_num_count counts modulo this: 256

ASSUME CanAssumption ==
    /\ CAN_RX_NUM \in Nat /\ CAN_RX_NUM >= 2
    /\ Width \in Nat /\ Width > CAN_RX_NUM

VARIABLES
    rx_frame, rx_num_count, rd_num_count,
    reader,  \* CAN_Thread: reading or asleep, between the two resets, terminated
    owed,    \* history: EMU frames stored since the reset, less those counted
    spoilt   \* history: since the reset the ring has wrapped, or a frame was
             \* stored or the thread terminated between the reader's last look
             \* and the reset

canVars == <<rx_frame, rx_num_count, rd_num_count, reader, owed, spoilt>>

Frames == {"emu", "other"}
Slots == 0 .. CAN_RX_NUM - 1

CanTypeOK ==
    /\ rx_frame \in [Slots -> Frames]
    /\ rx_num_count \in Slots
    /\ rd_num_count \in 0 .. Width - 1
    /\ reader \in {"read", "reset", "dead"}
    /\ owed \in Slots
    /\ spoilt \in BOOLEAN

\* The frames start as zeros, which no filter lets pass.
CanInit ==
    /\ rx_frame = [i \in Slots |-> "other"]
    /\ rx_num_count = 0 /\ rd_num_count = 0
    /\ reader = "read"
    /\ owed = 0 /\ spoilt = FALSE

\* The history is not kept while it is spoilt.
Remember(n, bad) == spoilt' = bad /\ owed' = IF bad THEN 0 ELSE n

Counts(fr) == IF fr = "emu" THEN 1 ELSE 0

\* CAN_SignalObjectEvent.
Receive(fr) ==
    LET next == rx_num_count + 1 IN
    /\ rx_frame' = [rx_frame EXCEPT ![rx_num_count] = fr]
    /\ rx_num_count' = IF next >= CAN_RX_NUM THEN 0 ELSE next
    /\ Remember(owed + Counts(fr), spoilt \/ reader = "reset" \/ next >= CAN_RX_NUM)
    /\ UNCHANGED <<rd_num_count, reader>>

\* What the reader may find: past the end of rx_frame, anything.
FrameAt(i) == IF i \in Slots THEN {rx_frame[i]} ELSE Frames

\* can_rx_info, one frame.
ReadFrame(fr) ==
    /\ reader = "read"
    /\ rd_num_count # rx_num_count
    /\ fr \in FrameAt(rd_num_count)
    /\ rd_num_count' = (rd_num_count + 1) % Width
    /\ Remember(owed - Counts(fr), spoilt)
    /\ UNCHANGED <<rx_frame, rx_num_count, reader>>

\* Mutated form: the counts are set back after one frame.
CaughtUpOnce ==
    /\ reader = "read"
    /\ rd_num_count # 0 \/ rd_num_count = rx_num_count
    /\ rd_num_count' = 0
    /\ reader' = "reset"
    /\ UNCHANGED <<rx_frame, rx_num_count, owed, spoilt>>

\* The reader has caught up; rd_num_count is set back.
CaughtUp ==
    /\ reader = "read"
    /\ rd_num_count = rx_num_count
    /\ rd_num_count' = 0
    /\ reader' = "reset"
    /\ UNCHANGED <<rx_frame, rx_num_count, owed, spoilt>>

\* rx_num_count is set back, whatever was stored meanwhile.
SetBack ==
    /\ reader = "reset"
    /\ rx_num_count' = 0
    /\ reader' = "read"
    /\ Remember(0, FALSE)
    /\ UNCHANGED <<rx_frame, rd_num_count>>

\* firmware_check_delthreah and firmware_check_createthreah.
Terminated ==
    /\ reader # "dead"
    /\ reader' = "dead"
    /\ Remember(owed, spoilt \/ reader = "reset")
    /\ UNCHANGED <<rx_frame, rx_num_count, rd_num_count>>

Created ==
    /\ reader = "dead"
    /\ reader' = "read"
    /\ UNCHANGED <<rx_frame, rx_num_count, rd_num_count, owed, spoilt>>
-----------------------------------------------------------------------------
\* Every frame of the EMU is counted as a heartbeat once: those stored and not
\* yet counted are those between the reader and the interrupt.  It takes
\* CAN_RX_NUM frames in one pass, or the moment between the reader's last look
\* and the reset, to lose one or count one again.
FramesCounted ==
    ~spoilt => owed =
        IF reader = "reset" THEN 0
        ELSE Cardinality({i \in rd_num_count .. rx_num_count - 1 : rx_frame[i] = "emu"})
=============================================================================
