----------------------------- MODULE PcsCommand -----------------------------
(***************************************************************************)
(* The start/stop command word of the power stage, and the threads that    *)
(* pulse it.                                                               *)
(*                                                                         *)
(* The FPGA takes its orders from bit 0 (start) and bit 1 (stop) of the    *)
(* register Addr_Param110.  set_pcs_bootup and set_pcs_shutdown assert one *)
(* bit by a read, a modify and a write, sleep 80 ms, and write zero.  No   *)
(* lock guards the register: the EMU parser, the HMI thread, the Modbus    *)
(* server, the shell and the protections all call the two functions, and   *)
(* the scheduler may switch between any two of their steps.                *)
(***************************************************************************)
EXTENDS FiniteSets

CONSTANTS
    Operators,  \* threads that forward an operator's order: Modbus, shell
    Hmi,        \* the thread of the operator panel
    Emu,        \* instances of data_parse_task, which polls the last order of the EMU
    Later,      \* those that CAN_Thread creates when it is created again
    Automatic,  \* threads that start and stop the machine on their own account
    Resetters,  \* threads that run sys_reset or do_reset
    Killable,   \* threads that firmware_check_delthreah terminates
    RawWords    \* bound: the words that the HMI writes directly

Threads == Operators \cup Hmi \cup Emu \cup Automatic \cup Resetters


Start == "start"
Stop == "stop"
Bits == {Start, Stop}

ASSUME CommandAssumption ==
    /\ Killable \subseteq Threads
    /\ Later \subseteq Emu \ Killable
    /\ RawWords \subseteq SUBSET Bits

Reset == "reset"
Commands == Bits \cup {Reset}
NoOrder == "none"

FsmStates == {"idle", "starting", "working", "fault", "stopped"}

\* Where a thread is: outside both functions, about to compare sys_ctl.onoff with
\* 0 or with 1 (the HMI), about to test manShutdownFlag, to read the word, to
\* write it, asleep with its bit asserted, past the pulse, waiting to reset, at
\* the reset, terminated or not created yet.
Places == {"out", "teststop", "teststart", "check", "read", "write", "pulse", "after",
           "resetwait", "reset", "dead"}

VARIABLES
    word,       \* Addr_Param110: the set of command bits asserted
    saved,      \* the copy of Addr_Param110 in the stored parameters
    man,        \* miro_write.manShutdownFlag
    onoff,      \* sys_ctl.onoff
    power,      \* Addr_Param26/27 hold a non-zero power target
    armed,      \* some flag or timer of the frequency protection or of the
                \* fault recovery is set
    order,      \* frameData: the last start/stop order received from the EMU
    fsm,        \* STATE8: the state of the FPGA
    pc,         \* where each thread is
    op,         \* the command each thread is carrying out
    reg,        \* cmd0, the local copy of the word while it is alive
    orphan      \* history: what terminated threads left unfinished

vars == <<word, saved, man, onoff, power, armed, order, fsm, pc, op, reg, orphan>>
shared == <<saved, power, armed, order, fsm, orphan>>

TypeOK ==
    /\ word \subseteq Bits
    /\ saved \subseteq Bits
    /\ man \in BOOLEAN
    /\ onoff \in BOOLEAN
    /\ power \in BOOLEAN
    /\ armed \in BOOLEAN
    /\ order \in Bits \cup {NoOrder}
    /\ fsm \in FsmStates
    /\ pc \in [Threads -> Places]
    /\ op \in [Threads -> Commands]
    /\ reg \in [Threads -> SUBSET Bits]
    /\ orphan \subseteq {"word", "man"}

\* main creates every thread, and CAN_Thread the first data_parse_task.
FirstPlace == [t \in Threads |-> IF t \in Later THEN "dead" ELSE "out"]

Init ==
    /\ word = {} /\ saved = {}
    /\ man = FALSE /\ onoff = FALSE /\ power = FALSE /\ armed = FALSE
    /\ order = NoOrder
    /\ fsm = "idle"
    /\ pc = FirstPlace
    /\ op = [t \in Threads |-> Stop]
    /\ reg = [t \in Threads |-> {}]
    /\ orphan = {}

-----------------------------------------------------------------------------
(* The FPGA obeys a word as soon as it is written, and a stop before a      *)
(* start.                                                                  *)

\* Mutated form: the order takes the place of the state it leads to.
ObeyConfused(w, state) ==
    IF Stop \in w /\ state \in {"starting", "working", "fault"} THEN "stopped"
    ELSE IF Start \in w /\ Stop \notin w /\ state \in {"idle", "stopped"} THEN Start
    ELSE state

Obey(w, state) ==
    IF Stop \in w /\ state \in {"starting", "working", "fault"} THEN "stopped"
    ELSE IF Start \in w /\ Stop \notin w /\ state \in {"idle", "stopped"} THEN "starting"
    ELSE state

WriteWord(w) == word' = w /\ fsm' = Obey(w, fsm)

-----------------------------------------------------------------------------
(* The callers.                                                            *)

Enter(t, place, cmd) ==
    /\ pc[t] = "out"
    /\ pc' = [pc EXCEPT ![t] = place]
    /\ op' = [op EXCEPT ![t] = cmd]
    /\ UNCHANGED <<word, reg>>
    /\ UNCHANGED shared

\* Modbus register 110, the shell: an operator's stop.  The emergency stop
\* (bits 6 and 7) clears sys_ctl.onoff beforehand.
OperatorStop(t) ==
    /\ t \in Operators
    /\ man' = TRUE
    /\ onoff' \in {onoff, FALSE}
    /\ Enter(t, "check", Stop)

OperatorStart(t) ==
    /\ t \in Operators
    /\ man' = FALSE
    /\ UNCHANGED onoff
    /\ Enter(t, "read", Start)

\* HMI register 312: the order is stored in sys_ctl.onoff, which every other
\* command writes too, and read back from there.
HmiOrder(t, cmd) ==
    /\ t \in Hmi
    /\ onoff' = (cmd = Start)
    /\ UNCHANGED man
    /\ Enter(t, "teststop", cmd)

\* It is read back twice: if it is set at first and clear then, nothing is done.
HmiTestStop(t) ==
    /\ pc[t] = "teststop"
    /\ man' = (man \/ ~onoff)
    /\ pc' = [pc EXCEPT ![t] = IF onoff THEN "teststart" ELSE "check"]
    /\ op' = [op EXCEPT ![t] = Stop]
    /\ UNCHANGED <<word, reg, onoff>>
    /\ UNCHANGED shared

HmiTestStart(t) ==
    /\ pc[t] = "teststart"
    /\ man' = (man /\ ~onoff)
    /\ pc' = [pc EXCEPT ![t] = IF onoff THEN "read" ELSE "out"]
    /\ op' = [op EXCEPT ![t] = IF onoff THEN Start ELSE Stop]
    /\ UNCHANGED <<word, reg, onoff>>
    /\ UNCHANGED shared

\* The EMU's order stays in frameData, and every turn of the loop obeys it
\* again whenever the FPGA is not where the order wants it.
EmuFrame(o) ==
    /\ order' = o
    /\ UNCHANGED <<word, saved, man, onoff, power, armed, fsm, pc, op, reg, orphan>>

EmuStop(t) ==
    /\ t \in Emu
    /\ order = Stop
    /\ fsm \notin {"idle", "stopped"}
    /\ man' = TRUE
    /\ UNCHANGED onoff
    /\ Enter(t, "check", Stop)

EmuStart(t) ==
    /\ t \in Emu
    /\ order = Start
    /\ fsm \in {"idle", "stopped"}
    /\ man' = FALSE
    /\ UNCHANGED onoff
    /\ Enter(t, "read", Start)

\* The protections, the over-temperature stop and the automatic restart.
AutoStop(t) == t \in Automatic /\ Enter(t, "check", Stop) /\ UNCHANGED <<man, onoff>>

AutoStart(t) == t \in Automatic /\ Enter(t, "read", Start) /\ UNCHANGED <<man, onoff>>

\* sys_reset stops the machine before the reset; do_reset marks that stop as
\* an operator's.
ResetCall(t) ==
    /\ t \in Resetters
    /\ man' \in {man, TRUE}
    /\ UNCHANGED onoff
    /\ Enter(t, "check", Reset)
-----------------------------------------------------------------------------
(* set_pcs_shutdown and set_pcs_bootup.                                    *)

\* Mutated form: the mark is tested and not taken back.
CheckManualKeepsMark(t) ==
    /\ pc[t] = "check"
    /\ pc' = [pc EXCEPT ![t] = "read"]
    /\ armed' = (armed /\ ~man)
    /\ orphan' = orphan \ {"man"}
    /\ UNCHANGED <<word, saved, man, onoff, power, order, fsm, op, reg>>

\* The first part of set_pcs_shutdown: whichever stop comes first consumes
\* the mark of the operator and disarms the protections.
CheckManual(t) ==
    /\ pc[t] = "check"
    /\ pc' = [pc EXCEPT ![t] = "read"]
    /\ man' = FALSE
    /\ armed' = (armed /\ ~man)
    /\ orphan' = orphan \ {"man"}
    /\ UNCHANGED <<word, saved, onoff, power, order, fsm, op, reg>>

ReadWord(t) ==
    /\ pc[t] = "read"
    /\ pc' = [pc EXCEPT ![t] = "write"]
    /\ reg' = [reg EXCEPT ![t] = word]
    /\ UNCHANGED <<word, man, onoff, op>>
    /\ UNCHANGED shared

\* The bit that a thread asserts: a reset begins with a stop.
Bit(t) == IF op[t] = Start THEN Start ELSE Stop

\* Mutated form: the bit is computed and not assigned, as RESETBIT does.
AssertBitLost(t) ==
    /\ pc[t] = "write"
    /\ pc' = [pc EXCEPT ![t] = "pulse"]
    /\ WriteWord(reg[t])
    /\ reg' = [reg EXCEPT ![t] = {}]
    /\ UNCHANGED <<saved, man, onoff, power, armed, order, op, orphan>>

AssertBit(t) ==
    /\ pc[t] = "write"
    /\ pc' = [pc EXCEPT ![t] = "pulse"]
    /\ WriteWord(reg[t] \cup {Bit(t)})
    /\ reg' = [reg EXCEPT ![t] = {}]
    /\ UNCHANGED <<saved, man, onoff, power, armed, order, op, orphan>>

\* Mutated form: only the thread's own bit is taken back.
ClearOwnBit(t) ==
    /\ pc[t] = "pulse"
    /\ pc' = [pc EXCEPT ![t] = "after"]
    /\ WriteWord(word \ {Bit(t)})
    /\ orphan' = orphan \ {"word"}
    /\ UNCHANGED <<saved, man, onoff, power, armed, order, op, reg>>

ClearWord(t) ==
    /\ pc[t] = "pulse"
    /\ pc' = [pc EXCEPT ![t] = "after"]
    /\ WriteWord({})
    /\ orphan' = orphan \ {"word"}
    /\ UNCHANGED <<saved, man, onoff, power, armed, order, op, reg>>

Finish(t) ==
    /\ pc[t] = "after"
    /\ pc' = [pc EXCEPT ![t] = IF op[t] = Reset THEN "resetwait" ELSE "out"]
    /\ onoff' = (op[t] = Start)
    /\ power' = (power /\ op[t] = Start)
    /\ op' = [op EXCEPT ![t] = Stop]
    /\ UNCHANGED <<word, saved, man, armed, order, fsm, reg, orphan>>
-----------------------------------------------------------------------------
(* The other writers of the command word.                                  *)

\* HMI register 1301 writes the word as it is, and stores it.
RawWrite(t, v) ==
    /\ t \in Hmi
    /\ pc[t] = "out"
    /\ WriteWord(v)
    /\ saved' = v
    /\ orphan' = orphan \ {"word"}
    /\ UNCHANGED <<man, onoff, power, armed, order, pc, op, reg>>

\* firmware_check_delthreah, at the request of a firmware update.
KillThreads ==
    /\ \E t \in Killable : pc[t] # "dead"
    /\ pc' = [t \in Threads |-> IF t \in Killable THEN "dead" ELSE pc[t]]
    /\ reg' = [t \in Threads |-> IF t \in Killable THEN {} ELSE reg[t]]
    /\ op' = [t \in Threads |-> IF t \in Killable THEN Stop ELSE op[t]]
    /\ orphan' = orphan
         \cup {x \in {"word"} : \E t \in Killable : pc[t] = "pulse"}
         \cup {x \in {"man"} : \E t \in Killable : pc[t] = "check" /\ man}
    /\ UNCHANGED <<word, saved, man, onoff, power, armed, order, fsm>>

\* firmware_check_createthreah: the threads start again from their top, and
\* CAN_Thread creates one more data_parse_task beside those that run, if the
\* kernel has room for it.
RecreateThreads ==
    /\ \E t \in Killable : pc[t] = "dead"
    /\ \E new \in {t \in Killable \cup Later : pc[t] = "dead"} :
          pc' = [t \in Threads |-> IF pc[t] = "dead" /\ t \in Killable \cup {new}
                                  THEN "out" ELSE pc[t]]
    /\ UNCHANGED <<word, saved, man, onoff, power, armed, order, fsm, op, reg, orphan>>

\* The one second after the stop is over: SCB->AIRCR resets the controller.
FireReset(t) ==
    /\ pc[t] = "resetwait"
    /\ pc' = [pc EXCEPT ![t] = "reset"]
    /\ UNCHANGED <<word, man, onoff, op, reg>>
    /\ UNCHANGED shared

\* The controller comes up again; fpga_data_init restores the stored
\* parameters, the command word among them.  The FPGA has been running on.
Restart ==
    /\ \E t \in Threads : pc[t] = "reset"
    /\ WriteWord(saved)
    /\ man' = FALSE /\ onoff' = FALSE /\ armed' = FALSE
    /\ power' \in BOOLEAN
    /\ order' = NoOrder
    /\ pc' = FirstPlace
    /\ op' = [t \in Threads |-> Stop]
    /\ reg' = [t \in Threads |-> {}]
    /\ orphan' = {}
    /\ UNCHANGED saved
-----------------------------------------------------------------------------
(* The surroundings: the FPGA, the power setters, the protections' flags.  *)

FpgaReady ==
    /\ fsm = "starting"
    /\ fsm' = "working"
    /\ UNCHANGED <<word, saved, man, onoff, power, armed, order, pc, op, reg, orphan>>

FpgaFault ==
    /\ fsm' = "fault"
    /\ UNCHANGED <<word, saved, man, onoff, power, armed, order, pc, op, reg, orphan>>

SetPower ==
    /\ power' \in BOOLEAN
    /\ UNCHANGED <<word, saved, man, onoff, armed, order, fsm, pc, op, reg, orphan>>

Arm ==
    /\ armed' = TRUE
    /\ UNCHANGED <<word, saved, man, onoff, power, order, fsm, pc, op, reg, orphan>>
-----------------------------------------------------------------------------
Call(t) ==
    \/ OperatorStop(t) \/ OperatorStart(t)
    \/ \E cmd \in Bits : HmiOrder(t, cmd)
    \/ EmuStop(t) \/ EmuStart(t)
    \/ AutoStop(t) \/ AutoStart(t)
    \/ ResetCall(t)

\* A thread inside one of the functions goes on.
Continue(t) ==
    \/ HmiTestStop(t) \/ HmiTestStart(t)
    \/ CheckManual(t)
    \/ ReadWord(t)
    \/ AssertBit(t)
    \/ ClearWord(t)
    \/ Finish(t)

Environment ==
    \/ \E o \in Bits : EmuFrame(o)
    \/ FpgaReady \/ FpgaFault
    \/ SetPower
    \/ Arm

Next ==
    \/ \E t \in Threads : Call(t) \/ Continue(t) \/ FireReset(t)
    \/ \E t \in Threads, v \in RawWords : RawWrite(t, v)
    \/ KillThreads \/ RecreateThreads \/ Restart
    \/ Environment

Spec == Init /\ [][Next]_vars

\* Every thread that is inside one of the functions gets the processor again
\* (round robin among equal priorities, and osDelay(80) ends).
FairSpec == Spec /\ \A t \in Threads : WF_vars(Continue(t))
-----------------------------------------------------------------------------
(* Properties.                                                             *)

\* A command bit stays asserted only while some thread is inside its pulse.
\* There are two ways around it and no third: the HMI has written the word
\* directly (or a restart has restored what it wrote), or a firmware update
\* has terminated a thread between the two writes of its pulse.
NoStuckCommand ==
    word # {} => \/ \E t \in Threads : pc[t] = "pulse"
                 \/ word = saved
                 \/ "word" \in orphan

\* The mark "this stop is the operator's" is pending only while some thread
\* is still to test it: no later automatic stop can take it for its own and
\* disarm the protections, unless the thread that set it was terminated.
ManFlagOwned ==
    man => (\E t \in Threads : pc[t] = "check") \/ "man" \in orphan

\* Every stop that is begun asserts the stop bit in the end, whatever the
\* other threads do to the word meanwhile, unless the controller is reset or
\* the thread terminated first.
StopReachesFpga ==
    \A t \in Threads :
        (pc[t] = "check") ~> \/ Stop \in word
                             \/ pc[t] = "dead"
                             \/ \E u \in Threads : pc[u] = "reset"

\* And the word always comes back to zero, or to what the HMI wrote into it,
\* unless a terminated thread left its bit behind.
CommandReleased == (word # {}) ~> (word \in {{}, saved} \/ "word" \in orphan)

\* Both: a pulse is begun and ended whoever pulses meanwhile.
PulsesComplete == StopReachesFpga /\ CommandReleased

\* The comment at sys_reset: the stop before the reset is there to avoid a
\* reset of a machine that is on.
NoResetWhileOn ==
    [][\A t \in Threads : FireReset(t) => fsm \notin {"starting", "working"}]_vars
=============================================================================
