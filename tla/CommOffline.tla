---------------------------- MODULE CommOffline -----------------------------
(***************************************************************************)
(* The communication-loss module: a task samples the heartbeat counters of *)
(* the EMU and the HMI every 50 ms, judges a device disconnected after     *)
(* jdgCnt silent samples, stops a working machine then, and starts the     *)
(* machine it stopped when both devices are back.                          *)
(*                                                                         *)
(* A heartbeat counter only matters through whether it moved between two   *)
(* samples.                                                                *)
(***************************************************************************)
EXTENDS Naturals

CONSTANTS
    JdgCnt,     \* silent samples tolerated, from commJdgTime
    CountWidth, \* errCnt is counted modulo this: 65536 in the program
    Enables     \* the values commEn takes, sets of enabled devices

Devices == {"EMU", "HMI"}

ASSUME CommAssumption ==
    /\ JdgCnt \in Nat
    /\ CountWidth \in Nat /\ CountWidth > JdgCnt + 2
    /\ Enables \subseteq SUBSET Devices

VARIABLES
    commEn,     \* the enabled devices
    beaten,     \* the devices heard since the last sample: hbCur moved
    errCnt, disconnFlag, enterFlag,
    machine,    \* STATE8
    task,       \* where comm_offline_task is
    quiet       \* history: samples since a device was heard or enabled, to JdgCnt + 2

commVars == <<commEn, beaten, errCnt, disconnFlag, enterFlag, machine, task, quiet>>

Fsm == {"FSM_WORKING", "FSM_FAULT", "FSM_STOP"}

CommTypeOK ==
    /\ commEn \in SUBSET Devices
    /\ beaten \in SUBSET Devices
    /\ errCnt \in [Devices -> 0 .. CountWidth - 1]
    /\ disconnFlag \in [Devices -> BOOLEAN]
    /\ enterFlag \in BOOLEAN
    /\ machine \in Fsm
    /\ task \in {"check", "handle", "stopping", "booting"}
    /\ quiet \in [Devices -> 0 .. JdgCnt + 2]

CommInit ==
    /\ commEn \in Enables
    /\ beaten = {}
    /\ errCnt = [d \in Devices |-> 0]
    /\ disconnFlag = [d \in Devices |-> FALSE]
    /\ enterFlag = FALSE
    /\ machine = "FSM_STOP"
    /\ task = "check"
    /\ quiet = [d \in Devices |-> 0]
-----------------------------------------------------------------------------
(* comm_offline_task.                                                      *)

Silent(d) == d \in commEn /\ d \notin beaten

\* Mutated form: the count is kept over a heartbeat.
CountedKept(d) == IF Silent(d) THEN (errCnt[d] + 1) % CountWidth ELSE errCnt[d]

\* Mutated form: errCnt is wider than the declared uint16_t.
CountedWide(d) == IF Silent(d) THEN errCnt[d] + 1 ELSE 0

Counted(d) == IF Silent(d) THEN (errCnt[d] + 1) % CountWidth ELSE 0

\* errCnt++ > jdgCnt compares the count before the step; a flag that is set
\* stays when the count wraps.
Judged(d) == Silent(d) /\ (disconnFlag[d] \/ errCnt[d] > JdgCnt)

\* comm_offline_check.
Check ==
    /\ task = "check"
    /\ errCnt' = [d \in Devices |-> Counted(d)]
    /\ disconnFlag' = [d \in Devices |-> Judged(d)]
    /\ quiet' = [d \in Devices |->
          IF ~Silent(d) THEN 0 ELSE IF quiet[d] > JdgCnt THEN JdgCnt + 2 ELSE quiet[d] + 1]
    /\ beaten' = {}
    /\ task' = "handle"
    /\ UNCHANGED <<commEn, enterFlag, machine>>

\* Some device is disconnected.
Lost == \E d \in Devices : disconnFlag[d]

\* Mutated form: a machine in FSM_FAULT is stopped.
StopsFault == Lost /\ ~enterFlag /\ machine = "FSM_FAULT"

StopsNow == Lost /\ ~enterFlag /\ machine = "FSM_WORKING"

\* Mutated form: a machine in FSM_FAULT is started.
StartsFault == ~Lost /\ enterFlag /\ machine = "FSM_FAULT"

StartsNow == ~Lost /\ enterFlag /\ machine = "FSM_STOP"

\* comm_offline_handle up to the sleep of set_pcs_shutdown or set_pcs_bootup.
Handle ==
    /\ task = "handle"
    /\ CASE StopsNow -> task' = "stopping" /\ machine' = "FSM_STOP"
         [] StartsNow -> task' = "booting" /\ machine' = "FSM_WORKING"
         [] OTHER -> task' = "check" /\ UNCHANGED machine
    /\ UNCHANGED <<commEn, beaten, errCnt, disconnFlag, enterFlag, quiet>>

\* The sleep is over and enterFlag is written.
Handled ==
    /\ task \in {"stopping", "booting"}
    /\ enterFlag' = (task = "stopping")
    /\ task' = "check"
    /\ UNCHANGED <<commEn, beaten, errCnt, disconnFlag, machine, quiet>>
-----------------------------------------------------------------------------
(* The surroundings.                                                       *)

\* A CAN frame of the EMU or a Modbus request of the HMI.
Beat(d) ==
    /\ beaten' = beaten \cup {d}
    /\ UNCHANGED <<commEn, errCnt, disconnFlag, enterFlag, machine, task, quiet>>

\* The Modbus server writes MB_CO_EN.
Configure(devices) ==
    /\ commEn' = devices
    /\ UNCHANGED <<beaten, errCnt, disconnFlag, enterFlag, machine, task, quiet>>

\* Operators start and stop the machine, and it trips and is reset.
MachineMoves(m) ==
    /\ machine' = m
    /\ UNCHANGED <<commEn, beaten, errCnt, disconnFlag, enterFlag, task, quiet>>

CommNext ==
    \/ Check \/ Handle \/ Handled
    \/ \E d \in Devices : Beat(d)
    \/ \E devices \in Enables : Configure(devices)
    \/ \E m \in Fsm : MachineMoves(m)

CommSpec == CommInit /\ [][CommNext]_commVars

\* The task is scheduled for ever.
CommFairSpec == CommSpec /\ WF_commVars(Check) /\ WF_commVars(Handle) /\ WF_commVars(Handled)
-----------------------------------------------------------------------------
(* Properties.                                                             *)

\* A device is judged disconnected exactly when more than jdgCnt + 1 samples
\* in a row found it enabled and silent: no early alarm, no missed one, and
\* none lost when the 16-bit count wraps.
LossIsSilence == \A d \in Devices : disconnFlag[d] <=> quiet[d] = JdgCnt + 2

\* A machine that works from a moment on at which both devices are heard and no
\* earlier stop is on the task's books does not go on working through a lasting
\* loss: what MB_CO_EN, "communication-loss shutdown enable", is for.  Without
\* the second condition it would: others may start the machine that the task
\* stopped, and enterFlag stays set.
LossStops ==
    [](~Lost /\ ~enterFlag /\ task # "stopping" /\ [](machine = "FSM_WORKING")
           => []<>~Lost)

\* A machine stopped for a loss does not stay stopped once both devices are
\* heard again.
ReturnStarts == ~<>[](machine = "FSM_STOP" /\ enterFlag /\ ~Lost)
=============================================================================
