---------------------------- MODULE AutoRestart -----------------------------
(***************************************************************************)
(* The automatic restart in pcs_handle_task.  In EMS control with strategy *)
(* bit 7 set, a pass of the task clears a locked fault whose cause is gone *)
(* with a stop order, counts some passes, and starts the machine again.    *)
(* After so many starts it withdraws its own permission, bootup_flag, and  *)
(* a window that began with the first of them gives the permission back.   *)
(* Operators write bootup_flag as well, between any two steps of a pass:   *)
(* the two command functions sleep for 80 ms.                              *)
(*                                                                         *)
(* Every local of the task but time_open_tick is uninitialised: a task     *)
(* that is created, at boot or after a firmware update terminated it, may  *)
(* find any value in them.  The fault registers are read afresh in every   *)
(* pass and matter through one question only.  recover_flag and            *)
(* auto_recover_flag are written and never read.                           *)
(***************************************************************************)
EXTENDS Integers

CONSTANTS
    Limit,    \* starts before the permission is withdrawn, 5 in the program
    Wait,     \* passes counted after the faults are cleared, 10
    Window,   \* passes the window lasts, 3600
    MinShort, MaxShort \* the range of a short, -32768 .. 32767

ASSUME RestartAssumption ==
    /\ Limit \in Nat \ {0}
    /\ MinShort \in Int /\ MinShort < 0
    /\ MaxShort \in Nat
    /\ Limit < MaxShort
    /\ Wait \in 1 .. MaxShort
    /\ Window \in 1 .. MaxShort

VARIABLES
    enabled,          \* control mode is EMS_CTRL and bit 7 of strategy_en is set
    bootup_flag,
    auto_clearn_flag, \* faults were cleared, the passes are being counted
    tick_clearn,
    permit_open_flag,
    time_open_tick,   \* automatic starts in this window
    tm_first_open_flag, \* the window is running
    tick_total,
    stage,               \* where a pass is
    starts,           \* history: automatic starts since the permission was
                      \* last given or the task created
    gaveUp            \* history: bootup_flag is 0 because the task withdrew it

locals == <<auto_clearn_flag, tick_clearn, permit_open_flag, time_open_tick,
            tm_first_open_flag, tick_total>>

restartVars == <<enabled, bootup_flag, locals, stage, starts, gaveUp>>

Short == MinShort .. MaxShort

\* n++ of a short.
NextShort(n) == IF n = MaxShort THEN MinShort ELSE n + 1

RestartTypeOK ==
    /\ enabled \in BOOLEAN
    /\ bootup_flag \in BOOLEAN
    /\ auto_clearn_flag \in BOOLEAN
    /\ tick_clearn \in Short
    /\ permit_open_flag \in BOOLEAN
    /\ time_open_tick \in 0 .. Limit - 1
    /\ tm_first_open_flag \in BOOLEAN
    /\ tick_total \in Short
    /\ stage \in {"test", "clear", "count", "open", "window", "dead"}
    /\ starts \in Nat
    /\ gaveUp \in BOOLEAN

\* What a new task finds in its locals.
Created ==
    /\ auto_clearn_flag' \in BOOLEAN
    /\ tick_clearn' \in Short
    /\ permit_open_flag' \in BOOLEAN
    /\ time_open_tick' = 0
    /\ tm_first_open_flag' \in BOOLEAN
    /\ tick_total' \in Short

RestartInit ==
    /\ enabled \in BOOLEAN
    /\ bootup_flag = TRUE
    /\ auto_clearn_flag \in BOOLEAN
    /\ tick_clearn \in Short
    /\ permit_open_flag \in BOOLEAN
    /\ time_open_tick = 0
    /\ tm_first_open_flag \in BOOLEAN
    /\ tick_total \in Short
    /\ stage = "test"
    /\ starts = 0
    /\ gaveUp = FALSE
-----------------------------------------------------------------------------
(* A pass.                                                                 *)

\* The pass looks at the strategy and at the permission; where there is a
\* fault to clear it goes to sleep in set_pcs_shutdown.
Test ==
    /\ stage = "test" /\ enabled
    /\ stage' \in IF bootup_flag THEN {"clear", "count"} ELSE {"window"}
    /\ UNCHANGED <<enabled, bootup_flag, locals, starts, gaveUp>>

\* set_pcs_shutdown returns.
Clear ==
    /\ stage = "clear"
    /\ stage' = "count"
    /\ auto_clearn_flag' = TRUE
    /\ UNCHANGED <<enabled, bootup_flag, tick_clearn, permit_open_flag,
                   time_open_tick, tm_first_open_flag, tick_total, starts, gaveUp>>

\* The passes after the clearing; the last of them goes to sleep in
\* set_pcs_bootup.
Count ==
    /\ stage = "count"
    /\ IF auto_clearn_flag
       THEN LET over == NextShort(tick_clearn) >= Wait IN
            /\ tick_clearn' = IF over THEN 0 ELSE NextShort(tick_clearn)
            /\ auto_clearn_flag' = ~over
            /\ permit_open_flag' = over
       ELSE UNCHANGED <<tick_clearn, auto_clearn_flag, permit_open_flag>>
    /\ stage' = IF permit_open_flag' THEN "open" ELSE "window"
    /\ starts' = IF permit_open_flag' THEN starts + 1 ELSE starts
    /\ UNCHANGED <<enabled, bootup_flag, time_open_tick, tm_first_open_flag,
                   tick_total, gaveUp>>

\* Mutated form: the permission is withdrawn one start late.
OpenLate ==
    /\ stage = "open"
    /\ stage' = "window"
    /\ permit_open_flag' = FALSE
    /\ tm_first_open_flag' = (tm_first_open_flag \/ time_open_tick = 0)
    /\ IF time_open_tick + 1 > Limit
       THEN time_open_tick' = 0 /\ bootup_flag' = FALSE /\ gaveUp' = TRUE
       ELSE time_open_tick' = time_open_tick + 1 /\ UNCHANGED <<bootup_flag, gaveUp>>
    /\ UNCHANGED <<enabled, auto_clearn_flag, tick_clearn, tick_total, starts>>

\* set_pcs_bootup returns.
Open ==
    /\ stage = "open"
    /\ stage' = "window"
    /\ permit_open_flag' = FALSE
    /\ tm_first_open_flag' = (tm_first_open_flag \/ time_open_tick = 0)
    /\ IF time_open_tick + 1 >= Limit
       THEN time_open_tick' = 0 /\ bootup_flag' = FALSE /\ gaveUp' = TRUE
       ELSE time_open_tick' = time_open_tick + 1 /\ UNCHANGED <<bootup_flag, gaveUp>>
    /\ UNCHANGED <<enabled, auto_clearn_flag, tick_clearn, tick_total, starts>>

\* Mutated form: the end of the window does not give the permission back.
WindowWithholds ==
    /\ stage = "window"
    /\ stage' = "test"
    /\ IF ~tm_first_open_flag
       THEN UNCHANGED <<bootup_flag, time_open_tick, tm_first_open_flag, tick_total,
                        starts, gaveUp>>
       ELSE IF NextShort(tick_total) >= Window
       THEN /\ tick_total' = 0 /\ time_open_tick' = 0 /\ tm_first_open_flag' = FALSE
            /\ UNCHANGED <<bootup_flag, starts, gaveUp>>
       ELSE /\ tick_total' = NextShort(tick_total)
            /\ UNCHANGED <<bootup_flag, time_open_tick, tm_first_open_flag, starts, gaveUp>>
    /\ UNCHANGED <<enabled, auto_clearn_flag, tick_clearn, permit_open_flag>>

\* A running window is counted, whoever took the permission away; at its end
\* the permission is given.
CountWindow ==
    /\ stage = "window"
    /\ stage' = "test"
    /\ IF ~tm_first_open_flag
       THEN UNCHANGED <<bootup_flag, time_open_tick, tm_first_open_flag, tick_total,
                        starts, gaveUp>>
       ELSE IF NextShort(tick_total) >= Window
       THEN /\ bootup_flag' = TRUE /\ starts' = 0 /\ gaveUp' = FALSE
            /\ time_open_tick' = 0 /\ tick_total' = 0 /\ tm_first_open_flag' = FALSE
       ELSE /\ tick_total' = NextShort(tick_total)
            /\ UNCHANGED <<bootup_flag, time_open_tick, tm_first_open_flag, starts, gaveUp>>
    /\ UNCHANGED <<enabled, auto_clearn_flag, tick_clearn, permit_open_flag>>

Pass == Test \/ Clear \/ Count \/ Open \/ CountWindow
-----------------------------------------------------------------------------
(* The surroundings.                                                       *)

\* An operator's order (HMI, Modbus, EMU) has been given and is noted.
OperatorNotes(permission) ==
    /\ bootup_flag' = permission
    /\ gaveUp' = FALSE
    /\ starts' = IF permission THEN 0 ELSE starts
    /\ UNCHANGED <<enabled, locals, stage>>

\* The control mode or the strategy word is written.
Configure ==
    /\ enabled' = ~enabled
    /\ UNCHANGED <<bootup_flag, locals, stage, starts, gaveUp>>

\* A firmware update terminates the task wherever it is.
Terminate ==
    /\ stage # "dead"
    /\ stage' = "dead"
    /\ gaveUp' = FALSE
    /\ UNCHANGED <<enabled, bootup_flag, locals, starts>>

\* A download that failed creates it again.
Create ==
    /\ stage = "dead"
    /\ Created
    /\ stage' = "test"
    /\ starts' = 0
    /\ UNCHANGED <<enabled, bootup_flag, gaveUp>>

RestartNext ==
    \/ Pass
    \/ \E permission \in BOOLEAN : OperatorNotes(permission)
    \/ Configure \/ Terminate \/ Create

RestartSpec == RestartInit /\ [][RestartNext]_restartVars

\* The task is scheduled for ever: osDelay ends, and the two functions return.
RestartFairSpec == RestartSpec /\ WF_restartVars(Pass)
-----------------------------------------------------------------------------
(* Properties.                                                             *)

\* The machine is started automatically at most Limit times on one permission,
\* whatever an operator writes in the middle of a pass and whatever the
\* uninitialised locals held.
RestartsLimited == starts <= Limit

\* A permission the task withdrew is not lost: the window that will give it
\* back is running.
WindowOutstanding == gaveUp => tm_first_open_flag

\* And given back it is, while the strategy stays enabled, unless an operator
\* decides otherwise or the task is terminated.
GiveUpEnds == gaveUp ~> (~gaveUp \/ ~enabled)
=============================================================================
