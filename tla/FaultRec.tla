------------------------------ MODULE FaultRec ------------------------------
(***************************************************************************)
(* The fault recovery: a task watches a machine that tripped, or that the  *)
(* frequency protection stopped, and arms a one-shot timer when it can be  *)
(* recovered; the timer's callback stops a tripped machine and signals a   *)
(* boot task, which starts the machine.  An operator's stop takes the      *)
(* recovery back.                                                          *)
(*                                                                         *)
(* A pass of the task decides first and acts afterwards, and a timer is    *)
(* started and stopped in two steps, startFlag and the call of the RTOS:   *)
(* the callback, the boot task and operators come in between.  The machine *)
(* obeys a command when it is given.                                       *)
(***************************************************************************)
EXTENDS Integers

CONSTANTS
    Waits   \* the settings <<frWaitTime, bootupTime>>, in 0.1 s: a bound

ASSUME FaultRecAssumption == Waits \subseteq Nat \X Nat

VARIABLES
    machine,    \* STATE8
    dirty,      \* STATE0 to STATE6 show a fault that is there now
    locked,     \* ERR_LCK_STATE1 to 6 hold one that must not be recovered from
    freqBad,    \* the frequency is beyond a threshold
    commLost,   \* an enabled device is disconnected
    frEnble, handleFlag, startFlag, freqProtFault, manShutdownFlag,
    delay,      \* what the timer was last started with, in ms
    running,    \* the RTOS counts the timer down
    due,        \* it ran out and the callback is queued
    task,       \* what the task's pass is about to do
    stopping,   \* the callback sleeps in set_pcs_shutdown
    signal,     \* the boot task's signal
    booting,    \* the boot task sleeps in set_pcs_bootup
    operator,   \* where an operator's stop is
    refused,    \* history: the task said it cannot recover, the lock still holds
    crossed     \* history: an operator's stop was at the timer during a pass

envVars == <<dirty, locked, freqBad, commLost, frEnble>>
timerVars == <<startFlag, delay, running, due>>
bootVars == <<stopping, signal, booting>>
vars == <<machine, envVars, handleFlag, freqProtFault, manShutdownFlag,
          timerVars, task, bootVars, operator, refused, crossed>>

Fsm == {"FSM_WORKING", "FSM_FAULT", "FSM_STOP"}

TypeOK ==
    /\ machine \in Fsm
    /\ dirty \in BOOLEAN /\ locked \in BOOLEAN /\ freqBad \in BOOLEAN
    /\ commLost \in BOOLEAN /\ frEnble \in BOOLEAN
    /\ handleFlag \in BOOLEAN /\ startFlag \in BOOLEAN
    /\ freqProtFault \in BOOLEAN /\ manShutdownFlag \in BOOLEAN
    /\ delay \in Nat
    /\ running \in BOOLEAN /\ due \in BOOLEAN
    /\ task \in {"pass", "clear", "disable", "commStop", "arm", "start", "startCall",
                 "stop", "stopCall"}
    /\ stopping \in BOOLEAN /\ signal \in BOOLEAN /\ booting \in BOOLEAN
    /\ operator \in {"no", "marked", "test", "stopCall", "freq", "stop"}
    /\ refused \in BOOLEAN /\ crossed \in BOOLEAN

Init ==
    /\ machine = "FSM_STOP"
    /\ dirty = FALSE /\ locked = FALSE /\ freqBad = FALSE /\ commLost = FALSE
    /\ frEnble \in BOOLEAN
    /\ handleFlag = FALSE /\ startFlag = FALSE
    /\ freqProtFault = FALSE /\ manShutdownFlag = FALSE
    /\ delay = 0 /\ running = FALSE /\ due = FALSE
    /\ task = "pass"
    /\ stopping = FALSE /\ signal = FALSE /\ booting = FALSE
    /\ operator = "no"
    /\ refused = FALSE /\ crossed = FALSE

\* A stop ends whatever the machine does, a fault whose cause is gone included.
AfterStop == IF dirty THEN machine ELSE "FSM_STOP"

\* A fault the task does not recover from, and what makes a pass give up.
Locked == ~freqProtFault /\ machine = "FSM_FAULT" /\ locked
NothingToDo ==
    \/ ~freqProtFault /\ machine # "FSM_FAULT"
    \/ freqProtFault /\ (machine = "FSM_WORKING" \/ freqBad)
    \/ dirty

\* An operator's stop is between its test of startFlag and the timer.
AtTimer == operator \in {"test", "stopCall"}
-----------------------------------------------------------------------------
(* fault_rec_task.                                                         *)

Pass ==
    /\ task = "pass"
    /\ task' = CASE ~frEnble -> "disable"
                 [] frEnble /\ (Locked \/ NothingToDo) -> "clear"
                 [] frEnble /\ ~Locked /\ ~NothingToDo /\ commLost -> "commStop"
                 [] OTHER -> "arm"
    /\ crossed' = (crossed \/ AtTimer)
    /\ refused' = (refused \/ (frEnble /\ Locked))
    /\ UNCHANGED <<machine, handleFlag, freqProtFault, manShutdownFlag, operator>>
    /\ UNCHANGED envVars /\ UNCHANGED timerVars /\ UNCHANGED bootVars

\* The pass gives up: handleFlag = 0, and the timer is stopped if the recovery
\* is disabled or the communication lost.
GiveUp ==
    /\ task \in {"clear", "disable", "commStop"}
    /\ handleFlag' = FALSE
    /\ freqProtFault' = (freqProtFault /\ task # "disable")
    /\ task' = IF task = "clear" THEN "pass" ELSE "stop"
    /\ UNCHANGED <<machine, manShutdownFlag, operator, refused, crossed>>
    /\ UNCHANGED envVars /\ UNCHANGED timerVars /\ UNCHANGED bootVars

\* The recovery is armed once.
Arm ==
    /\ task = "arm"
    /\ handleFlag' = TRUE
    /\ task' = IF handleFlag THEN "pass" ELSE "start"
    /\ UNCHANGED <<machine, freqProtFault, manShutdownFlag, operator, refused, crossed>>
    /\ UNCHANGED envVars /\ UNCHANGED timerVars /\ UNCHANGED bootVars

\* Mutated form: a stop leaves startFlag set.
TimerTestKeepsFlag ==
    /\ task \in {"start", "stop"}
    /\ startFlag' = (startFlag \/ task = "start")
    /\ task' = IF startFlag = (task = "start") THEN "pass"
               ELSE IF task = "start" THEN "startCall" ELSE "stopCall"
    /\ UNCHANGED <<machine, handleFlag, freqProtFault, manShutdownFlag, delay, running,
                   due, operator, refused, crossed>>
    /\ UNCHANGED envVars /\ UNCHANGED bootVars

\* fault_rec_timer_start and fault_rec_timer_stop: startFlag is tested and set.
TimerTest ==
    /\ task \in {"start", "stop"}
    /\ IF startFlag = (task = "start")
       THEN task' = "pass" /\ UNCHANGED startFlag
       ELSE /\ startFlag' = (task = "start")
            /\ task' = IF task = "start" THEN "startCall" ELSE "stopCall"
    /\ UNCHANGED <<machine, handleFlag, freqProtFault, manShutdownFlag, delay, running,
                   due, operator, refused, crossed>>
    /\ UNCHANGED envVars /\ UNCHANGED bootVars

\* Mutated form: the waiting time is not kept above zero.
TimeMsUnclamped(wait) == (wait[1] - wait[2]) * 100

\* The waiting time less the time a start takes, 10 ms at least.
TimeMs(wait) ==
    LET ms == (wait[1] - wait[2]) * 100
    IN  IF ms < 10 THEN 10 ELSE ms

TimerStart ==
    /\ task = "startCall"
    /\ \E wait \in Waits : delay' = TimeMs(wait)
    /\ running' = TRUE
    /\ task' = "pass"
    /\ UNCHANGED <<machine, handleFlag, startFlag, freqProtFault, manShutdownFlag, due,
                   operator, refused, crossed>>
    /\ UNCHANGED envVars /\ UNCHANGED bootVars

\* osTimerStop does not take back a queued callback.
TimerStop ==
    /\ task = "stopCall"
    /\ running' = FALSE
    /\ task' = "pass"
    /\ UNCHANGED <<machine, handleFlag, startFlag, freqProtFault, manShutdownFlag, delay,
                   due, operator, refused, crossed>>
    /\ UNCHANGED envVars /\ UNCHANGED bootVars
-----------------------------------------------------------------------------
(* The timer thread and the boot task.                                     *)

Expire ==
    /\ running
    /\ running' = FALSE /\ due' = TRUE
    /\ UNCHANGED <<machine, handleFlag, startFlag, freqProtFault, manShutdownFlag, delay,
                   task, operator, refused, crossed>>
    /\ UNCHANGED envVars /\ UNCHANGED bootVars

\* Mutated form: the early return leaves handleFlag set.
HandleLeftOver(giveUp, mark) == handleFlag /\ ~mark

\* handleFlag once the callback returns or sleeps.
HandleLeft(giveUp, mark) == handleFlag /\ ~giveUp /\ ~mark

\* do_fault_rec up to the sleep of set_pcs_shutdown, which takes a pending
\* mark of an operator for its own.
DoFaultRec ==
    /\ due /\ ~stopping
    /\ due' = FALSE
    /\ startFlag' = FALSE
    /\ LET giveUp == (freqProtFault /\ freqBad) \/ dirty
           stop == ~giveUp /\ machine = "FSM_FAULT"
           mark == stop /\ manShutdownFlag
       IN  /\ handleFlag' = HandleLeft(giveUp, mark)
           /\ freqProtFault' = (freqProtFault /\ ~mark)
           /\ manShutdownFlag' = (manShutdownFlag /\ ~mark)
           /\ stopping' = stop
           /\ machine' = IF stop THEN AfterStop ELSE machine
           /\ signal' = (signal \/ (~giveUp /\ ~stop))
    /\ UNCHANGED <<delay, running, task, booting, operator, refused, crossed>>
    /\ UNCHANGED envVars

\* The callback's stop is over.
CallbackSignals ==
    /\ stopping
    /\ stopping' = FALSE
    /\ signal' = TRUE
    /\ UNCHANGED <<machine, handleFlag, freqProtFault, manShutdownFlag, task, booting,
                   operator, refused, crossed>>
    /\ UNCHANGED envVars /\ UNCHANGED timerVars

Boot ==
    /\ signal /\ ~booting
    /\ signal' = FALSE
    /\ booting' = TRUE
    /\ machine' = IF machine = "FSM_STOP" THEN "FSM_WORKING" ELSE machine
    /\ UNCHANGED <<handleFlag, freqProtFault, manShutdownFlag, task, stopping, operator,
                   refused, crossed>>
    /\ UNCHANGED envVars /\ UNCHANGED timerVars

BootDone ==
    /\ booting
    /\ booting' = FALSE
    /\ handleFlag' = FALSE
    /\ freqProtFault' = FALSE
    /\ UNCHANGED <<machine, manShutdownFlag, task, stopping, signal, operator, refused, crossed>>
    /\ UNCHANGED envVars /\ UNCHANGED timerVars
-----------------------------------------------------------------------------
(* An operator's stop: manShutdownFlag, then set_pcs_shutdown.             *)

OperatorMark ==
    /\ operator = "no"
    /\ manShutdownFlag' = TRUE
    /\ operator' = "marked"
    /\ UNCHANGED <<machine, handleFlag, freqProtFault, task, refused, crossed>>
    /\ UNCHANGED envVars /\ UNCHANGED timerVars /\ UNCHANGED bootVars

OperatorTakesMark ==
    /\ operator = "marked"
    /\ manShutdownFlag' = FALSE
    /\ handleFlag' = (handleFlag /\ ~manShutdownFlag)
    /\ crossed' = (crossed \/ (manShutdownFlag /\ task # "pass"))
    /\ operator' = IF manShutdownFlag THEN "test" ELSE "stop"
    /\ UNCHANGED <<machine, freqProtFault, task, refused>>
    /\ UNCHANGED envVars /\ UNCHANGED timerVars /\ UNCHANGED bootVars

OperatorTest ==
    /\ operator = "test"
    /\ startFlag' = FALSE
    /\ operator' = IF startFlag THEN "stopCall" ELSE "freq"
    /\ UNCHANGED <<machine, handleFlag, freqProtFault, manShutdownFlag, delay, running,
                   due, task, refused, crossed>>
    /\ UNCHANGED envVars /\ UNCHANGED bootVars

OperatorTimerStop ==
    /\ operator = "stopCall"
    /\ running' = FALSE
    /\ operator' = "freq"
    /\ UNCHANGED <<machine, handleFlag, startFlag, freqProtFault, manShutdownFlag, delay,
                   due, task, refused, crossed>>
    /\ UNCHANGED envVars /\ UNCHANGED bootVars

OperatorClearsFreq ==
    /\ operator = "freq"
    /\ freqProtFault' = FALSE
    /\ operator' = "stop"
    /\ UNCHANGED <<machine, handleFlag, manShutdownFlag, task, refused, crossed>>
    /\ UNCHANGED envVars /\ UNCHANGED timerVars /\ UNCHANGED bootVars

OperatorStop ==
    /\ operator = "stop"
    /\ machine' = AfterStop
    /\ operator' = "no"
    /\ UNCHANGED <<handleFlag, freqProtFault, manShutdownFlag, task, refused, crossed>>
    /\ UNCHANGED envVars /\ UNCHANGED timerVars /\ UNCHANGED bootVars
-----------------------------------------------------------------------------
(* The surroundings.                                                       *)

Quiet == 
    /\ UNCHANGED <<handleFlag, manShutdownFlag, task, operator, crossed>>
    /\ UNCHANGED timerVars /\ UNCHANGED bootVars

\* The machine trips, or a tripped one meets another fault.
Trip ==
    /\ machine' = "FSM_FAULT"
    /\ dirty' = TRUE
    /\ locked' \in {locked, TRUE}
    /\ UNCHANGED <<freqBad, commLost, frEnble, freqProtFault, refused>> /\ Quiet

CauseGone ==
    /\ dirty' = FALSE
    /\ UNCHANGED <<machine, locked, freqBad, commLost, frEnble, freqProtFault,
                   refused>> /\ Quiet

\* pcs_reset takes the lock back.
LockReset ==
    /\ locked' = FALSE
    /\ refused' = FALSE
    /\ UNCHANGED <<machine, dirty, freqBad, commLost, frEnble, freqProtFault>> /\ Quiet

\* The frequency goes out of range or back, and the protection stops a working machine.
FreqMoves ==
    /\ freqBad' = ~freqBad
    /\ UNCHANGED <<machine, dirty, locked, commLost, frEnble, freqProtFault, refused>> /\ Quiet

FreqStop ==
    /\ machine = "FSM_WORKING" /\ freqBad
    /\ machine' = "FSM_STOP"
    /\ freqProtFault' = TRUE
    /\ UNCHANGED <<refused>>
    /\ UNCHANGED envVars /\ Quiet

CommMoves ==
    /\ commLost' = ~commLost
    /\ UNCHANGED <<machine, dirty, locked, freqBad, frEnble, freqProtFault, refused>> /\ Quiet

EnableMoves ==
    /\ frEnble' = ~frEnble
    /\ UNCHANGED <<machine, dirty, locked, freqBad, commLost, freqProtFault, refused>> /\ Quiet

\* Somebody starts the machine, or a protection stops it.
OthersMove ==
    /\ machine' \in {"FSM_WORKING", "FSM_STOP"}
    /\ machine # "FSM_FAULT"
    /\ UNCHANGED <<freqProtFault, refused>>
    /\ UNCHANGED envVars /\ Quiet

Next ==
    \/ Pass \/ GiveUp \/ Arm \/ TimerTest \/ TimerStart \/ TimerStop
    \/ Expire \/ DoFaultRec \/ CallbackSignals \/ Boot \/ BootDone
    \/ OperatorMark \/ OperatorTakesMark \/ OperatorTest \/ OperatorTimerStop
    \/ OperatorClearsFreq \/ OperatorStop
    \/ Trip \/ CauseGone \/ LockReset \/ FreqMoves \/ FreqStop \/ CommMoves
    \/ EnableMoves \/ OthersMove

Spec == Init /\ [][Next]_vars

\* The threads run and a running timer runs out.
FairSpec ==
    /\ Spec
    /\ WF_vars(Pass \/ GiveUp \/ Arm \/ TimerTest \/ TimerStart \/ TimerStop)
    /\ WF_vars(Expire) /\ WF_vars(DoFaultRec) /\ WF_vars(CallbackSignals)
    /\ WF_vars(Boot) /\ WF_vars(BootDone)
    /\ WF_vars(OperatorTakesMark \/ OperatorTest \/ OperatorTimerStop
               \/ OperatorClearsFreq \/ OperatorStop)
-----------------------------------------------------------------------------
(* Properties.                                                             *)

\* startFlag is only set over a timer that runs, has run out and is about to
\* act, or is being started.  Only a stop by an operator that falls into a pass
\* can break this.
StartTimed == crossed \/ (startFlag => running \/ due \/ task = "startCall")

\* While the task takes a recovery for being handled, a step towards it is
\* under way: otherwise it would wait for ever.
HandleMeansUnderWay ==
    crossed \/ (handleFlag =>
        running \/ due \/ stopping \/ signal \/ booting
        \/ task \in {"start", "startCall", "clear", "disable", "commStop"})

\* Both together: neither flag outlives what it stands for.
FlagsTrue == StartTimed /\ HandleMeansUnderWay

\* A machine that can be recovered does not stay stopped for ever, as long as no
\* operator's stop falls into a pass.
Recoverable ==
    /\ frEnble /\ ~commLost /\ ~dirty
    /\ \/ ~freqProtFault /\ machine = "FSM_FAULT" /\ ~locked
       \/ freqProtFault /\ machine # "FSM_WORKING" /\ ~freqBad
FaultRecovers == ~<>[](Recoverable /\ ~crossed)

\* The message of the task, "lock state can't recovery!": the recovery does
\* not start a machine whose lock it saw and that still holds.
LockedStays == [][refused /\ Boot => machine' = machine]_vars
=============================================================================
