------------------------------ MODULE FreqProt ------------------------------
(***************************************************************************)
(* The frequency protection: a task samples the frequency while the        *)
(* machine is working and starts and stops four one-shot timers; the timer *)
(* thread, which has the higher priority, stops the machine when one of    *)
(* them runs out.                                                          *)
(*                                                                         *)
(* A timer is started and stopped in two steps, its startFlag first and    *)
(* the call of the RTOS second, and the task or an operator's stop can be  *)
(* interrupted in between.  A callback runs until set_pcs_shutdown sleeps. *)
(***************************************************************************)
EXTENDS Sequences

CONSTANTS
    NearUp,     \* normalUpNo: the over-frequency timer with the lower threshold
    NearDown,   \* normalDownNo: the under-frequency timer with the higher one
    Levels      \* where the frequency goes: a bound, some of AllLevels

UpTimers == {"OF1", "OF2"}
DownTimers == {"UF1", "UF2"}
Timers == UpTimers \cup DownTimers

\* Where the frequency is: within the nearer thresholds, beyond one of them,
\* beyond both of a side.
AllLevels == {"normal", "over", "farOver", "under", "farUnder"}

ASSUME ThresholdsAssumption ==
    /\ NearUp \in UpTimers /\ NearDown \in DownTimers
    /\ Levels \subseteq AllLevels

FarUp == CHOOSE t \in UpTimers : t # NearUp
FarDown == CHOOSE t \in DownTimers : t # NearDown

Threads == {"task", "operator"}
Ops == [do : {"start", "stop"}, timer : Timers]

VARIABLES
    freq,       \* Addr_Param271, as a level
    working,    \* STATE8 is FSM_WORKING
    flag,       \* fpi[t].startFlag
    running,    \* the timers the RTOS is counting down
    due,        \* the timers that ran out and whose callback is queued
    fault,      \* freqProtFault
    man,        \* manShutdownFlag
    enterUp,    \* enterUpFlag = 1
    enterDown,  \* enterDownFlag = 1
    seen,       \* the level the current or last pass of the task works on
    todo,       \* for each thread, the timers it is still to start or stop
    called,     \* the threads between the flag and the call of the RTOS
    stopping,   \* the timer thread sleeps in set_pcs_shutdown
    ordering,   \* where the operator's thread is
    crossed     \* history: an operator's stop was at the timers during a pass

vars == <<freq, working, flag, running, due, fault, man, enterUp, enterDown,
          seen, todo, called, stopping, ordering, crossed>>
timerVars == <<flag, running, due>>

TypeOK ==
    /\ freq \in AllLevels
    /\ working \in BOOLEAN
    /\ flag \in [Timers -> BOOLEAN]
    /\ running \subseteq Timers
    /\ due \subseteq Timers
    /\ fault \in BOOLEAN
    /\ man \in BOOLEAN
    /\ enterUp \in BOOLEAN /\ enterDown \in BOOLEAN
    /\ seen \in AllLevels
    /\ todo \in [Threads -> Seq(Ops)]
    /\ called \subseteq Threads
    /\ stopping \in BOOLEAN
    /\ ordering \in {"no", "marked", "inLoop", "stop"}
    /\ crossed \in BOOLEAN

\* enterUpFlag and enterDownFlag are not initialised.
Init ==
    /\ freq = "normal"
    /\ working = FALSE
    /\ flag = [t \in Timers |-> FALSE]
    /\ running = {} /\ due = {}
    /\ fault = FALSE /\ man = FALSE
    /\ enterUp \in BOOLEAN /\ enterDown \in BOOLEAN
    /\ seen = "normal"
    /\ todo = [h \in Threads |-> <<>>]
    /\ called = {}
    /\ stopping = FALSE
    /\ ordering = "no"
    /\ crossed = FALSE

StartOp(t) == [do |-> "start", timer |-> t]
StopOp(t) == [do |-> "stop", timer |-> t]

\* Mutated form: the loop runs one past the last timer.
StopAllPastEnd == <<StopOp("OF1"), StopOp("OF2"), StopOp("UF1"), StopOp("UF2"), StopOp("MAX")>>

\* The loop over all timers.
StopAll == <<StopOp("OF1"), StopOp("OF2"), StopOp("UF1"), StopOp("UF2")>>
-----------------------------------------------------------------------------
(* freq_prot_task.                                                         *)

\* Mutated form: the nearer threshold starts no timer of its own.
PassFarOnly(level, up, down) ==
    CASE level = "normal" -> StopAll
      [] level = "over" -> IF up THEN <<StopOp(FarUp)>> ELSE <<>>
      [] level = "farOver" -> <<StartOp(FarUp)>>
      [] level = "under" -> IF down THEN <<StopOp(FarDown)>> ELSE <<>>
      [] level = "farUnder" -> <<StartOp(FarDown)>>

\* What a pass does at a level: back in the normal range every timer is
\* stopped; beyond the nearer threshold its timer runs; the timer of the far
\* one is started beyond it, and stopped on the way back.
Pass(level, up, down) ==
    CASE level = "normal" -> StopAll
      [] level = "over" -> <<StartOp(NearUp)>> \o IF up THEN <<StopOp(FarUp)>> ELSE <<>>
      [] level = "farOver" -> <<StartOp(NearUp), StartOp(FarUp)>>
      [] level = "under" -> <<StartOp(NearDown)>> \o IF down THEN <<StopOp(FarDown)>> ELSE <<>>
      [] level = "farUnder" -> <<StartOp(NearDown), StartOp(FarDown)>>

\* Mutated form: each pass takes enterUpFlag and enterDownFlag afresh.
PassBeginForgets ==
    /\ todo["task"] = <<>>
    /\ working
    /\ seen' = freq
    /\ todo' = [todo EXCEPT !["task"] = Pass(freq, enterUp, enterDown)]
    /\ crossed' = (crossed \/ todo["operator"] # <<>>)
    /\ enterUp' = (freq = "farOver")
    /\ enterDown' = (freq = "farUnder")
    /\ UNCHANGED <<freq, working, fault, man, called, stopping, ordering>>
    /\ UNCHANGED timerVars

PassBegin ==
    /\ todo["task"] = <<>>
    /\ working
    /\ seen' = freq
    /\ todo' = [todo EXCEPT !["task"] = Pass(freq, enterUp, enterDown)]
    /\ crossed' = (crossed \/ todo["operator"] # <<>>)
    /\ enterUp' = CASE freq = "farOver" -> TRUE [] freq = "over" -> FALSE [] OTHER -> enterUp
    /\ enterDown' = CASE freq = "farUnder" -> TRUE [] freq = "under" -> FALSE [] OTHER -> enterDown
    /\ UNCHANGED <<freq, working, fault, man, called, stopping, ordering>>
    /\ UNCHANGED timerVars

Drop(h) == todo' = [todo EXCEPT ![h] = Tail(@)]

\* freq_prot_timer_start and freq_prot_timer_stop: startFlag is tested and set.
TimerTest(h) ==
    /\ todo[h] # <<>>
    /\ h \notin called
    /\ LET op == Head(todo[h]) IN
       IF flag[op.timer] = (op.do = "start")
       THEN Drop(h) /\ UNCHANGED <<flag, called>>
       ELSE /\ flag' = [flag EXCEPT ![op.timer] = (op.do = "start")]
            /\ called' = called \cup {h}
            /\ UNCHANGED todo
    /\ UNCHANGED <<freq, working, running, due, fault, man, enterUp, enterDown,
                   seen, stopping, ordering, crossed>>

\* osTimerStart and osTimerStop; neither takes back a queued callback.
TimerCall(h) ==
    /\ h \in called
    /\ LET op == Head(todo[h]) IN
       running' = IF op.do = "start" THEN running \cup {op.timer} ELSE running \ {op.timer}
    /\ called' = called \ {h}
    /\ Drop(h)
    /\ UNCHANGED <<freq, working, flag, due, fault, man, enterUp, enterDown,
                   seen, stopping, ordering, crossed>>
-----------------------------------------------------------------------------
(* The timer thread.                                                       *)

Expire(t) ==
    /\ t \in running
    /\ running' = running \ {t}
    /\ due' = due \cup {t}
    /\ UNCHANGED <<freq, working, flag, fault, man, enterUp, enterDown,
                   seen, todo, called, stopping, ordering, crossed>>

\* do_freq_prot up to the sleep of set_pcs_shutdown, which takes a pending
\* mark of an operator for its own.
DoFreqProt(t) ==
    /\ t \in due
    /\ ~stopping
    /\ due' = due \ {t}
    /\ running' = {u \in running : ~flag[u]}
    /\ flag' = [u \in Timers |-> FALSE]
    /\ fault' = ~man
    /\ man' = FALSE
    /\ stopping' = TRUE
    /\ UNCHANGED <<freq, working, enterUp, enterDown, seen, todo, called, ordering, crossed>>

\* The stop bit has been up for 80 ms.
StopDone ==
    /\ stopping
    /\ stopping' = FALSE
    /\ working' = FALSE
    /\ UNCHANGED <<freq, fault, man, enterUp, enterDown, seen, todo, called, ordering, crossed>>
    /\ UNCHANGED timerVars
-----------------------------------------------------------------------------
(* An operator's stop: manShutdownFlag, then set_pcs_shutdown.             *)

OperatorMark ==
    /\ ordering = "no"
    /\ man' = TRUE
    /\ ordering' = "marked"
    /\ UNCHANGED <<freq, working, fault, enterUp, enterDown, seen, todo, called, stopping, crossed>>
    /\ UNCHANGED timerVars

OperatorLoop ==
    /\ ordering = "marked"
    /\ IF man
       THEN /\ man' = FALSE /\ fault' = FALSE
            /\ todo' = [todo EXCEPT !["operator"] = StopAll]
            /\ crossed' = (crossed \/ todo["task"] # <<>>)
       ELSE UNCHANGED <<man, fault, todo, crossed>>
    /\ ordering' = "inLoop"
    /\ UNCHANGED <<freq, working, enterUp, enterDown, seen, called, stopping>>
    /\ UNCHANGED timerVars

OperatorStop ==
    /\ ordering = "inLoop"
    /\ todo["operator"] = <<>>
    /\ ordering' = "stop"
    /\ UNCHANGED <<freq, working, fault, man, enterUp, enterDown, seen, todo, called, stopping, crossed>>
    /\ UNCHANGED timerVars

OperatorDone ==
    /\ ordering = "stop"
    /\ ordering' = "no"
    /\ working' = FALSE
    /\ UNCHANGED <<freq, fault, man, enterUp, enterDown, seen, todo, called, stopping, crossed>>
    /\ UNCHANGED timerVars
-----------------------------------------------------------------------------
(* The surroundings.                                                       *)

FreqChanges(level) ==
    /\ freq' = level
    /\ UNCHANGED <<working, fault, man, enterUp, enterDown, seen, todo, called, stopping, ordering, crossed>>
    /\ UNCHANGED timerVars

\* The machine is started, stopped by something else, or trips.
MachineChanges ==
    /\ working' = ~working
    /\ UNCHANGED <<freq, fault, man, enterUp, enterDown, seen, todo, called, stopping, ordering, crossed>>
    /\ UNCHANGED timerVars

\* fault_rec.c, once it has started the machine again or is disabled.
FaultCleared ==
    /\ fault' = FALSE
    /\ UNCHANGED <<freq, working, man, enterUp, enterDown, seen, todo, called, stopping, ordering, crossed>>
    /\ UNCHANGED timerVars

Next ==
    \/ PassBegin
    \/ \E h \in Threads : TimerTest(h) \/ TimerCall(h)
    \/ \E t \in Timers : Expire(t) \/ DoFreqProt(t)
    \/ StopDone
    \/ OperatorMark \/ OperatorLoop \/ OperatorStop \/ OperatorDone
    \/ \E level \in Levels : FreqChanges(level)
    \/ MachineChanges
    \/ FaultCleared

Spec == Init /\ [][Next]_vars

\* The task and the timer thread run, and a running timer runs out.
FairSpec ==
    /\ Spec
    /\ WF_vars(PassBegin)
    /\ \A h \in Threads : WF_vars(TimerTest(h)) /\ WF_vars(TimerCall(h))
    /\ \A t \in Timers : WF_vars(Expire(t)) /\ WF_vars(DoFreqProt(t))
    /\ WF_vars(StopDone)
    /\ WF_vars(OperatorLoop) /\ WF_vars(OperatorStop) /\ WF_vars(OperatorDone)
-----------------------------------------------------------------------------
(* Properties.                                                             *)

Calling(h, op) == h \in called /\ Head(todo[h]) = op

\* startFlag is only set over a timer that runs, or has run out and is about
\* to act: the task can rely on it and not start the timer again.  Only a stop
\* by an operator that falls into a pass can break this.
FlagTimed ==
    crossed \/ \A t \in Timers :
        flag[t] => t \in running \cup due \/ Calling("task", StartOp(t))

\* The timer of a far threshold is flagged only while enterUpFlag or
\* enterDownFlag remembers it, so the pass that finds the frequency back
\* between the thresholds takes it back, whatever the two uninitialised flags
\* held at first.
FarRemembered ==
    LET stillToStop(t) == \E i \in DOMAIN todo["task"] : todo["task"][i] = StopOp(t)
    IN  /\ flag[FarUp] => enterUp \/ stillToStop(FarUp)
        /\ flag[FarDown] => enterDown \/ stillToStop(FarDown)

\* Both together: what the flags are taken for holds.
FlagsTrue == FlagTimed /\ FarRemembered

\* The comments in freq_prot_task, the level 1 timer is always started: the
\* machine does not go on working for ever while the frequency stays out of
\* range, as long as no operator's stop falls into a pass.
UndisturbedActs == ~<>[](working /\ freq # "normal" /\ ~crossed)
=============================================================================
