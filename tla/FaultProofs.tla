----------------------------- MODULE FaultProofs ------------------------------
(***************************************************************************)
(* The theorems about faults: the recovery from them (FaultRec) and the    *)
(* record of them (FaultRecord).                                           *)
(***************************************************************************)
EXTENDS FaultRec, FaultRecord, TLAPS

(***************************************************************************)
(* The recovery.  Type correctness, and, for any waiting times: the task   *)
(* never waits for a timer that is not there, until an operator's stop     *)
(* falls into a pass.                                                      *)
(***************************************************************************)

(* The timer is given at least 10 ms, whatever the settings.               *)
LEMMA DelayPositive ==
    ASSUME NEW wait \in Waits
    PROVE  TimeMs(wait) \in Nat /\ TimeMs(wait) >= 10
<1>1. wait[1] \in Nat /\ wait[2] \in Nat
  BY FaultRecAssumption
<1>2. (wait[1] - wait[2]) * 100 \in Int
  BY <1>1
<1> DEFINE ms == (wait[1] - wait[2]) * 100
<1>3. ms \in Int
  BY <1>2
<1> HIDE DEF ms
<1>4. (IF ms < 10 THEN 10 ELSE ms) \in Nat /\ (IF ms < 10 THEN 10 ELSE ms) >= 10
  BY <1>3
<1> QED BY <1>4 DEF TimeMs, ms

(* The types hold at first, and every step keeps them.                     *)
LEMMA InitType == Init => TypeOK
<1> SUFFICES ASSUME Init PROVE TypeOK
  OBVIOUS
<1>1. delay \in Nat
  BY DEF Init
<1> QED BY <1>1 DEF Init, TypeOK, Fsm

LEMMA NextType == TypeOK /\ [Next]_vars => TypeOK'
<1> SUFFICES ASSUME TypeOK, [Next]_vars PROVE TypeOK'
  OBVIOUS
<1>1. CASE Pass
  <2>1. refused' \in BOOLEAN /\ crossed' \in BOOLEAN
    BY <1>1, Zenon DEF Pass, TypeOK
  <2> QED BY <1>1, <2>1 DEF Pass, envVars, timerVars, bootVars, TypeOK, Fsm
<1>2. CASE GiveUp
  <2>1. handleFlag' \in BOOLEAN /\ freqProtFault' \in BOOLEAN
    BY <1>2, Zenon DEF GiveUp, TypeOK
  <2> QED BY <1>2, <2>1 DEF GiveUp, envVars, timerVars, bootVars, TypeOK, Fsm
<1>3. CASE Arm
  <2>1. handleFlag' \in BOOLEAN
    BY <1>3, Zenon DEF Arm, TypeOK
  <2> QED BY <1>3, <2>1 DEF Arm, envVars, timerVars, bootVars, TypeOK, Fsm
<1>4. CASE TimerTest
  <2>1. startFlag' \in BOOLEAN
    BY <1>4, Zenon DEF TimerTest, TypeOK
  <2> QED BY <1>4, <2>1 DEF TimerTest, envVars, bootVars, TypeOK, Fsm
<1>5. CASE TimerStart
  <2>1. delay' \in Nat /\ running' \in BOOLEAN
    BY <1>5, DelayPositive DEF TimerStart
  <2> QED BY <1>5, <2>1 DEF TimerStart, envVars, bootVars, TypeOK, Fsm
<1>6. CASE TimerStop
  <2>1. running' \in BOOLEAN
    BY <1>6, Zenon DEF TimerStop, TypeOK
  <2> QED BY <1>6, <2>1 DEF TimerStop, envVars, bootVars, TypeOK, Fsm
<1>7. CASE Expire
  <2>1. running' \in BOOLEAN /\ due' \in BOOLEAN
    BY <1>7, Zenon DEF Expire, TypeOK
  <2> QED BY <1>7, <2>1 DEF Expire, envVars, bootVars, TypeOK, Fsm
<1>8. CASE DoFaultRec
  <2>1. /\ handleFlag' \in BOOLEAN /\ freqProtFault' \in BOOLEAN
        /\ manShutdownFlag' \in BOOLEAN /\ stopping' \in BOOLEAN /\ signal' \in BOOLEAN
        /\ due' \in BOOLEAN /\ startFlag' \in BOOLEAN
    BY <1>8, Zenon DEF DoFaultRec, HandleLeft, TypeOK
  <2>2. machine' \in Fsm
    BY <1>8 DEF DoFaultRec, AfterStop, Fsm, TypeOK
  <2>3. UNCHANGED envVars /\ UNCHANGED <<delay, running, task, booting, operator, refused, crossed>>
    BY <1>8 DEF DoFaultRec
  <2> QED BY <2>1, <2>2, <2>3 DEF envVars, TypeOK
<1>9. CASE CallbackSignals
  <2>1. stopping' \in BOOLEAN /\ signal' \in BOOLEAN
    BY <1>9, Zenon DEF CallbackSignals, TypeOK
  <2> QED BY <1>9, <2>1 DEF CallbackSignals, envVars, timerVars, bootVars, TypeOK, Fsm
<1>10. CASE Boot
  <2>1. signal' \in BOOLEAN /\ booting' \in BOOLEAN
    BY <1>10, Zenon DEF Boot, TypeOK
  <2> QED BY <1>10, <2>1 DEF Boot, envVars, timerVars, bootVars, TypeOK, Fsm
<1>11. CASE BootDone
  <2>1. booting' \in BOOLEAN /\ handleFlag' \in BOOLEAN /\ freqProtFault' \in BOOLEAN
    BY <1>11, Zenon DEF BootDone, TypeOK
  <2> QED BY <1>11, <2>1 DEF BootDone, envVars, timerVars, bootVars, TypeOK, Fsm
<1>12. CASE OperatorMark
  <2>1. manShutdownFlag' \in BOOLEAN
    BY <1>12, Zenon DEF OperatorMark, TypeOK
  <2> QED BY <1>12, <2>1 DEF OperatorMark, envVars, timerVars, bootVars, TypeOK, Fsm
<1>13. CASE OperatorTakesMark
  <2>1. manShutdownFlag' \in BOOLEAN /\ handleFlag' \in BOOLEAN /\ crossed' \in BOOLEAN
    BY <1>13, Zenon DEF OperatorTakesMark, TypeOK
  <2> QED BY <1>13, <2>1 DEF OperatorTakesMark, envVars, timerVars, bootVars,
      TypeOK, Fsm
<1>14. CASE OperatorTest
  <2>1. startFlag' \in BOOLEAN
    BY <1>14, Zenon DEF OperatorTest, TypeOK
  <2> QED BY <1>14, <2>1 DEF OperatorTest, envVars, timerVars, bootVars, TypeOK, Fsm
<1>15. CASE OperatorTimerStop
  <2>1. running' \in BOOLEAN
    BY <1>15, Zenon DEF OperatorTimerStop, TypeOK
  <2> QED BY <1>15, <2>1 DEF OperatorTimerStop, envVars, timerVars, bootVars,
      TypeOK, Fsm
<1>16. CASE OperatorClearsFreq
  <2>1. freqProtFault' \in BOOLEAN
    BY <1>16, Zenon DEF OperatorClearsFreq, TypeOK
  <2> QED BY <1>16, <2>1 DEF OperatorClearsFreq, envVars, timerVars, bootVars,
      TypeOK, Fsm
<1>17. CASE OperatorStop
  BY <1>17 DEF OperatorStop, AfterStop, envVars, timerVars, bootVars, TypeOK, Fsm
<1>18. CASE Trip
  <2>1. dirty' \in BOOLEAN /\ locked' \in BOOLEAN
    BY <1>18, Zenon DEF Trip, TypeOK
  <2> QED BY <1>18, <2>1 DEF Trip, Quiet, envVars, timerVars, bootVars, TypeOK, Fsm
<1>19. CASE CauseGone
  <2>1. dirty' \in BOOLEAN
    BY <1>19, Zenon DEF CauseGone, TypeOK
  <2> QED BY <1>19, <2>1 DEF CauseGone, Quiet, envVars, timerVars, bootVars,
      TypeOK, Fsm
<1>20. CASE LockReset
  <2>1. locked' \in BOOLEAN /\ refused' \in BOOLEAN
    BY <1>20, Zenon DEF LockReset, TypeOK
  <2> QED BY <1>20, <2>1 DEF LockReset, Quiet, envVars, timerVars, bootVars,
      TypeOK, Fsm
<1>21. CASE FreqMoves
  <2>1. freqBad' \in BOOLEAN
    BY <1>21, Zenon DEF FreqMoves, TypeOK
  <2> QED BY <1>21, <2>1 DEF FreqMoves, Quiet, envVars, timerVars, bootVars,
      TypeOK, Fsm
<1>22. CASE FreqStop
  <2>1. freqProtFault' \in BOOLEAN
    BY <1>22, Zenon DEF FreqStop, TypeOK
  <2> QED BY <1>22, <2>1 DEF FreqStop, Quiet, envVars, timerVars, bootVars, TypeOK,
      Fsm
<1>23. CASE CommMoves
  <2>1. commLost' \in BOOLEAN
    BY <1>23, Zenon DEF CommMoves, TypeOK
  <2> QED BY <1>23, <2>1 DEF CommMoves, Quiet, envVars, timerVars, bootVars,
      TypeOK, Fsm
<1>24. CASE EnableMoves
  <2>1. frEnble' \in BOOLEAN
    BY <1>24, Zenon DEF EnableMoves, TypeOK
  <2> QED BY <1>24, <2>1 DEF EnableMoves, Quiet, envVars, timerVars, bootVars,
      TypeOK, Fsm
<1>25. CASE OthersMove
  BY <1>25 DEF OthersMove, Quiet, envVars, timerVars, bootVars, TypeOK, Fsm
<1>26. CASE UNCHANGED vars
  BY <1>26 DEF vars, envVars, timerVars, bootVars, TypeOK, Fsm
<1> QED BY <1>1, <1>2, <1>3, <1>4, <1>5, <1>6, <1>7, <1>8, <1>9, <1>10, <1>11,
    <1>12, <1>13,
           <1>14, <1>15, <1>16, <1>17, <1>18, <1>19, <1>20, <1>21, <1>22, <1>23,
               <1>24, <1>25, <1>26 DEF Next

(* Every variable of the fault recovery keeps its type.                    *)
THEOREM FaultRecTypeCorrect == Spec => []TypeOK
BY InitType, NextType, PTL DEF Spec

(* The inductive invariant.  What is under way is preserved because a pass *)
(* that stops the timer has taken handleFlag back before, as an operator's *)
(* stop has, and because only the task raises startFlag and stops the      *)
(* timer under it.                                                         *)
Apart == crossed \/ task = "pass" \/ ~AtTimer
StopUnhandled == crossed \/ (task \in {"stop", "stopCall"} \/ AtTimer => ~handleFlag)
StopUnflagged == crossed \/ (task = "stopCall" \/ operator = "stopCall" => ~startFlag)
IInv == Apart /\ StopUnhandled /\ StopUnflagged /\ StartTimed /\ HandleMeansUnderWay

LEMMA NextIInv ==
    ASSUME TypeOK, IInv, [Next]_vars
    PROVE  IInv'
<1> SUFFICES ASSUME ~crossed' PROVE IInv'
  BY DEF IInv, Apart, StopUnhandled, StopUnflagged, StartTimed, HandleMeansUnderWay
<1> USE DEF IInv, Apart, StopUnhandled, StopUnflagged, StartTimed,
    HandleMeansUnderWay, AtTimer
<1>1. CASE Pass
  <2>1. ~crossed /\ ~AtTimer
    BY <1>1, Zenon DEF Pass
  <2>2. UNCHANGED <<handleFlag, startFlag, running, due, stopping, signal, booting, operator>>
    BY <1>1 DEF Pass, timerVars, bootVars
  <2>3. task' \in {"disable", "clear", "commStop", "arm"} /\ task = "pass"
    BY <1>1 DEF Pass
  <2> QED BY <2>1, <2>2, <2>3
<1>2. CASE GiveUp
  BY <1>2 DEF GiveUp, timerVars, bootVars
<1>3. CASE Arm
  BY <1>3 DEF Arm, timerVars, bootVars
<1>4. CASE TimerTest
  BY <1>4 DEF TimerTest, TypeOK, bootVars
<1>5. CASE TimerStart
  BY <1>5 DEF TimerStart, bootVars
<1>6. CASE TimerStop \/ Expire
  BY <1>6 DEF TimerStop, Expire, bootVars
<1>7. CASE DoFaultRec
  <2>1. startFlag' = FALSE /\ UNCHANGED <<task, running, booting, operator, crossed>>
    BY <1>7 DEF DoFaultRec
  <2>2. handleFlag' => handleFlag /\ (stopping' \/ signal')
    BY <1>7 DEF DoFaultRec, HandleLeft
  <2> QED BY <2>1, <2>2
<1>8. CASE CallbackSignals \/ Boot \/ BootDone
  BY <1>8 DEF CallbackSignals, Boot, BootDone, timerVars
<1>9. CASE OperatorMark
  BY <1>9 DEF OperatorMark, timerVars, bootVars
<1>10. CASE OperatorTakesMark
  <2>1. /\ handleFlag' => handleFlag
        /\ UNCHANGED <<startFlag, running, due, stopping, signal, booting, task>>
        /\ operator = "marked"
    BY <1>10 DEF OperatorTakesMark, timerVars, bootVars
  <2>2. \/ operator' = "stop"
        \/ operator' = "test" /\ ~handleFlag' /\ task = "pass"
    BY <1>10 DEF OperatorTakesMark
  <2>3. ~crossed
    BY <1>10, Zenon DEF OperatorTakesMark
  <2> QED BY <2>1, <2>2, <2>3
<1>11. CASE OperatorTest \/ OperatorTimerStop \/ OperatorClearsFreq \/ OperatorStop
  BY <1>11 DEF OperatorTest, OperatorTimerStop, OperatorClearsFreq, OperatorStop,
               timerVars, bootVars
<1>12. CASE Trip \/ CauseGone \/ LockReset \/ FreqMoves \/ FreqStop
            \/ CommMoves \/ EnableMoves \/ OthersMove
  <2>1. Quiet
    BY <1>12 DEF Trip, CauseGone, LockReset, FreqMoves, FreqStop, CommMoves,
      EnableMoves,
                 OthersMove
  <2> QED BY <2>1 DEF Quiet, timerVars, bootVars
<1>13. CASE UNCHANGED vars
  BY <1>13 DEF vars, timerVars, bootVars
<1> QED BY <1>1, <1>2, <1>3, <1>4, <1>5, <1>6, <1>7, <1>8, <1>9, <1>10, <1>11,
    <1>12, <1>13
        DEF Next

(* It holds at first.                                                      *)
LEMMA InitIInv == Init => IInv
BY DEF Init, IInv, Apart, StopUnhandled, StopUnflagged, StartTimed,
  HandleMeansUnderWay, AtTimer

(* Until an operator's stop falls into a pass neither flag of the recovery *)
(* outlives what it stands for: startFlag has a timer, handleFlag a        *)
(* recovery that is under way.                                             *)
THEOREM RecoveryFlagsTrue == Spec => []FlagsTrue
<1>1. TypeOK /\ IInv /\ [Next]_vars => IInv'
  BY NextIInv
<1>2. IInv => FlagsTrue
  BY DEF IInv, FlagsTrue
<1> QED BY <1>1, <1>2, InitType, NextType, InitIInv, PTL DEF Spec

(***************************************************************************)
(* The record.  For any number of registers, out of the fault state no mark*)
(* is left over and no wave belongs to one, but for those whose reading was*)
(* missed.                                                                 *)
(***************************************************************************)

(* On to the next register: the loop stays within the registers.           *)
LEMMA NextRegisterType ==
    ASSUME NEW loop, NEW end, reg \in Faults, NextRegister(loop, end)
    PROVE  \/ place' = end /\ reg' = reg
           \/ place' = loop /\ reg' = reg + 1 /\ reg' \in Faults
<1>1. CASE reg = Registers
  BY <1>1 DEF NextRegister
<1>2. CASE reg # Registers
  BY <1>2, RecordAssumption DEF NextRegister, Faults
<1> QED BY <1>1, <1>2

(* The type invariant holds at first.                                       *)
LEMMA InitRecordType == RecordInit => RecordTypeOK
<1> SUFFICES ASSUME RecordInit PROVE RecordTypeOK
  OBVIOUS
<1>1. 1 \in Faults
  BY RecordAssumption DEF Faults
<1> QED BY <1>1 DEF RecordInit, RecordTypeOK

(* Every step preserves it.                                                 *)
LEMMA NextRecordType == RecordTypeOK /\ [RecordNext]_recordVars => RecordTypeOK'
<1> SUFFICES ASSUME RecordTypeOK, [RecordNext]_recordVars PROVE RecordTypeOK'
  OBVIOUS
<1> USE DEF RecordTypeOK
<1> USE DEF fpgaVars, flagVars, readVars, saverVars, waveVars, historyVars, strategyVars
<1>1. CASE (\E b \in Faults : Lock(b) \/ Unlock(b)) \/ ShowState
  <2>1. ASSUME NEW b \in Faults, Lock(b) PROVE RecordTypeOK'
    <3>1. owed' \subseteq Faults
      BY <2>1 DEF Lock
    <3> QED BY <2>1, <3>1 DEF Lock
  <2>2. ASSUME NEW b \in Faults, Unlock(b) PROVE RecordTypeOK'
    BY <2>2 DEF Unlock
  <2>3. CASE ShowState
    BY <2>3 DEF ShowState
  <2> QED BY <1>1, <2>1, <2>2, <2>3
<1>2. CASE ReadState
  BY <1>2, RecordAssumption DEF ReadState, Faults
<1>3. CASE ReadRisen
  <2>1. reg \in Faults
    BY <1>3 DEF ReadRisen
  <2>2. CASE reg \in err_lck /\ reg \notin err_state_last
    BY <1>3, <2>1, <2>2 DEF ReadRisen
  <2>3. CASE ~(reg \in err_lck /\ reg \notin err_state_last)
    <3>1. Noted(reg \in err_lck) /\ NextRegister("entry", "test")
      BY <1>3, <2>3 DEF ReadRisen
    <3>2. err_state_last' \subseteq Faults
      BY <2>1, <3>1 DEF Noted
    <3> QED BY <1>3, <2>1, <2>3, <3>1, <3>2, NextRegisterType DEF ReadRisen
  <2> QED BY <2>2, <2>3
<1>4. CASE TakeSem
  <2>1. reg \in Faults
    BY <1>4 DEF TakeSem, Waiting
  <2>2. CASE (event # None /\ event \in fault_err) \/ record_doing
    <3>1. Noted(TRUE) /\ NextRegister("entry", "test")
      BY <1>4, <2>2 DEF TakeSem, Saved
    <3>2. err_state_last' \subseteq Faults
      BY <2>1, <3>1 DEF Noted
    <3> QED BY <1>4, <2>1, <2>2, <3>1, <3>2, NextRegisterType DEF TakeSem
  <2>3. CASE ~((event # None /\ event \in fault_err) \/ record_doing)
    BY <1>4, <2>1, <2>3 DEF TakeSem
  <2> QED BY <2>2, <2>3
<1>5. CASE Describe
  BY <1>5 DEF Describe
<1>6. CASE CreateSaver
  <2>1. reg \in Faults /\ Noted(TRUE) /\ NextRegister("entry", "test")
    BY <1>6 DEF CreateSaver, Saved
  <2>2. err_state_last' \subseteq Faults
    BY <2>1 DEF Noted
  <2>3. /\ place' \in {"entry", "test"}
        /\ reg' \in Faults
    BY <2>1, NextRegisterType
  <2>4. saver' \in BOOLEAN /\ stray' \in BOOLEAN
    BY <1>6, Zenon DEF CreateSaver
  <2> QED BY <1>6, <2>2, <2>3, <2>4 DEF CreateSaver
<1>7. CASE TestExit
  BY <1>7, RecordAssumption DEF TestExit, Faults
<1>8. CASE ReadFallen
  <2>1. reg \in Faults /\ Noted(reg \in err_lck) /\ NextRegister("exit", "risen")
    BY <1>8 DEF ReadFallen
  <2>2. err_state_last' \subseteq Faults
    BY <2>1 DEF Noted
  <2>3. /\ fault_err' \subseteq Faults /\ stale' \subseteq Faults
        /\ event' \in Faults \cup {None}
    BY <1>8 DEF ReadFallen
  <2> QED BY <1>8, <2>1, <2>2, <2>3, NextRegisterType DEF ReadFallen
<1>9. CASE Rest \/ Skip \/ WaveStored \/ SaverEnds \/ Terminate \/ Create
  <2>1. stale' \subseteq Faults /\ owed' \subseteq Faults
    BY <1>9 DEF Rest, Skip, WaveStored, SaverEnds, Terminate, Create
  <2>2. CASE Rest \/ Skip \/ Create
    BY <2>2 DEF Rest, Skip, Create
  <2>3. CASE WaveStored \/ SaverEnds
    <3>1. saver' \in BOOLEAN /\ stray' \in BOOLEAN /\ record_doing' \in BOOLEAN
      BY <2>3, Zenon DEF WaveStored, SaverEnds
    <3>2. /\ UNCHANGED <<fpgaVars, flagVars, readVars, event, sem, place, reg, historyVars>>
          /\ UNCHANGED strategyVars
      BY <2>3 DEF WaveStored, SaverEnds
    <3> HIDE <2>3
    <3> QED BY <3>1, <3>2, SMTT(30)
  <2>4. CASE Terminate
    <3>1. missed' \in BOOLEAN
      BY <2>4, Zenon DEF Terminate
    <3> QED BY <2>1, <2>4, <3>1 DEF Terminate
  <2> QED BY <1>9, <2>2, <2>3, <2>4
<1>10. CASE RecordRisen \/ RecordFallen \/ RecordKeep \/ SwitchStrategy
  <2>1. shown' \in BOOLEAN /\ missed' \in BOOLEAN /\ strategy_en' \in BOOLEAN
        /\ strategy_last' \in BOOLEAN
    BY <1>10, Zenon DEF RecordRisen, RecordFallen, RecordKeep, SwitchStrategy
  <2>2. CASE RecordRisen \/ RecordFallen \/ RecordKeep
    BY <2>1, <2>2 DEF RecordRisen, RecordFallen, RecordKeep
  <2>3. CASE SwitchStrategy
    BY <2>1, <2>3 DEF SwitchStrategy
  <2> QED BY <1>10, <2>2, <2>3
<1>11. CASE UNCHANGED recordVars
  BY <1>11 DEF recordVars
<1> QED BY <1>1, <1>2, <1>3, <1>4, <1>5, <1>6, <1>7, <1>8, <1>9, <1>10,
    <1>11 DEF RecordNext, Step

(* The types of the record's state, for any number of registers.           *)
THEOREM RecordTypeCorrect == RecordSpec => []RecordTypeOK
BY InitRecordType, NextRecordType, PTL DEF RecordSpec

(* The inductive invariant.  The wave belongs to a mark; who holds the      *)
(* semaphore finds no saver; and a mark whose reading was not missed is     *)
(* still to be taken back: the fault state lasts, or its end is still to be *)
(* noted, or the register is still to be read.                             *)
EventMarked ==
    /\ event \in fault_err \cup {None}
    /\ Waiting \/ Holding => reg \in fault_err
SaverKnown ==
    /\ Holding => sem
    /\ saver => record_doing
    /\ place = "save" => ~record_doing
    /\ place = "create" => record_doing /\ ~saver
Pending(b) ==
    IF Entering THEN err_flag
    ELSE IF place = "test" THEN err_flag \/ err_flag_old1
    ELSE IF place = "exit" THEN reg <= b
    ELSE err_flag /\ err_flag_old1
MarksPending ==
    /\ Entering => err_flag
    /\ \A b \in fault_err \ stale : Pending(b)
RecordInv == RecordTypeOK /\ EventMarked /\ SaverKnown /\ MarksPending

(* It holds at first.                                                       *)
LEMMA InitRecordInv == RecordInit => RecordInv
BY InitRecordType DEF RecordInit, RecordInv, EventMarked, SaverKnown, MarksPending,
  Waiting, Holding, Entering

(* Every step preserves it.                                                 *)
LEMMA NextRecordInv == RecordInv /\ [RecordNext]_recordVars => RecordInv'
<1> SUFFICES ASSUME RecordInv, [RecordNext]_recordVars PROVE RecordInv'
  OBVIOUS
<1>t. RecordTypeOK /\ RecordTypeOK'
  BY NextRecordType DEF RecordInv
<1>n. reg \in Nat /\ reg' \in Nat /\ Faults \subseteq Nat
  BY <1>t, RecordAssumption DEF RecordTypeOK, Faults
<1> DEFINE Rest3 == EventMarked' /\ SaverKnown' /\ MarksPending'
<1> SUFFICES Rest3
  BY <1>t DEF RecordInv
<1> USE DEF RecordInv, EventMarked, SaverKnown, MarksPending, Pending, Waiting,
    Holding, Entering
<1> USE DEF fpgaVars, flagVars, readVars, saverVars, waveVars, historyVars, strategyVars
<1>1. CASE (\E b \in Faults : Lock(b) \/ Unlock(b)) \/ ShowState
  BY <1>1 DEF Lock, Unlock, ShowState
<1>2. CASE ReadState
  BY <1>2, <1>t DEF ReadState, RecordTypeOK
<1>3. CASE ReadRisen
  <2>1. reg \in Faults
    BY <1>3, <1>t DEF RecordTypeOK
  <2>2. CASE reg \in err_lck /\ reg \notin err_state_last
    BY <1>3, <2>1, <2>2 DEF ReadRisen
  <2>3. CASE ~(reg \in err_lck /\ reg \notin err_state_last)
    <3>1. place' \in {"entry", "test"} /\ err_flag
      BY <1>3, <2>1, <2>3, NextRegisterType DEF ReadRisen
    <3> QED BY <1>3, <2>3, <3>1 DEF ReadRisen
  <2> QED BY <2>2, <2>3
<1>4. CASE TakeSem
  <2>1. reg \in Faults /\ err_flag
    BY <1>4, <1>t DEF TakeSem, RecordTypeOK
  <2>2. CASE (event # None /\ event \in fault_err) \/ record_doing
    <3>1. place' \in {"entry", "test"}
      BY <1>4, <2>1, <2>2, NextRegisterType DEF TakeSem, Saved
    <3> QED BY <1>4, <2>1, <2>2, <3>1 DEF TakeSem
  <2>3. CASE ~((event # None /\ event \in fault_err) \/ record_doing)
    BY <1>4, <2>1, <2>3 DEF TakeSem
  <2> QED BY <2>2, <2>3
<1>5. CASE Describe
  BY <1>5 DEF Describe
<1>6. CASE CreateSaver
  <2>1. reg \in Faults /\ err_flag /\ record_doing'
    BY <1>6, <1>t DEF CreateSaver, RecordTypeOK
  <2>2. place' \in {"entry", "test"}
    BY <1>6, <2>1, NextRegisterType DEF CreateSaver, Saved
  <2> QED BY <1>6, <2>1, <2>2 DEF CreateSaver
<1>7. CASE TestExit
  BY <1>7, <1>t, <1>n DEF TestExit, RecordTypeOK, Faults
<1>8. CASE ReadFallen
  <2>1. reg \in Faults /\ reg \in Nat /\ NextRegister("exit", "risen")
    BY <1>8, <1>t, <1>n DEF RecordTypeOK, ReadFallen
  <2>2. EventMarked' /\ SaverKnown'
    BY <1>8, <2>1, NextRegisterType DEF ReadFallen
  <2>3. \A b \in fault_err' \ stale' : b \in fault_err \ stale /\ b # reg /\ b > reg
    BY <1>8, <1>n, <1>t DEF ReadFallen, RecordTypeOK
  <2>4. CASE reg = Registers
    <3>1. fault_err' \ stale' = {}
      BY <1>t, <2>3, <2>4, RecordAssumption DEF RecordTypeOK, Faults
    <3>2. place' = "risen"
      BY <2>1, <2>4 DEF NextRegister
    <3> QED BY <2>2, <3>1, <3>2
  <2>5. CASE reg # Registers
    <3>1. place' = "exit" /\ reg' = reg + 1
      BY <2>1, <2>5 DEF NextRegister
    <3>2. \A b \in fault_err' \ stale' : reg' <= b
      BY <1>n, <1>t, <2>3, <3>1 DEF RecordTypeOK
    <3> QED BY <2>2, <3>1, <3>2
  <2> QED BY <2>4, <2>5
<1>9. CASE Rest \/ Skip \/ Create
  BY <1>9 DEF Rest, Skip, Create
<1>10. CASE WaveStored \/ SaverEnds
  BY <1>10 DEF WaveStored, SaverEnds
<1>11. CASE Terminate
  BY <1>11 DEF Terminate
<1>12. CASE RecordRisen \/ RecordFallen \/ RecordKeep
  BY <1>12 DEF RecordRisen, RecordFallen, RecordKeep
<1>13. CASE SwitchStrategy
  BY <1>13 DEF SwitchStrategy
<1>14. CASE UNCHANGED recordVars
  BY <1>14 DEF recordVars
<1> QED BY <1>1, <1>2, <1>3, <1>4, <1>5, <1>6, <1>7, <1>8, <1>9, <1>10, <1>11, <1>12,
           <1>13, <1>14
        DEF RecordNext, Step

(* For any number of registers: when a pass has ended out of the fault      *)
(* state, a mark that is left, or that the wave belongs to, is one whose   *)
(* reading was missed.                                                     *)
THEOREM MarksTakenBack == RecordSpec => []FlagsEnd
<1>1. RecordInv => FlagsEnd
  BY DEF RecordInv, EventMarked, MarksPending, Pending, Entering, FlagsEnd
<1> QED BY <1>1, InitRecordInv, NextRecordInv, PTL DEF RecordSpec

(* A wave is never described over one that is still being stored: nobody    *)
(* describes one while a savefsdata_task is before record_doing = 0.        *)
THEOREM OneSaverAtATime == RecordSpec => []OneSaver
<1>1. RecordInv => OneSaver
  BY DEF RecordInv, SaverKnown, Holding, OneSaver
<1> QED BY <1>1, InitRecordInv, NextRecordInv, PTL DEF RecordSpec

(* What the log tells of a strategy.  While its record is being made the    *)
(* readings so far agree with the strategy, unless it is switched.          *)
ShownInv ==
    \/ missed
    \/ IF place = "fallen" THEN shown = (strategy_en \/ strategy_last)
       ELSE IF place = "keep" THEN shown = strategy_en
       ELSE shown = strategy_last

(* Every step preserves it.                                                 *)
LEMMA NextShown == RecordTypeOK /\ ShownInv /\ [RecordNext]_recordVars => ShownInv'
<1> SUFFICES ASSUME RecordTypeOK, ShownInv, [RecordNext]_recordVars PROVE ShownInv'
  OBVIOUS
<1> USE DEF ShownInv, strategyVars
<1>1. CASE RecordRisen
  BY <1>1, Zenon DEF RecordRisen, RecordTypeOK
<1>2. CASE RecordFallen
  BY <1>2, Zenon DEF RecordFallen, RecordTypeOK
<1>3. CASE RecordKeep
  BY <1>3, Zenon DEF RecordKeep, RecordTypeOK
<1>4. CASE SwitchStrategy
  BY <1>4, Zenon DEF SwitchStrategy, Recording
<1>5. CASE Terminate
  BY <1>5, Zenon DEF Terminate, Recording
<1>6. CASE (\E b \in Faults : Lock(b) \/ Unlock(b)) \/ ShowState
           \/ WaveStored \/ SaverEnds \/ UNCHANGED recordVars
  BY <1>6 DEF Lock, Unlock, ShowState, WaveStored, SaverEnds, recordVars
<1>7. CASE Skip \/ Rest \/ Create \/ ReadState \/ TestExit \/ Describe
  BY <1>7 DEF Skip, Rest, Create, ReadState, TestExit, Describe
<1>8. CASE ReadRisen \/ TakeSem \/ CreateSaver \/ ReadFallen
  <2>1. reg \in Faults
    BY DEF RecordTypeOK
  <2>2. UNCHANGED strategyVars
    BY <1>8 DEF ReadRisen, TakeSem, CreateSaver, ReadFallen
  <2>3. place \notin {"fallen", "keep"} /\ place' \notin {"fallen", "keep"}
    <3>1. CASE ReadRisen
      BY <2>1, <3>1, NextRegisterType DEF ReadRisen
    <3>2. CASE TakeSem
      <4>1. place = "wait" /\ (place' = "save" \/ NextRegister("entry", "test"))
        BY <3>2 DEF TakeSem, Saved, Waiting
      <4> QED BY <2>1, <4>1, NextRegisterType
    <3>3. CASE CreateSaver
      BY <2>1, <3>3, NextRegisterType DEF CreateSaver, Saved
    <3>4. CASE ReadFallen
      BY <2>1, <3>4, NextRegisterType DEF ReadFallen
    <3> QED BY <1>8, <3>1, <3>2, <3>3, <3>4
  <2> QED BY <2>2, <2>3
<1> QED BY <1>1, <1>2, <1>3, <1>4, <1>5, <1>6, <1>7, <1>8 DEF RecordNext, Step

(* Between two records the log tells the strategies as they were kept, but  *)
(* for one that was switched while it was recorded.                        *)
THEOREM StrategiesShown == RecordSpec => []StrategyShown
<1>1. RecordInit => ShownInv
  BY DEF RecordInit, ShownInv
<1>2. ShownInv => StrategyShown
  BY Zenon DEF ShownInv, StrategyShown, Recording
<1> QED BY <1>1, <1>2, InitRecordType, NextRecordType, NextShown, PTL DEF RecordSpec
=============================================================================
