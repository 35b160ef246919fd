---------------------------- MODULE CommandProofs -----------------------------
(***************************************************************************)
(* The theorems about the start and stop orders: the command word that the *)
(* threads share (PcsCommand), and the automatic restart that uses it      *)
(* (AutoRestart).                                                          *)
(***************************************************************************)
EXTENDS PcsCommand, AutoRestart, TLAPS

(***************************************************************************)
(* The command word, for any set of threads: its type, and that a command  *)
(* bit or an operator's mark is left over only by the ways PcsCommand      *)
(* names.                                                                  *)
(***************************************************************************)

(* Obeying a word takes the FPGA to one of its states.                      *)
LEMMA ObeyType ==
    ASSUME NEW w, NEW state \in FsmStates
    PROVE  Obey(w, state) \in FsmStates
BY DEF Obey, FsmStates

(* Every reachable state has the declared type: threads are where            *)
(* set_pcs_bootup, set_pcs_shutdown and their callers can be.              *)
THEOREM TypeCorrect == Spec => []TypeOK
<1>1. Init => TypeOK
  BY DEF Init, FirstPlace, TypeOK, FsmStates, Places, Bits, Commands, NoOrder, Start, Stop
<1>2. TypeOK /\ [Next]_vars => TypeOK'
  <2> SUFFICES ASSUME TypeOK, [Next]_vars PROVE TypeOK'
    OBVIOUS
  <2> USE DEF TypeOK
  <2>1. ASSUME NEW t \in Threads, Call(t) PROVE TypeOK'
    <3> USE <2>1 DEF Enter, shared, Places, Bits, Commands, Start, Stop
    <3>1. CASE OperatorStop(t) BY <3>1 DEF OperatorStop
    <3>2. CASE OperatorStart(t) BY <3>2 DEF OperatorStart
    <3>3. CASE \E cmd \in Bits : HmiOrder(t, cmd) BY <3>3 DEF HmiOrder
    <3>4. CASE EmuStop(t) BY <3>4 DEF EmuStop
    <3>5. CASE EmuStart(t) BY <3>5 DEF EmuStart
    <3>6. CASE AutoStop(t) BY <3>6 DEF AutoStop
    <3>7. CASE AutoStart(t) BY <3>7 DEF AutoStart
    <3>8. CASE ResetCall(t) BY <3>8 DEF ResetCall
    <3> QED BY <3>1, <3>2, <3>3, <3>4, <3>5, <3>6, <3>7, <3>8 DEF Call
  <2>2. ASSUME NEW t \in Threads, Continue(t) PROVE TypeOK'
    <3> USE <2>2 DEF shared, Places, Bits, Commands, Start, Stop
    <3>1. CASE HmiTestStop(t) BY <3>1 DEF HmiTestStop
    <3>7. CASE HmiTestStart(t) BY <3>7 DEF HmiTestStart
    <3>2. CASE CheckManual(t) BY <3>2 DEF CheckManual
    <3>3. CASE ReadWord(t) BY <3>3 DEF ReadWord
    <3>4. CASE AssertBit(t) BY <3>4, ObeyType DEF AssertBit, Bit, WriteWord
    <3>5. CASE ClearWord(t) BY <3>5, ObeyType DEF ClearWord, WriteWord
    <3>6. CASE Finish(t) BY <3>6 DEF Finish
    <3> QED BY <3>1, <3>2, <3>3, <3>4, <3>5, <3>6, <3>7 DEF Continue
  <2>3. ASSUME NEW t \in Threads, FireReset(t) PROVE TypeOK'
    BY <2>3 DEF FireReset, shared, Places
  <2>4. ASSUME NEW t \in Threads, NEW v \in RawWords, RawWrite(t, v) PROVE TypeOK'
    BY <2>4, ObeyType, CommandAssumption DEF RawWrite, WriteWord
  <2>5. CASE KillThreads
    BY <2>5 DEF KillThreads, Places, Bits, Commands
  <2>6. CASE RecreateThreads
    BY <2>6 DEF RecreateThreads, Places
  <2>7. CASE Restart
    BY <2>7, ObeyType DEF Restart, FirstPlace, WriteWord, Places, Bits, Commands, NoOrder
  <2>8. CASE Environment
    BY <2>8 DEF Environment, EmuFrame, FpgaReady, FpgaFault, SetPower, Arm, FsmStates
  <2>9. CASE UNCHANGED vars
    BY <2>9 DEF vars
  <2> QED BY <2>1, <2>2, <2>3, <2>4, <2>5, <2>6, <2>7, <2>8, <2>9 DEF Next
<1> QED BY <1>1, <1>2, PTL DEF Spec

(* No command bit is left asserted behind a finished pulse: the pulse of    *)
(* set_pcs_bootup and set_pcs_shutdown survives the interleaving of any     *)
(* number of callers.                                                      *)
THEOREM CommandNotStuck == Spec => []NoStuckCommand
<1>1. Init => NoStuckCommand
  BY DEF Init, NoStuckCommand
<1>2. TypeOK /\ NoStuckCommand /\ [Next]_vars => NoStuckCommand'
  <2> SUFFICES ASSUME TypeOK, NoStuckCommand, [Next]_vars PROVE NoStuckCommand'
    OBVIOUS
  <2> USE DEF TypeOK, NoStuckCommand
  <2>1. ASSUME NEW t \in Threads, Call(t) PROVE NoStuckCommand'
    <3>1. \E place \in {"teststop", "check", "read"} : \E cmd : Enter(t, place, cmd)
      BY <2>1 DEF Call, OperatorStop, OperatorStart, HmiOrder, EmuStop, EmuStart,
                  AutoStop, AutoStart, ResetCall
    <3> QED BY <3>1 DEF Enter, shared
  <2>2. ASSUME NEW t \in Threads, Continue(t) PROVE NoStuckCommand'
    <3>1. CASE HmiTestStop(t) BY <3>1 DEF HmiTestStop, shared
    <3>7. CASE HmiTestStart(t) BY <3>7 DEF HmiTestStart, shared
    <3>2. CASE CheckManual(t) BY <3>2 DEF CheckManual
    <3>3. CASE ReadWord(t) BY <3>3 DEF ReadWord, shared
    <3>4. CASE AssertBit(t) BY <3>4 DEF AssertBit
    <3>5. CASE ClearWord(t) BY <3>5 DEF ClearWord, WriteWord
    <3>6. CASE Finish(t) BY <3>6 DEF Finish
    <3> QED BY <2>2, <3>1, <3>2, <3>3, <3>4, <3>5, <3>6, <3>7 DEF Continue
  <2>3. ASSUME NEW t \in Threads, FireReset(t) PROVE NoStuckCommand'
    BY <2>3 DEF FireReset, shared
  <2>4. ASSUME NEW t \in Threads, NEW v \in RawWords, RawWrite(t, v)
        PROVE NoStuckCommand'
    BY <2>4 DEF RawWrite, WriteWord
  <2>5. CASE KillThreads
    <3>1. ASSUME NEW t \in Threads, pc[t] = "pulse", t \notin Killable
          PROVE pc'[t] = "pulse"
      BY <2>5, <3>1 DEF KillThreads
    <3>2. ASSUME NEW t \in Threads, pc[t] = "pulse", t \in Killable
          PROVE "word" \in orphan'
      BY <2>5, <3>2 DEF KillThreads
    <3> QED BY <2>5, <3>1, <3>2 DEF KillThreads
  <2>6. CASE RecreateThreads
    BY <2>6 DEF RecreateThreads
  <2>7. CASE Restart
    BY <2>7 DEF Restart, WriteWord
  <2>8. CASE Environment
    BY <2>8 DEF Environment, EmuFrame, FpgaReady, FpgaFault, SetPower, Arm
  <2>9. CASE UNCHANGED vars
    BY <2>9 DEF vars
  <2> QED BY <2>1, <2>2, <2>3, <2>4, <2>5, <2>6, <2>7, <2>8, <2>9 DEF Next
<1> QED BY <1>1, <1>2, TypeCorrect, PTL DEF Spec

(* The operator's mark is never left pending for a later automatic stop to  *)
(* consume, however the stops and starts of the callers interleave.        *)
THEOREM ManualMarkOwned == Spec => []ManFlagOwned
<1>1. Init => ManFlagOwned
  BY DEF Init, ManFlagOwned
<1>2. TypeOK /\ ManFlagOwned /\ [Next]_vars => ManFlagOwned'
  <2> SUFFICES ASSUME TypeOK, ManFlagOwned, [Next]_vars PROVE ManFlagOwned'
    OBVIOUS
  <2> USE DEF TypeOK, ManFlagOwned
  <2>1. ASSUME NEW t \in Threads, Call(t) PROVE ManFlagOwned'
    <3> USE <2>1 DEF Enter, shared
    <3>1. CASE OperatorStop(t) BY <3>1 DEF OperatorStop
    <3>2. CASE OperatorStart(t) BY <3>2 DEF OperatorStart
    <3>3. CASE \E cmd \in Bits : HmiOrder(t, cmd) BY <3>3 DEF HmiOrder
    <3>4. CASE EmuStop(t) BY <3>4 DEF EmuStop
    <3>5. CASE EmuStart(t) BY <3>5 DEF EmuStart
    <3>6. CASE AutoStop(t) BY <3>6 DEF AutoStop
    <3>7. CASE AutoStart(t) BY <3>7 DEF AutoStart
    <3>8. CASE ResetCall(t) BY <3>8 DEF ResetCall
    <3> QED BY <3>1, <3>2, <3>3, <3>4, <3>5, <3>6, <3>7, <3>8 DEF Call
  <2>2. ASSUME NEW t \in Threads, Continue(t) PROVE ManFlagOwned'
    <3>1. CASE HmiTestStop(t) BY <3>1 DEF HmiTestStop, shared
    <3>7. CASE HmiTestStart(t) BY <3>7 DEF HmiTestStart, shared
    <3>2. CASE CheckManual(t) BY <3>2 DEF CheckManual
    <3>3. CASE ReadWord(t) BY <3>3 DEF ReadWord, shared
    <3>4. CASE AssertBit(t) BY <3>4 DEF AssertBit
    <3>5. CASE ClearWord(t) BY <3>5 DEF ClearWord
    <3>6. CASE Finish(t) BY <3>6 DEF Finish
    <3> QED BY <2>2, <3>1, <3>2, <3>3, <3>4, <3>5, <3>6, <3>7 DEF Continue
  <2>3. ASSUME NEW t \in Threads, FireReset(t) PROVE ManFlagOwned'
    BY <2>3 DEF FireReset, shared
  <2>4. ASSUME NEW t \in Threads, NEW v \in RawWords, RawWrite(t, v)
        PROVE ManFlagOwned'
    BY <2>4 DEF RawWrite
  <2>5. CASE KillThreads
    <3>1. ASSUME NEW t \in Threads, pc[t] = "check", t \notin Killable
          PROVE pc'[t] = "check"
      BY <2>5, <3>1 DEF KillThreads
    <3>2. ASSUME NEW t \in Threads, man, pc[t] = "check", t \in Killable
          PROVE "man" \in orphan'
      BY <2>5, <3>2 DEF KillThreads
    <3> QED BY <2>5, <3>1, <3>2 DEF KillThreads
  <2>6. CASE RecreateThreads
    BY <2>6 DEF RecreateThreads
  <2>7. CASE Restart
    BY <2>7 DEF Restart
  <2>8. CASE Environment
    BY <2>8 DEF Environment, EmuFrame, FpgaReady, FpgaFault, SetPower, Arm
  <2>9. CASE UNCHANGED vars
    BY <2>9 DEF vars
  <2> QED BY <2>1, <2>2, <2>3, <2>4, <2>5, <2>6, <2>7, <2>8, <2>9 DEF Next
<1> QED BY <1>1, <1>2, TypeCorrect, PTL DEF Spec

(***************************************************************************)
(* The automatic restart.  For every limit, wait, window and width of a    *)
(* short the automatic starts on one permission are limited, and a         *)
(* permission that was withdrawn has a running window that will give it    *)
(* back.                                                                   *)
(***************************************************************************)

(* While the task may still start the machine on the present permission,   *)
(* time_open_tick has counted every start but the one in progress.         *)
StartsCounted ==
    /\ stage = "open" => starts <= time_open_tick + 1
    /\ stage \in {"clear", "count"} \/ (bootup_flag /\ stage \in {"test", "window"})
          => starts <= time_open_tick

(* Whoever has started the machine has set the window going; a terminated  *)
(* task has nothing to give back.                                          *)
WindowCounted ==
    /\ time_open_tick > 0 => tm_first_open_flag
    /\ stage = "dead" => ~gaveUp

RestartInv ==
    RestartTypeOK /\ StartsCounted /\ RestartsLimited /\ WindowCounted /\ WindowOutstanding

(* A short stays a short when it is incremented.                           *)
LEMMA NextShortType == ASSUME NEW n \in Short PROVE NextShort(n) \in Short
BY RestartAssumption DEF Short, NextShort

(* Zero is a short.                                                        *)
LEMMA ZeroShort == 0 \in Short /\ 0 \in 0 .. Limit - 1
BY RestartAssumption DEF Short

(* The invariant holds at first.                                           *)
LEMMA InitRestartInv == RestartInit => RestartInv
<1> SUFFICES ASSUME RestartInit PROVE RestartInv
  OBVIOUS
<1>1. RestartTypeOK
  BY ZeroShort DEF RestartInit, RestartTypeOK
<1>2. StartsCounted /\ RestartsLimited /\ WindowCounted /\ WindowOutstanding
  BY RestartAssumption
  DEF RestartInit, StartsCounted, RestartsLimited, WindowCounted, WindowOutstanding
<1> QED BY <1>1, <1>2 DEF RestartInv

(* A pass keeps the types.                                                 *)
LEMMA PassTyped == RestartTypeOK /\ Pass => RestartTypeOK'
<1> SUFFICES ASSUME RestartTypeOK, Pass PROVE RestartTypeOK'
  OBVIOUS
<1>1. CASE Test
  BY <1>1 DEF Test, RestartTypeOK, locals
<1>2. CASE Clear
  BY <1>2 DEF Clear, RestartTypeOK
<1>3. CASE Count
  <2>1. tick_clearn \in Short /\ NextShort(tick_clearn) \in Short
    BY NextShortType DEF RestartTypeOK
  <2>2. /\ tick_clearn' \in {0, tick_clearn, NextShort(tick_clearn)}
        /\ starts' \in {starts, starts + 1} /\ stage' \in {"open", "window"}
    BY <1>3 DEF Count
  <2>3. tick_clearn' \in Short /\ starts' \in Nat
    BY <2>1, <2>2, ZeroShort DEF RestartTypeOK
  <2>4. auto_clearn_flag' \in BOOLEAN /\ permit_open_flag' \in BOOLEAN
    <3>1. CASE auto_clearn_flag
      <4>1. /\ auto_clearn_flag' = ~(NextShort(tick_clearn) >= Wait)
            /\ permit_open_flag' = (NextShort(tick_clearn) >= Wait)
        BY <1>3, <3>1 DEF Count
      <4> QED BY <4>1
    <3>2. CASE ~auto_clearn_flag
      BY <1>3, <3>2 DEF Count, RestartTypeOK
    <3> QED BY <3>1, <3>2
  <2> QED BY <1>3, <2>2, <2>3, <2>4 DEF Count, RestartTypeOK
<1>4. CASE Open
  <2>1. time_open_tick' \in 0 .. Limit - 1
    BY <1>4, RestartAssumption DEF Open, RestartTypeOK
  <2> QED BY <1>4, <2>1 DEF Open, RestartTypeOK
<1>5. CASE CountWindow
  <2>0. tick_total \in Short /\ NextShort(tick_total) \in Short
    BY NextShortType DEF RestartTypeOK
  <2>1. tick_total' \in Short /\ time_open_tick' \in 0 .. Limit - 1
    BY <1>5, <2>0, ZeroShort DEF CountWindow, RestartTypeOK
  <2>2. /\ bootup_flag' \in {bootup_flag, TRUE}
        /\ tm_first_open_flag' \in {tm_first_open_flag, FALSE}
        /\ starts' \in {starts, 0} /\ gaveUp' \in {gaveUp, FALSE}
    BY <1>5 DEF CountWindow
  <2>3. /\ bootup_flag' \in BOOLEAN /\ tm_first_open_flag' \in BOOLEAN
        /\ starts' \in Nat /\ gaveUp' \in BOOLEAN
    <3>1. starts' \in Nat
      BY <2>2 DEF RestartTypeOK
    <3>2. bootup_flag' \in BOOLEAN /\ tm_first_open_flag' \in BOOLEAN /\ gaveUp' \in BOOLEAN
      BY <2>2, Zenon DEF RestartTypeOK
    <3> QED BY <3>1, <3>2
  <2>4. /\ stage' = "test" /\ enabled' = enabled /\ auto_clearn_flag' = auto_clearn_flag
        /\ tick_clearn' = tick_clearn /\ permit_open_flag' = permit_open_flag
    BY <1>5 DEF CountWindow
  <2> QED BY <2>1, <2>3, <2>4 DEF RestartTypeOK
<1> QED BY <1>1, <1>2, <1>3, <1>4, <1>5 DEF Pass

(* A pass keeps the counts.                                                *)
LEMMA PassCounts == RestartInv /\ Pass => StartsCounted' /\ RestartsLimited'
<1> SUFFICES ASSUME RestartInv, Pass PROVE StartsCounted' /\ RestartsLimited'
  OBVIOUS
<1>0. /\ starts \in Nat /\ starts <= Limit /\ Limit \in Nat
      /\ time_open_tick \in Nat /\ time_open_tick + 1 <= Limit
  BY RestartAssumption DEF RestartInv, RestartTypeOK, RestartsLimited
<1>1. CASE Test
  BY <1>1 DEF Test, RestartInv, StartsCounted, RestartsLimited, locals
<1>2. CASE Clear
  BY <1>2 DEF Clear, RestartInv, StartsCounted, RestartsLimited
<1>3. CASE Count
  <2>1. starts <= time_open_tick /\ time_open_tick' = time_open_tick
    BY <1>3 DEF Count, RestartInv, StartsCounted
  <2>2. CASE permit_open_flag'
    <3>1. starts' = starts + 1 /\ stage' = "open"
      BY <1>3, <2>2 DEF Count
    <3> QED BY <1>0, <2>1, <3>1 DEF StartsCounted, RestartsLimited
  <2>3. CASE ~permit_open_flag'
    <3>1. starts' = starts /\ stage' = "window"
      BY <1>3, <2>3 DEF Count
    <3> QED BY <1>0, <2>1, <3>1 DEF StartsCounted, RestartsLimited
  <2> QED BY <2>2, <2>3
<1>4. CASE Open
  <2>1. starts <= time_open_tick + 1 /\ starts' = starts /\ stage' = "window"
    BY <1>4 DEF Open, RestartInv, StartsCounted
  <2>2. \/ bootup_flag' = FALSE
        \/ time_open_tick' = time_open_tick + 1
    BY <1>4 DEF Open
  <2> QED BY <1>0, <2>1, <2>2 DEF StartsCounted, RestartsLimited
<1>5. CASE CountWindow
  <2>1. stage = "window" /\ stage' = "test"
    BY <1>5 DEF CountWindow
  <2>2. \/ starts' = 0 /\ time_open_tick' = 0
        \/ /\ starts' = starts /\ time_open_tick' = time_open_tick
           /\ bootup_flag' = bootup_flag
    BY <1>5 DEF CountWindow
  <2> QED BY <1>0, <2>1, <2>2 DEF RestartInv, StartsCounted, RestartsLimited
<1> QED BY <1>1, <1>2, <1>3, <1>4, <1>5 DEF Pass

(* A pass keeps the window.                                                *)
LEMMA PassWindow == RestartInv /\ Pass => WindowCounted' /\ WindowOutstanding'
<1> SUFFICES ASSUME RestartInv, Pass PROVE WindowCounted' /\ WindowOutstanding'
  OBVIOUS
<1>1. CASE Test \/ Clear \/ Count
  BY <1>1 DEF Test, Clear, Count, RestartInv, WindowCounted, WindowOutstanding, locals
<1>2. CASE Open
  <2>1. tm_first_open_flag'
    <3>1. time_open_tick = 0 \/ time_open_tick > 0
      BY RestartAssumption DEF RestartInv, RestartTypeOK
    <3> QED BY <1>2, <3>1 DEF Open, RestartInv, WindowCounted
  <2>2. stage' = "window"
    BY <1>2 DEF Open
  <2> QED BY <2>1, <2>2 DEF WindowCounted, WindowOutstanding
<1>3. CASE CountWindow
  <2>1. \/ time_open_tick' = 0 /\ gaveUp' = FALSE
        \/ /\ time_open_tick' = time_open_tick /\ gaveUp' = gaveUp
           /\ tm_first_open_flag' = tm_first_open_flag
    BY <1>3 DEF CountWindow
  <2>2. stage' = "test"
    BY <1>3 DEF CountWindow
  <2> QED BY <2>1, <2>2 DEF RestartInv, WindowCounted, WindowOutstanding
<1> QED BY <1>1, <1>2, <1>3 DEF Pass

(* Every step keeps the invariant.                                         *)
LEMMA NextRestartInv == RestartInv /\ [RestartNext]_restartVars => RestartInv'
<1> SUFFICES ASSUME RestartInv, [RestartNext]_restartVars PROVE RestartInv'
  OBVIOUS
<1>1. CASE Pass
  BY <1>1, PassTyped, PassCounts, PassWindow DEF RestartInv
<1>2. CASE \E permission \in BOOLEAN : OperatorNotes(permission)
  <2>1. PICK permission \in BOOLEAN : OperatorNotes(permission)
    BY <1>2
  <2>2. RestartTypeOK'
    BY <2>1 DEF OperatorNotes, RestartInv, RestartTypeOK, locals
  <2>3. /\ starts' = 0 \/ (starts' = starts /\ ~bootup_flag')
        /\ time_open_tick' = time_open_tick /\ stage' = stage /\ ~gaveUp'
        /\ tm_first_open_flag' = tm_first_open_flag
    BY <2>1 DEF OperatorNotes, locals
  <2>4. time_open_tick \in Nat /\ Limit \in Nat
    BY RestartAssumption DEF RestartInv, RestartTypeOK
  <2>5. StartsCounted' /\ RestartsLimited'
    BY <2>3, <2>4 DEF RestartInv, StartsCounted, RestartsLimited
  <2>6. WindowCounted' /\ WindowOutstanding'
    BY <2>3 DEF RestartInv, WindowCounted, WindowOutstanding
  <2> QED BY <2>2, <2>5, <2>6 DEF RestartInv
<1>3. CASE Configure
  BY <1>3 DEF Configure, locals, RestartInv, RestartTypeOK, StartsCounted,
    RestartsLimited,
              WindowCounted, WindowOutstanding
<1>4. CASE Terminate
  BY <1>4 DEF Terminate, locals, RestartInv, RestartTypeOK, StartsCounted,
    RestartsLimited,
              WindowCounted, WindowOutstanding
<1>5. CASE Create
  <2>1. RestartTypeOK'
    BY <1>5, ZeroShort DEF Create, Created, RestartInv, RestartTypeOK
  <2>2. stage' = "test" /\ starts' = 0 /\ time_open_tick' = 0 /\ ~gaveUp'
    BY <1>5 DEF Create, Created, RestartInv, WindowCounted
  <2>3. StartsCounted' /\ RestartsLimited'
    BY <2>2, RestartAssumption DEF StartsCounted, RestartsLimited
  <2>4. WindowCounted' /\ WindowOutstanding'
    BY <2>2 DEF WindowCounted, WindowOutstanding
  <2> QED BY <2>1, <2>3, <2>4 DEF RestartInv
<1>6. CASE UNCHANGED restartVars
  BY <1>6 DEF restartVars, locals, RestartInv, RestartTypeOK, StartsCounted,
    RestartsLimited,
              WindowCounted, WindowOutstanding
<1> QED BY <1>1, <1>2, <1>3, <1>4, <1>5, <1>6 DEF RestartNext

(* The module's types: the two 16-bit counters stay in their width.        *)
THEOREM RestartTypeCorrect == RestartSpec => []RestartTypeOK
<1>1. RestartInv => RestartTypeOK
  BY DEF RestartInv
<1> QED BY <1>1, InitRestartInv, NextRestartInv, PTL DEF RestartSpec

(* No more than Limit automatic starts are made on one permission.         *)
THEOREM StartsAreLimited == RestartSpec => []RestartsLimited
<1>1. RestartInv => RestartsLimited
  BY DEF RestartInv
<1> QED BY <1>1, InitRestartInv, NextRestartInv, PTL DEF RestartSpec

(* A permission that the task withdrew has its window running.             *)
THEOREM WithdrawnHasWindow == RestartSpec => []WindowOutstanding
<1>1. RestartInv => WindowOutstanding
  BY DEF RestartInv
<1> QED BY <1>1, InitRestartInv, NextRestartInv, PTL DEF RestartSpec
=============================================================================
