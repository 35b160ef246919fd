-------------------------- MODULE SupervisionProofs ---------------------------
(***************************************************************************)
(* The theorems about the tasks that watch what the machine is connected   *)
(* to: the grid (FreqProt), and the EMU and the HMI (CommOffline, CommLink).*)
(***************************************************************************)
EXTENDS FreqProt, Naturals, SequenceTheorems, CommLink, FiniteSetTheorems, TLAPS

(***************************************************************************)
(* The frequency protection.  For every order of the thresholds and every  *)
(* set of levels, a flag stands for a timer until an operator's stop falls *)
(* into a pass of the task.                                                *)
(***************************************************************************)

(* The far timers are timers of the same side.                              *)
LEMMA FarTimers == FarUp \in Timers /\ FarDown \in Timers
<1>1. (\E t \in UpTimers : t # NearUp) /\ (\E t \in DownTimers : t # NearDown)
  BY DEF UpTimers, DownTimers
<1>2. FarUp \in UpTimers /\ FarDown \in DownTimers
  BY <1>1 DEF FarUp, FarDown
<1> QED BY <1>2 DEF Timers

(* Every pass is a sequence of starts and stops of timers.                  *)
LEMMA PassType ==
    ASSUME NEW level \in AllLevels, NEW up \in BOOLEAN, NEW down \in BOOLEAN
    PROVE  Pass(level, up, down) \in Seq(Ops)
<1>1. \A t \in Timers : StartOp(t) \in Ops /\ StopOp(t) \in Ops
  BY DEF StartOp, StopOp, Ops
<1>2. NearUp \in Timers /\ NearDown \in Timers
  BY ThresholdsAssumption DEF Timers
<1>3. StopAll \in Seq(Ops)
  BY <1>1 DEF StopAll, Timers, UpTimers, DownTimers
<1>4. \A t \in Timers : <<StopOp(t)>> \in Seq(Ops) /\ <<StartOp(t)>> \in Seq(Ops)
  BY <1>1
<1>5. <<>> \in Seq(Ops)
  OBVIOUS
<1>6. \A t, u \in Timers : <<StartOp(t), StartOp(u)>> \in Seq(Ops)
  BY <1>1
<1> DEFINE ifUp == IF up THEN <<StopOp(FarUp)>> ELSE <<>>
           ifDown == IF down THEN <<StopOp(FarDown)>> ELSE <<>>
<1>7. ifUp \in Seq(Ops) /\ ifDown \in Seq(Ops)
  BY <1>4, <1>5, FarTimers
<1> HIDE DEF ifUp, ifDown
<1>8. <<StartOp(NearUp)>> \o ifUp \in Seq(Ops) /\ <<StartOp(NearDown)>> \o ifDown \in Seq(Ops)
  BY <1>2, <1>4, <1>7
<1>9. CASE level = "normal"
  BY <1>3, <1>9 DEF Pass
<1>10. CASE level = "over"
  BY <1>8, <1>10 DEF Pass, ifUp
<1>11. CASE level = "farOver"
  BY <1>2, <1>6, <1>11, FarTimers DEF Pass
<1>12. CASE level = "under"
  BY <1>8, <1>12 DEF Pass, ifDown
<1>13. CASE level = "farUnder"
  BY <1>2, <1>6, <1>13, FarTimers DEF Pass
<1> QED BY <1>9, <1>10, <1>11, <1>12, <1>13 DEF AllLevels

(* What a thread takes from its list.                                       *)
LEMMA NextOp ==
    ASSUME NEW todos \in Seq(Ops), todos # <<>>
    PROVE  /\ Tail(todos) \in Seq(Ops)
           /\ Head(todos).timer \in Timers
           /\ Head(todos).do \in {"start", "stop"}
           /\ Head(todos) = [do |-> Head(todos).do, timer |-> Head(todos).timer]
<1>1. Head(todos) \in Ops /\ Tail(todos) \in Seq(Ops)
  OBVIOUS
<1>2. \A op \in Ops : /\ op.timer \in Timers /\ op.do \in {"start", "stop"}
                      /\ op = [do |-> op.do, timer |-> op.timer]
  BY DEF Ops
<1> QED BY <1>1, <1>2

(* The inductive invariant.  A thread that is calling the RTOS still has    *)
(* the operation at the head of its list, the operator only stops timers,   *)
(* and until a stop falls into a pass the lists of the two threads are not  *)
(* both filled: while a thread is about to stop a timer its flag is down,   *)
(* for only the task raises flags.                                         *)
CallPending == \A h \in Threads : h \in called => todo[h] # <<>>
OperatorStops ==
    \A i \in DOMAIN todo["operator"] : todo["operator"][i].do = "stop"
OperatorIdle == ordering # "inLoop" => todo["operator"] = <<>>
Apart == crossed \/ todo["task"] = <<>> \/ todo["operator"] = <<>>
StopsUnflagged ==
    crossed \/ \A h \in Threads, t \in Timers : Calling(h, StopOp(t)) => ~flag[t]
IInv ==
    /\ TypeOK /\ CallPending /\ OperatorStops /\ OperatorIdle
    /\ Apart /\ StopsUnflagged /\ FlagTimed

(* It holds at first.                                                       *)
LEMMA InitIInv == Init => IInv
<1> SUFFICES ASSUME Init PROVE IInv
  OBVIOUS
<1>1. TypeOK
  <2>1. <<>> \in Seq(Ops)
    OBVIOUS
  <2>2. todo \in [Threads -> Seq(Ops)]
    BY <2>1 DEF Init
  <2>3. flag \in [Timers -> BOOLEAN]
    BY DEF Init
  <2>4. running \subseteq Timers /\ due \subseteq Timers /\ called \subseteq Threads
    BY DEF Init
  <2> QED BY <2>2, <2>3, <2>4 DEF Init, TypeOK, AllLevels
<1>2. CallPending /\ OperatorStops /\ OperatorIdle /\ Apart
  BY DEF Init, CallPending, OperatorStops, OperatorIdle, Apart, Threads
<1>3. StopsUnflagged /\ FlagTimed
  BY DEF Init, StopsUnflagged, FlagTimed, Calling
<1> QED BY <1>1, <1>2, <1>3 DEF IInv

(* The operator's list is made of stops, whole or what is left of it.       *)
LEMMA StopAllStops == \A i \in DOMAIN StopAll : StopAll[i].do = "stop"
BY DEF StopAll, StopOp

LEMMA TailStops ==
    ASSUME NEW todos \in Seq(Ops), todos # <<>>, \A i \in DOMAIN todos : todos[i].do = "stop"
    PROVE  /\ Head(todos).do = "stop"
           /\ \A i \in DOMAIN Tail(todos) : Tail(todos)[i].do = "stop"
<1>1. Head(todos) = todos[1] /\ 1 \in DOMAIN todos
  OBVIOUS
<1>2. \A i \in DOMAIN Tail(todos) : Tail(todos)[i] = todos[i + 1] /\ i + 1 \in DOMAIN todos
  OBVIOUS
<1> QED BY <1>1, <1>2

(* Every step preserves the invariant.                                      *)
LEMMA NextIInv == IInv /\ [Next]_vars => IInv'
<1> SUFFICES ASSUME IInv, [Next]_vars PROVE IInv'
  OBVIOUS
<1> USE DEF IInv
<1>t. /\ flag \in [Timers -> BOOLEAN] /\ running \subseteq Timers /\ due \subseteq Timers
      /\ todo \in [Threads -> Seq(Ops)] /\ called \subseteq Threads /\ crossed \in BOOLEAN
      /\ "task" \in Threads /\ "operator" \in Threads
      /\ \A h \in Threads : h = "task" \/ h = "operator"
  BY DEF TypeOK, Threads
<1>1. CASE PassBegin
  <2>1. "task" \notin called
    BY <1>1, <1>t DEF PassBegin, CallPending
  <2>2. Levels \subseteq AllLevels /\ freq \in AllLevels
    BY ThresholdsAssumption DEF TypeOK
  <2>3. todo' \in [Threads -> Seq(Ops)]
    BY <1>1, <1>t, <2>2, PassType DEF PassBegin, TypeOK
  <2>4. crossed' \in BOOLEAN
    BY <1>1, Zenon DEF PassBegin
  <2>5. TypeOK'
    BY <1>1, <2>2, <2>3, <2>4 DEF PassBegin, TypeOK, timerVars
  <2>6. todo'["operator"] = todo["operator"] /\ UNCHANGED <<called, ordering>>
    BY <1>1, <1>t DEF PassBegin
  <2>7. CallPending' /\ OperatorStops' /\ OperatorIdle'
    BY <1>t, <2>1, <2>6 DEF CallPending, OperatorStops, OperatorIdle
  <2>8. crossed' \/ (~crossed /\ todo'["operator"] = <<>>)
    BY <1>1, <2>6, Zenon DEF PassBegin
  <2>9. UNCHANGED timerVars /\ UNCHANGED called
    BY <1>1 DEF PassBegin
  <2>10. Apart' /\ StopsUnflagged' /\ FlagTimed'
    BY <1>t, <2>1, <2>6, <2>8, <2>9
       DEF Apart, StopsUnflagged, FlagTimed, Calling, timerVars
  <2> QED BY <2>5, <2>7, <2>10
<1>2. ASSUME NEW h \in Threads, TimerTest(h) PROVE IInv'
  <2> DEFINE op == Head(todo[h])
  <2>1. h \notin called /\ todo[h] # <<>> /\ UNCHANGED <<running, due, ordering, crossed>>
    BY <1>2 DEF TimerTest
  <2>2. Tail(todo[h]) \in Seq(Ops) /\ op.timer \in Timers
        /\ op.do \in {"start", "stop"} /\ op = [do |-> op.do, timer |-> op.timer]
    <3>1. todo[h] \in Seq(Ops)
      BY <1>t
    <3> QED BY <2>1, <3>1, NextOp
  <2>3. h = "operator" => /\ op.do = "stop"
                          /\ \A i \in DOMAIN Tail(todo[h]) : Tail(todo[h])[i].do = "stop"
    <3>1. todo["operator"] \in Seq(Ops)
      BY <1>t
    <3> QED BY <2>1, <3>1, TailStops DEF OperatorStops
  <2>4. ordering # "inLoop" => h = "task"
    BY <1>t, <2>1 DEF OperatorIdle
  <2>5. crossed \/ \A g \in Threads : g # h => todo[g] = <<>>
    BY <1>t, <2>1 DEF Apart
  <2> HIDE DEF op
  <2>6. CASE flag[op.timer] = (op.do = "start")
    <3>1. Drop(h) /\ UNCHANGED <<flag, called>>
      BY <1>2, <2>6 DEF TimerTest, op
    <3>2. todo' = [todo EXCEPT ![h] = Tail(todo[h])]
      BY <3>1 DEF Drop
    <3>3. TypeOK'
      BY <1>2, <1>t, <2>1, <2>2, <3>1, <3>2 DEF TimerTest, TypeOK
    <3>4. CallPending' /\ OperatorStops' /\ OperatorIdle'
      BY <1>t, <2>1, <2>3, <2>4, <3>1, <3>2 DEF CallPending, OperatorStops,
        OperatorIdle
    <3>5. Apart'
      BY <1>t, <2>1, <2>5, <3>2 DEF Apart
    <3>6. StopsUnflagged' /\ FlagTimed'
      BY <1>t, <2>1, <3>1, <3>2 DEF StopsUnflagged, FlagTimed, Calling
    <3> QED BY <3>3, <3>4, <3>5, <3>6
  <2>7. CASE flag[op.timer] # (op.do = "start")
    <3>1. /\ flag' = [flag EXCEPT ![op.timer] = (op.do = "start")]
          /\ called' = called \cup {h}
          /\ UNCHANGED todo
      BY <1>2, <2>7 DEF TimerTest, op
    <3>2. TypeOK'
      BY <1>2, <1>t, <2>2, <3>1 DEF TimerTest, TypeOK
    <3>3. CallPending' /\ OperatorStops' /\ OperatorIdle' /\ Apart'
      BY <2>1, <3>1 DEF CallPending, OperatorStops, OperatorIdle, Apart
    <3>4. StopsUnflagged'
      <4> SUFFICES ASSUME ~crossed, NEW g \in Threads, NEW t \in Timers,
                          Calling(g, StopOp(t))'
                   PROVE  ~flag'[t]
        BY <2>1 DEF StopsUnflagged
      <4>1. g = h
        BY <2>5, <3>1 DEF CallPending, Calling
      <4>2. op = StopOp(t)
        BY <3>1, <4>1 DEF Calling, StopOp, op
      <4>3. op.timer = t /\ op.do = "stop"
        BY <4>2 DEF StopOp
      <4> QED BY <1>t, <3>1, <4>3
    <3>5. FlagTimed'
      <4> SUFFICES ASSUME ~crossed, NEW t \in Timers, flag'[t]
                   PROVE  t \in running \cup due \/ Calling("task", StartOp(t))'
        BY <2>1 DEF FlagTimed
      <4>1. CASE t = op.timer
        <5>1. op.do = "start"
          BY <1>t, <3>1, <4>1
        <5>2. op = StartOp(t) /\ h = "task"
          BY <1>t, <2>2, <2>3, <4>1, <5>1 DEF StartOp
        <5> QED BY <3>1, <5>2 DEF Calling, op
      <4>2. CASE t # op.timer
        BY <1>t, <2>1, <3>1, <4>2 DEF FlagTimed, Calling
      <4> QED BY <4>1, <4>2
    <3> QED BY <3>2, <3>3, <3>4, <3>5
  <2> QED BY <2>6, <2>7
<1>3. ASSUME NEW h \in Threads, TimerCall(h) PROVE IInv'
  <2> DEFINE op == Head(todo[h])
  <2>1. /\ h \in called /\ todo[h] # <<>> /\ Calling(h, op)
        /\ UNCHANGED <<flag, due, ordering, crossed>>
    BY <1>3 DEF TimerCall, CallPending, Calling
  <2>2. Tail(todo[h]) \in Seq(Ops) /\ op.timer \in Timers
        /\ op.do \in {"start", "stop"} /\ op = [do |-> op.do, timer |-> op.timer]
    <3>1. todo[h] \in Seq(Ops)
      BY <1>t
    <3> QED BY <2>1, <3>1, NextOp
  <2>3. h = "operator" => \A i \in DOMAIN Tail(todo[h]) : Tail(todo[h])[i].do = "stop"
    <3>1. todo["operator"] \in Seq(Ops)
      BY <1>t
    <3> QED BY <2>1, <3>1, TailStops DEF OperatorStops
  <2>4. ordering # "inLoop" => h = "task"
    BY <1>t, <2>1 DEF OperatorIdle
  <2>5. /\ running' = IF op.do = "start" THEN running \cup {op.timer} ELSE running \ {op.timer}
        /\ called' = called \ {h}
        /\ todo' = [todo EXCEPT ![h] = Tail(todo[h])]
    BY <1>3 DEF TimerCall, Drop
  <2> HIDE DEF op
  <2>6. TypeOK'
    BY <1>3, <1>t, <2>1, <2>2, <2>5 DEF TimerCall, TypeOK
  <2>7. CallPending' /\ OperatorStops' /\ OperatorIdle'
    BY <1>t, <2>1, <2>3, <2>4, <2>5 DEF CallPending, OperatorStops, OperatorIdle
  <2>8. Apart' /\ StopsUnflagged'
    BY <1>t, <2>1, <2>5 DEF Apart, StopsUnflagged, Calling
  <2>9. FlagTimed'
    <3> SUFFICES ASSUME ~crossed, NEW t \in Timers, flag[t]
                 PROVE  t \in running' \cup due \/ Calling("task", StartOp(t))'
      BY <2>1 DEF FlagTimed
    <3>1. CASE t \in running \cup due
      <4>1. CASE op.do = "stop" /\ op.timer = t
        BY <2>1, <2>2, <4>1 DEF StopsUnflagged, StopOp
      <4> QED BY <2>2, <2>5, <3>1, <4>1
    <3>2. CASE Calling("task", StartOp(t)) /\ h = "task"
      <4>1. op = StartOp(t)
        BY <3>2 DEF Calling, op
      <4>2. op.do = "start" /\ op.timer = t
        BY <4>1 DEF StartOp
      <4> QED BY <2>5, <4>2
    <3>3. CASE Calling("task", StartOp(t)) /\ h = "operator"
      BY <1>t, <2>5, <3>3 DEF Calling
    <3> QED BY <1>t, <3>1, <3>2, <3>3 DEF FlagTimed
  <2> QED BY <2>6, <2>7, <2>8, <2>9
<1> DEFINE Rest == CallPending /\ OperatorStops /\ OperatorIdle /\ Apart /\ StopsUnflagged /\ FlagTimed
<1> DEFINE Lists == UNCHANGED <<todo, called, ordering, crossed>>
<1>4. ASSUME NEW t \in Timers, Expire(t) PROVE IInv'
  <2>1. TypeOK'
    BY <1>4, <1>t DEF Expire, TypeOK
  <2>2. Lists /\ UNCHANGED flag /\ running' \cup due' = running \cup due
    BY <1>4 DEF Expire
  <2>3. Rest'
    BY <2>2 DEF CallPending, OperatorStops, OperatorIdle, Apart, StopsUnflagged,
      FlagTimed, Calling
  <2> QED BY <2>1, <2>3
<1>5. ASSUME NEW t \in Timers, DoFreqProt(t) PROVE IInv'
  <2>1. TypeOK'
    <3>1. fault' \in BOOLEAN
      BY <1>5, Zenon DEF DoFreqProt
    <3> QED BY <1>5, <1>t, <3>1 DEF DoFreqProt, TypeOK
  <2>2. Lists /\ \A u \in Timers : ~flag'[u]
    BY <1>5 DEF DoFreqProt
  <2>3. Rest'
    BY <2>2 DEF CallPending, OperatorStops, OperatorIdle, Apart, StopsUnflagged,
      FlagTimed, Calling
  <2> QED BY <2>1, <2>3
<1>6. CASE StopDone \/ (\E level \in Levels : FreqChanges(level)) \/ MachineChanges \/ FaultCleared
  <2>1. TypeOK'
    BY <1>6, ThresholdsAssumption
       DEF StopDone, FreqChanges, MachineChanges, FaultCleared, timerVars, TypeOK
  <2>2. Lists /\ UNCHANGED timerVars
    BY <1>6 DEF StopDone, FreqChanges, MachineChanges, FaultCleared
  <2>3. Rest'
    BY <2>2 DEF CallPending, OperatorStops, OperatorIdle, Apart, StopsUnflagged,
      FlagTimed,
                Calling, timerVars
  <2> QED BY <2>1, <2>3
<1>7. CASE OperatorMark \/ OperatorStop \/ OperatorDone
  <2>1. TypeOK'
    BY <1>7 DEF OperatorMark, OperatorStop, OperatorDone, timerVars, TypeOK
  <2>2. UNCHANGED <<todo, called, crossed>> /\ UNCHANGED timerVars /\ todo["operator"] = <<>>
    BY <1>7 DEF OperatorMark, OperatorStop, OperatorDone, OperatorIdle
  <2>3. Rest'
    BY <2>2 DEF CallPending, OperatorStops, OperatorIdle, Apart, StopsUnflagged,
      FlagTimed,
                Calling, timerVars
  <2> QED BY <2>1, <2>3
<1>8. CASE OperatorLoop
  <2>1. ordering = "marked" /\ ordering' = "inLoop" /\ todo["operator"] = <<>>
        /\ "operator" \notin called /\ UNCHANGED called /\ UNCHANGED timerVars
    BY <1>8, <1>t DEF OperatorLoop, OperatorIdle, CallPending
  <2>2. CASE man
    <3>1. /\ todo' = [todo EXCEPT !["operator"] = StopAll]
          /\ crossed' = (crossed \/ todo["task"] # <<>>)
      BY <1>8, <2>2 DEF OperatorLoop
    <3>2. crossed' \in BOOLEAN
      BY <3>1, Zenon
    <3>3. StopAll \in Seq(Ops)
      BY DEF StopAll, StopOp, Ops, Timers, UpTimers, DownTimers
    <3>4. TypeOK'
      BY <1>8, <1>t, <2>2, <3>1, <3>2, <3>3 DEF OperatorLoop, TypeOK, timerVars
    <3>5. todo'["operator"] = StopAll /\ todo'["task"] = todo["task"]
      BY <1>t, <3>1
    <3>6. crossed' \/ (~crossed /\ todo'["task"] = <<>>)
      BY <3>1, <3>5, Zenon
    <3>7. CallPending' /\ OperatorStops' /\ OperatorIdle' /\ Apart'
      BY <1>t, <2>1, <3>5, <3>6, StopAllStops DEF CallPending, OperatorStops,
        OperatorIdle, Apart
    <3>8. StopsUnflagged' /\ FlagTimed'
      BY <1>t, <2>1, <3>5, <3>6 DEF StopsUnflagged, FlagTimed, Calling, timerVars
    <3> QED BY <3>4, <3>7, <3>8
  <2>3. CASE ~man
    <3>1. UNCHANGED <<man, fault, todo, crossed>>
      BY <1>8, <2>3 DEF OperatorLoop
    <3>2. TypeOK'
      BY <1>8, <3>1 DEF OperatorLoop, TypeOK, timerVars
    <3>3. Rest'
      BY <2>1, <3>1 DEF CallPending, OperatorStops, OperatorIdle, Apart,
        StopsUnflagged,
                        FlagTimed, Calling, timerVars
    <3> QED BY <3>2, <3>3
  <2> QED BY <2>2, <2>3
<1>9. CASE UNCHANGED vars
  BY <1>9 DEF vars, TypeOK, CallPending, OperatorStops, OperatorIdle, Apart,
    StopsUnflagged,
              FlagTimed, Calling
<1> QED BY <1>1, <1>2, <1>3, <1>4, <1>5, <1>6, <1>7, <1>8, <1>9 DEF Next

(* The module's types.                                                      *)
THEOREM FreqTypeCorrect == Spec => []TypeOK
<1>1. IInv => TypeOK
  BY DEF IInv
<1> QED BY <1>1, InitIInv, NextIInv, PTL DEF Spec

(* What the list of the task says of a far timer that enterUpFlag or        *)
(* enterDownFlag, here e, remembers: it is only started while it is         *)
(* remembered, and a flagged one is remembered or still to be stopped.      *)
Has(todos, op) == \E i \in DOMAIN todos : todos[i] = op
Remembered(t, e) ==
    /\ flag[t] => e \/ Has(todo["task"], StopOp(t))
    /\ Has(todo["task"], StartOp(t)) => e
    /\ Calling("task", StopOp(t)) => ~flag[t]
FarInv == Remembered(FarUp, enterUp) /\ Remembered(FarDown, enterDown)

(* An operation of a list is its head or in its tail.                       *)
LEMMA HeadOrTail ==
    ASSUME NEW todos \in Seq(Ops), todos # <<>>, NEW op
    PROVE  Has(todos, op) <=> Head(todos) = op \/ Has(Tail(todos), op)
<1>1. Head(todos) = todos[1] /\ DOMAIN todos = 1 .. Len(todos) /\ 1 \in DOMAIN todos
      /\ Len(todos) \in Nat
  OBVIOUS
<1>2. /\ DOMAIN Tail(todos) = 1 .. Len(todos) - 1
      /\ \A i \in 1 .. Len(todos) - 1 : Tail(todos)[i] = todos[i + 1]
  OBVIOUS
<1>3. \A i \in 2 .. Len(todos) : i - 1 \in DOMAIN Tail(todos) /\ Tail(todos)[i - 1] = todos[i]
  BY <1>1, <1>2
<1>4. \A i \in DOMAIN Tail(todos) : i + 1 \in DOMAIN todos /\ Tail(todos)[i] = todos[i + 1]
  BY <1>1, <1>2
<1>5. \A i \in DOMAIN todos : i = 1 \/ i \in 2 .. Len(todos)
  BY <1>1
<1> QED BY <1>1, <1>3, <1>4, <1>5 DEF Has

(* Two lists of one operation are one list of two.                          *)
LEMMA TwoOps == ASSUME NEW x, NEW y PROVE <<x>> \o <<y>> = <<x, y>>
<1>1. Len(<<x>> \o <<y>>) = 2 /\ <<x>> \o <<y>> \in Seq({x, y})
  OBVIOUS
<1>2. (<<x>> \o <<y>>)[1] = x /\ (<<x>> \o <<y>>)[2] = y
  OBVIOUS
<1>3. <<x, y>> \in Seq({x, y}) /\ Len(<<x, y>>) = 2 /\ <<x, y>>[1] = x /\ <<x, y>>[2] = y
  OBVIOUS
<1>4. \A i \in 1 .. 2 : (<<x>> \o <<y>>)[i] = <<x, y>>[i]
  BY <1>2, <1>3
<1> QED BY <1>1, <1>3, <1>4, SeqEqual

(* A pass starts a far timer only beyond its threshold, and stops it back   *)
(* in range and, when it is remembered, between the thresholds.             *)
LEMMA PassFar ==
    ASSUME NEW level \in AllLevels, NEW up \in BOOLEAN, NEW down \in BOOLEAN
    PROVE  /\ Has(Pass(level, up, down), StartOp(FarUp)) => level = "farOver"
           /\ Has(Pass(level, up, down), StartOp(FarDown)) => level = "farUnder"
           /\ level = "normal" => /\ Has(Pass(level, up, down), StopOp(FarUp))
                                  /\ Has(Pass(level, up, down), StopOp(FarDown))
           /\ level = "over" /\ up => Has(Pass(level, up, down), StopOp(FarUp))
           /\ level = "under" /\ down => Has(Pass(level, up, down), StopOp(FarDown))
<1>1. /\ FarUp \in UpTimers /\ FarUp # NearUp
      /\ FarDown \in DownTimers /\ FarDown # NearDown
  <2>1. (\E t \in UpTimers : t # NearUp) /\ (\E t \in DownTimers : t # NearDown)
    BY DEF UpTimers, DownTimers
  <2> QED BY <2>1 DEF FarUp, FarDown
<1>2. NearUp \in UpTimers /\ NearDown \in DownTimers /\ FarUp # FarDown
      /\ FarUp # NearDown /\ FarDown # NearUp
  BY <1>1, ThresholdsAssumption DEF UpTimers, DownTimers
<1>3. \A t, u : /\ StartOp(t) = StartOp(u) => t = u
                /\ StopOp(t) # StartOp(u)
  BY DEF StartOp, StopOp
<1>4. CASE level = "normal"
  <2>1. Pass(level, up, down) = StopAll
    BY <1>4 DEF Pass
  <2>2. \A i \in DOMAIN StopAll : \E t : StopAll[i] = StopOp(t)
    BY DEF StopAll
  <2>3. \A t \in Timers : Has(StopAll, StopOp(t))
    <3>1. /\ StopAll[1] = StopOp("OF1") /\ StopAll[2] = StopOp("OF2")
          /\ StopAll[3] = StopOp("UF1") /\ StopAll[4] = StopOp("UF2")
          /\ DOMAIN StopAll = 1 .. 4
      BY DEF StopAll
    <3>2. {1, 2, 3, 4} \subseteq DOMAIN StopAll
      BY <3>1
    <3> QED BY <3>1, <3>2, Zenon DEF Has, Timers, UpTimers, DownTimers
  <2> QED BY <1>3, <1>4, <2>1, <2>2, <2>3, FarTimers DEF Has
<1>5. CASE level = "over"
  <2>1. CASE up
    <3>1. Pass(level, up, down) = <<StartOp(NearUp), StopOp(FarUp)>>
      <4>1. Pass(level, up, down) = <<StartOp(NearUp)>> \o <<StopOp(FarUp)>>
        BY <1>5, <2>1 DEF Pass
      <4>2. <<StartOp(NearUp)>> \o <<StopOp(FarUp)>> = <<StartOp(NearUp), StopOp(FarUp)>>
        BY TwoOps
      <4> QED BY <4>1, <4>2
    <3> QED BY <1>1, <1>2, <1>3, <1>5, <3>1 DEF Has
  <2>2. CASE ~up
    <3>1. Pass(level, up, down) = <<StartOp(NearUp)>>
      BY <1>5, <2>2 DEF Pass
    <3> QED BY <1>1, <1>2, <1>3, <1>5, <2>2, <3>1 DEF Has
  <2> QED BY <2>1, <2>2
<1>6. CASE level = "farOver"
  <2>1. Pass(level, up, down) = <<StartOp(NearUp), StartOp(FarUp)>>
    BY <1>6 DEF Pass
  <2> QED BY <1>1, <1>2, <1>3, <1>6, <2>1 DEF Has
<1>7. CASE level = "under"
  <2>1. CASE down
    <3>1. Pass(level, up, down) = <<StartOp(NearDown), StopOp(FarDown)>>
      <4>1. Pass(level, up, down) = <<StartOp(NearDown)>> \o <<StopOp(FarDown)>>
        BY <1>7, <2>1 DEF Pass
      <4>2. <<StartOp(NearDown)>> \o <<StopOp(FarDown)>> = <<StartOp(NearDown), StopOp(FarDown)>>
        BY TwoOps
      <4> QED BY <4>1, <4>2
    <3> QED BY <1>1, <1>2, <1>3, <1>7, <3>1 DEF Has
  <2>2. CASE ~down
    <3>1. Pass(level, up, down) = <<StartOp(NearDown)>>
      BY <1>7, <2>2 DEF Pass
    <3> QED BY <1>1, <1>2, <1>3, <1>7, <2>2, <3>1 DEF Has
  <2> QED BY <2>1, <2>2
<1>8. CASE level = "farUnder"
  <2>1. Pass(level, up, down) = <<StartOp(NearDown), StartOp(FarDown)>>
    BY <1>8 DEF Pass
  <2> QED BY <1>1, <1>2, <1>3, <1>8, <2>1 DEF Has
<1> QED BY <1>4, <1>5, <1>6, <1>7, <1>8 DEF AllLevels

(* Whatever the two flags hold at first.                                    *)
LEMMA InitFar == Init => FarInv
BY FarTimers DEF Init, FarInv, Remembered, Has, Calling, Threads

(* A step of a thread at the timers leaves what is remembered of each.      *)
LEMMA TimerStepRemembers ==
    ASSUME IInv, NEW h \in Threads, TimerTest(h) \/ TimerCall(h),
           NEW t \in Timers, NEW e \in BOOLEAN, Remembered(t, e)
    PROVE  Remembered(t, e)'
<1> DEFINE op == Head(todo[h])
<1>1. /\ flag \in [Timers -> BOOLEAN] /\ todo \in [Threads -> Seq(Ops)] /\ todo[h] \in Seq(Ops)
      /\ "task" \in Threads /\ (h = "task" \/ h = "operator")
  BY DEF IInv, TypeOK, Threads
<1>2. todo[h] # <<>>
  BY DEF IInv, CallPending, TimerTest, TimerCall
<1>3. /\ op.timer \in Timers /\ op.do \in {"start", "stop"}
      /\ op = [do |-> op.do, timer |-> op.timer]
  BY <1>1, <1>2, NextOp
<1>4. h = "operator" => op.do = "stop"
  BY <1>1, <1>2, TailStops DEF IInv, OperatorStops
<1>5. \A x : Has(todo[h], x) <=> op = x \/ Has(Tail(todo[h]), x)
  BY <1>1, <1>2, HeadOrTail
<1>6. (op = StopOp(t) <=> op.do = "stop" /\ op.timer = t)
      /\ (op = StartOp(t) <=> op.do = "start" /\ op.timer = t)
  BY <1>3 DEF StartOp, StopOp
<1> HIDE DEF op
<1>7. CASE TimerTest(h) /\ flag[op.timer] = (op.do = "start")
  <2>1. /\ UNCHANGED <<flag, called>> /\ h \notin called
        /\ todo' = [todo EXCEPT ![h] = Tail(todo[h])]
    BY <1>7 DEF TimerTest, Drop, op
  <2>2. op = StopOp(t) => ~flag[t]
    BY <1>6, <1>7
  <2>3. CASE h = "task"
    BY <1>1, <1>5, <2>1, <2>2, <2>3 DEF Remembered, Calling
  <2>4. CASE h = "operator"
    BY <1>1, <2>1, <2>4 DEF Remembered, Calling
  <2> QED BY <1>1, <2>3, <2>4
<1>8. CASE TimerTest(h) /\ flag[op.timer] # (op.do = "start")
  <2>1. /\ flag' = [flag EXCEPT ![op.timer] = (op.do = "start")]
        /\ called' = called \cup {h} /\ UNCHANGED todo
    BY <1>8 DEF TimerTest, op
  <2>2. op.timer # t => flag'[t] = flag[t]
    BY <1>1, <2>1
  <2>3. op.timer = t => flag'[t] = (op.do = "start")
    BY <1>1, <1>3, <2>1
  <2>4. flag'[t] => e \/ Has(todo'["task"], StopOp(t))
    <3>1. CASE op.timer = t /\ op.do = "start"
      <4>1. h = "task" /\ Has(todo["task"], StartOp(t))
        BY <1>1, <1>4, <1>5, <1>6, <3>1
      <4> QED BY <4>1 DEF Remembered
    <3>2. CASE op.timer = t /\ op.do = "stop"
      BY <2>3, <3>2
    <3>3. CASE op.timer # t
      BY <2>1, <2>2, <3>3 DEF Remembered
    <3> QED BY <1>3, <3>1, <3>2, <3>3
  <2>5. Calling("task", StopOp(t))' => ~flag'[t]
    <3>1. CASE h = "task"
      BY <1>6, <2>1, <2>3, <3>1 DEF Calling, op
    <3>2. CASE h = "operator"
      BY <1>3, <1>4, <2>1, <2>2, <2>3, <3>2 DEF Calling, Remembered
    <3> QED BY <1>1, <3>1, <3>2
  <2> QED BY <2>1, <2>4, <2>5 DEF Remembered
<1>9. CASE TimerCall(h)
  <2>1. /\ UNCHANGED flag /\ h \in called /\ called' = called \ {h}
        /\ todo' = [todo EXCEPT ![h] = Tail(todo[h])]
    BY <1>9 DEF TimerCall, Drop
  <2>2. h = "task" /\ op = StopOp(t) => ~flag[t]
    BY <2>1 DEF Remembered, Calling, op
  <2>3. CASE h = "task"
    BY <1>1, <1>5, <2>1, <2>2, <2>3 DEF Remembered, Calling
  <2>4. CASE h = "operator"
    BY <1>1, <2>1, <2>4 DEF Remembered, Calling
  <2> QED BY <1>1, <2>3, <2>4
<1> QED BY <1>7, <1>8, <1>9

(* Every step preserves it.                                                 *)
LEMMA NextFar == IInv /\ FarInv /\ [Next]_vars => FarInv'
<1> SUFFICES ASSUME IInv, FarInv, [Next]_vars PROVE FarInv'
  OBVIOUS
<1>t. /\ enterUp \in BOOLEAN /\ enterDown \in BOOLEAN /\ freq \in AllLevels
      /\ todo \in [Threads -> Seq(Ops)] /\ "task" \in Threads
  BY DEF IInv, TypeOK, Threads
<1>1. CASE PassBegin
  <2>1. /\ todo["task"] = <<>> /\ todo'["task"] = Pass(freq, enterUp, enterDown)
        /\ UNCHANGED flag /\ "task" \notin called /\ UNCHANGED called
    BY <1>1, <1>t DEF PassBegin, IInv, CallPending, timerVars
  <2>2. /\ enterUp' = CASE freq = "farOver" -> TRUE [] freq = "over" -> FALSE [] OTHER -> enterUp
        /\ enterDown' = CASE freq = "farUnder" -> TRUE [] freq = "under" -> FALSE
                          [] OTHER -> enterDown
    BY <1>1 DEF PassBegin
  <2>3. (flag[FarUp] => enterUp) /\ (flag[FarDown] => enterDown)
    BY <2>1 DEF FarInv, Remembered, Has
  <2>4. Remembered(FarUp, enterUp)'
    BY <1>t, <2>1, <2>2, <2>3, PassFar DEF Remembered, Calling, AllLevels
  <2>5. Remembered(FarDown, enterDown)'
    BY <1>t, <2>1, <2>2, <2>3, PassFar DEF Remembered, Calling, AllLevels
  <2> QED BY <2>4, <2>5 DEF FarInv
<1>2. ASSUME NEW h \in Threads, TimerTest(h) \/ TimerCall(h) PROVE FarInv'
  <2>1. UNCHANGED <<enterUp, enterDown>>
    BY <1>2 DEF TimerTest, TimerCall
  <2>2. \A t \in Timers, e \in BOOLEAN : Remembered(t, e) => Remembered(t, e)'
    BY <1>2, TimerStepRemembers
  <2>3. Remembered(FarUp, enterUp)'
    BY <1>t, <2>1, <2>2, FarTimers DEF FarInv, Remembered
  <2>4. Remembered(FarDown, enterDown)'
    BY <1>t, <2>1, <2>2, FarTimers DEF FarInv, Remembered
  <2> QED BY <2>3, <2>4 DEF FarInv
<1>3. ASSUME NEW t \in Timers, DoFreqProt(t) PROVE FarInv'
  BY <1>3, FarTimers DEF DoFreqProt, FarInv, Remembered, Calling
<1>4. CASE OperatorLoop
  <2>1. todo'["task"] = todo["task"]
    BY <1>4, <1>t DEF OperatorLoop
  <2>2. UNCHANGED <<enterUp, enterDown, called, flag>>
    BY <1>4 DEF OperatorLoop, timerVars
  <2> QED BY <2>1, <2>2 DEF FarInv, Remembered, Calling
<1>5. CASE (\E t \in Timers : Expire(t)) \/ StopDone \/ OperatorMark \/ OperatorStop
           \/ OperatorDone \/ (\E level \in Levels : FreqChanges(level)) \/ MachineChanges
           \/ FaultCleared \/ UNCHANGED vars
  <2>1. UNCHANGED <<enterUp, enterDown, called, flag, todo>>
    BY <1>5 DEF Expire, StopDone, OperatorMark, OperatorStop, OperatorDone,
      FreqChanges,
                MachineChanges, FaultCleared, vars, timerVars
  <2> QED BY <2>1 DEF FarInv, Remembered, Calling
<1> QED BY <1>1, <1>2, <1>3, <1>4, <1>5 DEF Next

(* Until an operator's stop falls into a pass, the flags of the task and of *)
(* the callback never get ahead of the RTOS: no timer is taken for started  *)
(* that is not.  And at every moment a flagged far timer is remembered, so  *)
(* the pass between the thresholds takes it back.                           *)
THEOREM FlagsStandForTimers == Spec => []FlagsTrue
<1>1. FarInv => FarRemembered
  BY DEF FarInv, Remembered, Has, FarRemembered
<1>2. IInv /\ FarInv => FlagsTrue
  BY <1>1 DEF IInv, FlagsTrue
<1> QED BY <1>2, InitIInv, InitFar, NextIInv, NextFar, PTL DEF Spec

(***************************************************************************)
(* The communication.  For every tolerance and every width of the counter  *)
(* above it, a device is judged disconnected exactly when it was silent for*)
(* long enough; and the reception under it, for every size of the ring,    *)
(* counts each frame of the EMU once.                                      *)
(***************************************************************************)

(* Until the alarm errCnt is the number of silent samples: it cannot wrap  *)
(* before the flag is set, and the flag does not look at it afterwards.    *)
CountIsQuiet == \A d \in Devices : quiet[d] <= JdgCnt + 1 => errCnt[d] = quiet[d]

CommInv == CommTypeOK /\ CountIsQuiet /\ LossIsSilence

(* A sample of one device.                                                 *)
LEMMA SampleKeeps ==
    ASSUME CommInv, Check, NEW d \in Devices
    PROVE  /\ errCnt'[d] \in 0 .. CountWidth - 1
           /\ disconnFlag'[d] \in BOOLEAN
           /\ quiet'[d] \in 0 .. JdgCnt + 2
           /\ quiet'[d] <= JdgCnt + 1 => errCnt'[d] = quiet'[d]
           /\ disconnFlag'[d] <=> quiet'[d] = JdgCnt + 2
<1>1. /\ JdgCnt \in Nat /\ CountWidth \in Nat /\ CountWidth > JdgCnt + 2
      /\ errCnt[d] \in 0 .. CountWidth - 1 /\ quiet[d] \in 0 .. JdgCnt + 2
      /\ quiet[d] <= JdgCnt + 1 => errCnt[d] = quiet[d]
      /\ disconnFlag[d] <=> quiet[d] = JdgCnt + 2
  BY CommAssumption DEF CommInv, CommTypeOK, CountIsQuiet, LossIsSilence
<1>2. /\ errCnt'[d] = Counted(d) /\ disconnFlag'[d] = Judged(d)
      /\ quiet'[d] = IF ~Silent(d) THEN 0 ELSE IF quiet[d] > JdgCnt THEN JdgCnt + 2 ELSE quiet[d] + 1
  BY DEF Check
<1>3. CASE ~Silent(d)
  <2>1. errCnt'[d] = 0 /\ quiet'[d] = 0
    BY <1>2, <1>3 DEF Counted
  <2>2. disconnFlag'[d] = FALSE
    BY <1>2, <1>3 DEF Judged
  <2>3. /\ errCnt'[d] \in 0 .. CountWidth - 1 /\ quiet'[d] \in 0 .. JdgCnt + 2
        /\ quiet'[d] # JdgCnt + 2
    BY <1>1, <2>1
  <2> QED BY <2>1, <2>2, <2>3
<1>4. CASE Silent(d) /\ quiet[d] <= JdgCnt
  <2>1. errCnt'[d] = quiet[d] + 1 /\ quiet'[d] = quiet[d] + 1
    BY <1>1, <1>2, <1>4 DEF Counted
  <2>2. quiet[d] # JdgCnt + 2 /\ ~(errCnt[d] > JdgCnt)
    BY <1>1, <1>4
  <2>3. ~disconnFlag[d]
    BY <1>1, <2>2
  <2>4. disconnFlag'[d] = FALSE
    BY <1>2, <2>2, <2>3 DEF Judged
  <2>5. /\ errCnt'[d] \in 0 .. CountWidth - 1 /\ quiet'[d] \in 0 .. JdgCnt + 2
        /\ quiet'[d] # JdgCnt + 2
    BY <1>1, <1>4, <2>1
  <2> QED BY <2>1, <2>4, <2>5
<1>5. CASE Silent(d) /\ quiet[d] > JdgCnt
  <2>1. quiet'[d] = JdgCnt + 2
    BY <1>1, <1>2, <1>5
  <2>2. disconnFlag[d] \/ errCnt[d] > JdgCnt
    BY <1>1, <1>5
  <2>3. disconnFlag'[d] = TRUE
    BY <1>2, <1>5, <2>2 DEF Judged
  <2>4. errCnt'[d] \in 0 .. CountWidth - 1
    BY <1>1, <1>2, <1>5 DEF Counted
  <2>5. quiet'[d] \in 0 .. JdgCnt + 2 /\ ~(quiet'[d] <= JdgCnt + 1)
    BY <1>1, <2>1
  <2>6. disconnFlag'[d] \in BOOLEAN /\ (disconnFlag'[d] <=> quiet'[d] = JdgCnt + 2)
    BY <2>1, <2>3
  <2> QED BY <2>4, <2>5, <2>6
<1> QED BY <1>1, <1>3, <1>4, <1>5

(* The invariant holds at first and every step keeps it.                   *)
LEMMA InitCommInv == CommInit => CommInv
<1> SUFFICES ASSUME CommInit PROVE CommInv
  OBVIOUS
<1>1. 0 \in 0 .. CountWidth - 1 /\ 0 \in 0 .. JdgCnt + 2 /\ 0 # JdgCnt + 2
  BY CommAssumption
<1>2. CommTypeOK
  BY <1>1, CommAssumption DEF CommInit, CommTypeOK, Fsm
<1>3. CountIsQuiet /\ LossIsSilence
  BY <1>1 DEF CommInit, CountIsQuiet, LossIsSilence
<1> QED BY <1>2, <1>3 DEF CommInv

LEMMA NextCommInv == CommInv /\ [CommNext]_commVars => CommInv'
<1> SUFFICES ASSUME CommInv, [CommNext]_commVars PROVE CommInv'
  OBVIOUS
<1>1. CASE Check
  <2>1. errCnt' \in [Devices -> 0 .. CountWidth - 1]
    BY <1>1, SampleKeeps DEF Check
  <2>2. disconnFlag' \in [Devices -> BOOLEAN] /\ quiet' \in [Devices -> 0 .. JdgCnt + 2]
    BY <1>1, SampleKeeps DEF Check
  <2>3. CommTypeOK'
    BY <1>1, <2>1, <2>2 DEF Check, CommInv, CommTypeOK
  <2>4. CountIsQuiet' /\ LossIsSilence'
    BY <1>1, SampleKeeps DEF CountIsQuiet, LossIsSilence
  <2> QED BY <2>3, <2>4 DEF CommInv
<1>2. CASE Handle
  BY <1>2 DEF Handle, StopsNow, StartsNow, CommInv, CommTypeOK, CountIsQuiet,
    LossIsSilence, Fsm
<1>3. CASE Handled
  BY <1>3 DEF Handled, CommInv, CommTypeOK, CountIsQuiet, LossIsSilence
<1>4. CASE \E d \in Devices : Beat(d)
  BY <1>4 DEF Beat, CommInv, CommTypeOK, CountIsQuiet, LossIsSilence
<1>5. CASE \E devices \in Enables : Configure(devices)
  BY <1>5, CommAssumption DEF Configure, CommInv, CommTypeOK, CountIsQuiet,
    LossIsSilence
<1>6. CASE \E m \in Fsm : MachineMoves(m)
  BY <1>6 DEF MachineMoves, CommInv, CommTypeOK, CountIsQuiet, LossIsSilence
<1>7. CASE UNCHANGED commVars
  BY <1>7 DEF commVars, CommInv, CommTypeOK, CountIsQuiet, LossIsSilence
<1> QED BY <1>1, <1>2, <1>3, <1>4, <1>5, <1>6, <1>7 DEF CommNext

(* The module's types, and the exactness of its judgement.                 *)
THEOREM CommTypeCorrect == CommSpec => []CommTypeOK
<1>1. CommInv => CommTypeOK
  BY DEF CommInv
<1> QED BY <1>1, InitCommInv, NextCommInv, PTL DEF CommSpec

(* No device is judged disconnected early, late or never.                  *)
THEOREM JudgementIsExact == CommSpec => []LossIsSilence
<1>1. CommInv => LossIsSilence
  BY DEF CommInv
<1> QED BY <1>1, InitCommInv, NextCommInv, PTL DEF CommSpec

-----------------------------------------------------------------------------
(* The composition with the reception.                                     *)

(* A step of the composition is one of the supervision or leaves it alone. *)
LEMMA LinkStep == [LinkNext]_linkVars => [CommNext]_commVars
<1> SUFFICES ASSUME [LinkNext]_linkVars PROVE [CommNext]_commVars
  OBVIOUS
<1>1. CASE Interrupt
  BY <1>1 DEF Interrupt
<1>2. CASE Reading
  BY <1>2 DEF Reading, Heard, CommNext, Devices
<1>3. CASE Update
  BY <1>3 DEF Update
<1>4. CASE Supervision
  BY <1>4 DEF Supervision, CommNext, Devices
<1>5. CASE UNCHANGED linkVars
  BY <1>5 DEF linkVars
<1> QED BY <1>1, <1>2, <1>3, <1>4, <1>5 DEF LinkNext

(* The composition implements the supervision by itself.                   *)
LEMMA LinkImplementsSupervision == LinkSpec => CommSpec
<1>1. LinkInit => CommInit
  BY DEF LinkInit
<1> QED BY <1>1, LinkStep, PTL DEF LinkSpec, CommSpec

(* With the frames of the EMU for its heartbeat, the judgement is exact.   *)
THEOREM LinkJudgementIsExact == LinkSpec => []LossIsSilence
BY LinkImplementsSupervision, JudgementIsExact, PTL

(* The frames of the EMU among those numbered lo to hi - 1.                *)
Among(lo, hi, frames) == {i \in lo .. hi - 1 : frames[i] = "emu"}

(* Their number is that of an interval's elements at most.                 *)
LEMMA AmongBounded ==
    ASSUME NEW lo \in Int, NEW hi \in Int, lo <= hi, NEW frames
    PROVE  /\ IsFiniteSet(Among(lo, hi, frames))
           /\ Cardinality(Among(lo, hi, frames)) \in 0 .. hi - lo
<1>1. IsFiniteSet(lo .. hi - 1) /\ Cardinality(lo .. hi - 1) = hi - lo
  <2>1. hi - 1 \in Int
    OBVIOUS
  <2>2. /\ IsFiniteSet(lo .. hi - 1)
        /\ Cardinality(lo .. hi - 1) = IF lo > hi - 1 THEN 0 ELSE (hi - 1) - lo + 1
    BY <2>1, FS_Interval
  <2> QED BY <2>2
<1>2. Among(lo, hi, frames) \subseteq lo .. hi - 1
  BY DEF Among
<1>3. /\ IsFiniteSet(Among(lo, hi, frames))
      /\ Cardinality(Among(lo, hi, frames)) <= hi - lo
  BY <1>1, <1>2, FS_Subset
<1>4. Cardinality(Among(lo, hi, frames)) \in Nat
  BY <1>3, FS_CardinalityType
<1> QED BY <1>3, <1>4

(* While nothing has spoilt the pass, the reader is behind the interrupt   *)
(* and both are within the ring.                                           *)
CanInv ==
    /\ CanTypeOK
    /\ reader = "reset" => rd_num_count = 0
    /\ ~spoilt =>
          /\ rd_num_count <= rx_num_count
          /\ owed = IF reader = "reset" THEN 0
                    ELSE Cardinality(Among(rd_num_count, rx_num_count, rx_frame))

(* One more frame is stored.                                               *)
LEMMA ReceiveKeeps == ASSUME CanInv, NEW fr \in Frames, Receive(fr) PROVE CanInv'
<1>1. /\ rx_frame \in [Slots -> Frames] /\ rx_num_count \in Slots
      /\ rd_num_count \in 0 .. Width - 1 /\ reader \in {"read", "reset", "dead"}
      /\ CAN_RX_NUM \in Nat /\ CAN_RX_NUM >= 2 /\ Width \in Nat
  BY CanAssumption DEF CanInv, CanTypeOK
<1>2. /\ rx_frame' \in [Slots -> Frames] /\ rx_num_count' \in Slots
      /\ rd_num_count' \in 0 .. Width - 1 /\ reader' \in {"read", "reset", "dead"}
  BY <1>1 DEF Receive, Slots
<1>3. CASE spoilt \/ reader = "reset" \/ rx_num_count + 1 >= CAN_RX_NUM
  <2>1. spoilt' = TRUE /\ owed' = 0
    BY <1>3 DEF Receive, Remember
  <2>2. owed' \in Slots
    BY <1>1, <2>1 DEF Slots
  <2>3. reader' = "reset" => rd_num_count' = 0
    BY DEF Receive, CanInv
  <2> QED BY <1>2, <2>1, <2>2, <2>3 DEF CanInv, CanTypeOK
<1>4. CASE ~(spoilt \/ reader = "reset" \/ rx_num_count + 1 >= CAN_RX_NUM)
  <2> DEFINE old == Among(rd_num_count, rx_num_count, rx_frame)
             now == Among(rd_num_count', rx_num_count', rx_frame')
  <2>1. /\ rd_num_count <= rx_num_count
        /\ owed = Cardinality(old)
    BY <1>4 DEF CanInv
  <2>2. /\ spoilt' = FALSE /\ owed' = owed + Counts(fr)
        /\ rd_num_count' = rd_num_count /\ reader' = reader
        /\ rx_num_count' = rx_num_count + 1
        /\ rx_frame' = [rx_frame EXCEPT ![rx_num_count] = fr]
    BY <1>4 DEF Receive, Remember
  <2>3. IsFiniteSet(old) /\ Cardinality(old) \in 0 .. rx_num_count - rd_num_count
    BY <1>1, <2>1, AmongBounded DEF Slots
  <2>4. rx_num_count \notin old
    BY <1>1 DEF Among, Slots
  <2>5. now = IF fr = "emu" THEN old \cup {rx_num_count} ELSE old
    BY <1>1, <2>1, <2>2 DEF Among, Slots
  <2>6. Cardinality(now) = owed + Counts(fr)
    <3>1. CASE fr = "emu"
      <4>1. Cardinality(now) = Cardinality(old) + 1
        BY <2>3, <2>4, <2>5, <3>1, FS_AddElement
      <4> QED BY <2>1, <3>1, <4>1 DEF Counts
    <3>2. CASE fr # "emu"
      BY <2>1, <2>3, <2>5, <3>2 DEF Counts
    <3> QED BY <3>1, <3>2
  <2>7. owed' \in Slots
    BY <1>1, <1>4, <2>1, <2>2, <2>3 DEF Counts, Slots
  <2>8. rd_num_count' <= rx_num_count' /\ reader' # "reset"
    BY <1>1, <1>4, <2>1, <2>2 DEF Slots
  <2> QED BY <1>2, <2>2, <2>6, <2>7, <2>8 DEF CanInv, CanTypeOK
<1> QED BY <1>3, <1>4

(* One frame is read.                                                      *)
LEMMA ReadKeeps == ASSUME CanInv, NEW fr \in Frames, ReadFrame(fr) PROVE CanInv'
<1>1. /\ rx_frame \in [Slots -> Frames] /\ rx_num_count \in Slots
      /\ rd_num_count \in 0 .. Width - 1 /\ reader = "read"
      /\ CAN_RX_NUM \in Nat /\ CAN_RX_NUM >= 2 /\ Width \in Nat /\ Width > CAN_RX_NUM
  BY CanAssumption DEF CanInv, CanTypeOK, ReadFrame
<1>2. /\ rx_frame' = rx_frame /\ rx_num_count' = rx_num_count /\ reader' = reader
      /\ rd_num_count' = (rd_num_count + 1) % Width /\ rd_num_count # rx_num_count
      /\ spoilt' = spoilt
      /\ owed' = IF spoilt THEN 0 ELSE owed - Counts(fr)
  BY DEF ReadFrame, Remember
<1>3. rd_num_count' \in 0 .. Width - 1
  BY <1>1, <1>2
<1>4. CASE spoilt
  <2>1. owed' \in Slots
    BY <1>1, <1>2, <1>4 DEF Slots
  <2> QED BY <1>1, <1>2, <1>3, <1>4, <2>1 DEF CanInv, CanTypeOK
<1>5. CASE ~spoilt
  <2> DEFINE old == Among(rd_num_count, rx_num_count, rx_frame)
             now == Among(rd_num_count', rx_num_count', rx_frame')
  <2>1. rd_num_count <= rx_num_count /\ owed = Cardinality(old)
    BY <1>1, <1>5 DEF CanInv
  <2>2. /\ rd_num_count < rx_num_count /\ rd_num_count \in Slots
        /\ rd_num_count' = rd_num_count + 1
    BY <1>1, <1>2, <2>1 DEF Slots
  <2>3. IsFiniteSet(old) /\ Cardinality(old) \in 0 .. rx_num_count - rd_num_count
    BY <1>1, <2>1, AmongBounded DEF Slots
  <2>4. fr = rx_frame[rd_num_count]
    BY <2>2 DEF ReadFrame, FrameAt
  <2>5. now = IF fr = "emu" THEN old \ {rd_num_count} ELSE old
    <3>1. /\ rd_num_count \in Int /\ rx_num_count \in Int
          /\ rd_num_count < rx_num_count
      BY <1>1, <2>2 DEF Slots
    <3>2. (rd_num_count + 1) .. rx_num_count - 1
              = (rd_num_count .. rx_num_count - 1) \ {rd_num_count}
      BY <3>1
    <3>3. now = {i \in (rd_num_count + 1) .. rx_num_count - 1 : rx_frame[i] = "emu"}
      BY <1>2, <2>2 DEF Among
    <3> QED BY <2>4, <3>2, <3>3 DEF Among
  <2>6. fr = "emu" => rd_num_count \in old
    <3>1. rd_num_count \in rd_num_count .. rx_num_count - 1
      BY <1>1, <2>2 DEF Slots
    <3> QED BY <2>4, <3>1 DEF Among
  <2>7. Cardinality(now) = owed - Counts(fr) /\ owed - Counts(fr) \in Nat
    <3>1. CASE fr = "emu"
      <4>1. Cardinality(now) = Cardinality(old) - 1 /\ IsFiniteSet(now)
        BY <2>3, <2>5, <2>6, <3>1, FS_RemoveElement
      <4>2. Cardinality(now) \in Nat
        BY <4>1, FS_CardinalityType
      <4> QED BY <2>1, <3>1, <4>1, <4>2 DEF Counts
    <3>2. CASE fr # "emu"
      BY <2>1, <2>3, <2>5, <3>2 DEF Counts
    <3> QED BY <3>1, <3>2
  <2>8. owed' \in Slots
    BY <1>1, <1>2, <1>5, <2>1, <2>2, <2>3, <2>7 DEF Counts, Slots
  <2>9. rd_num_count' <= rx_num_count' /\ reader' # "reset"
    BY <1>1, <1>2, <2>2 DEF Slots
  <2> QED BY <1>1, <1>2, <1>3, <1>5, <2>7, <2>8, <2>9 DEF CanInv, CanTypeOK
<1> QED BY <1>4, <1>5

(* The invariant holds at first.                                           *)
LEMMA CanInitInv == CanInit => CanInv
<1> SUFFICES ASSUME CanInit PROVE CanInv
  OBVIOUS
<1>1. CAN_RX_NUM \in Nat /\ CAN_RX_NUM >= 2 /\ Width \in Nat /\ Width > CAN_RX_NUM
  BY CanAssumption
<1>2. CanTypeOK
  <2>1. rx_frame \in [Slots -> Frames] /\ reader \in {"read", "reset", "dead"}
    BY DEF CanInit, Frames
  <2>2. rx_num_count \in Slots /\ owed \in Slots /\ rd_num_count \in 0 .. Width - 1
    BY <1>1 DEF CanInit, Slots
  <2>3. spoilt \in BOOLEAN
    BY DEF CanInit
  <2> QED BY <2>1, <2>2, <2>3 DEF CanTypeOK
<1>3. Among(0, 0, rx_frame) = {}
  BY DEF Among
<1>4. Cardinality({}) = 0
  BY FS_EmptySet
<1> QED BY <1>2, <1>3, <1>4 DEF CanInit, CanInv

(* Every step of the composition keeps it.                                 *)
LEMMA LinkKeepsCanInv == CanInv /\ [LinkNext]_linkVars => CanInv'
<1> SUFFICES ASSUME CanInv, [LinkNext]_linkVars PROVE CanInv'
  OBVIOUS
<1>0. CAN_RX_NUM \in Nat /\ CAN_RX_NUM >= 2 /\ Width \in Nat /\ Width > CAN_RX_NUM
  BY CanAssumption
<1>1. CASE Interrupt
  BY <1>1, ReceiveKeeps DEF Interrupt
<1>2. CASE \E fr \in Frames : Heard(fr)
  BY <1>2, ReadKeeps DEF Heard
<1>3. CASE CaughtUp
  <2>1. CanTypeOK'
    BY <1>0, <1>3 DEF CaughtUp, CanInv, CanTypeOK
  <2>2. ~spoilt' => owed' = 0
    <3> SUFFICES ASSUME ~spoilt PROVE owed = 0
      BY <1>3 DEF CaughtUp
    <3>1. owed = Cardinality(Among(rd_num_count, rx_num_count, rx_frame))
      BY <1>3 DEF CaughtUp, CanInv
    <3>2. rd_num_count = rx_num_count /\ rx_num_count \in Int
      BY <1>0, <1>3 DEF CaughtUp, CanInv, CanTypeOK, Slots
    <3>3. Among(rd_num_count, rx_num_count, rx_frame) = {}
      BY <3>2 DEF Among
    <3> QED BY <3>1, <3>3, FS_EmptySet
  <2>3. rd_num_count' = 0 /\ rx_num_count' \in Slots /\ reader' = "reset"
    BY <1>3 DEF CaughtUp, CanInv, CanTypeOK
  <2>4. rd_num_count' <= rx_num_count'
    BY <1>0, <2>3 DEF Slots
  <2> QED BY <2>1, <2>2, <2>3, <2>4 DEF CanInv
<1>4. CASE SetBack
  <2>1. /\ rx_num_count' = 0 /\ reader' = "read" /\ spoilt' = FALSE /\ owed' = 0
        /\ rx_frame' = rx_frame /\ rd_num_count' = rd_num_count
    BY <1>4 DEF SetBack, Remember
  <2>2. CanTypeOK'
    <3>1. rx_frame' \in [Slots -> Frames] /\ reader' \in {"read", "reset", "dead"}
      BY <2>1 DEF CanInv, CanTypeOK
    <3>2. rx_num_count' \in Slots /\ owed' \in Slots /\ rd_num_count' \in 0 .. Width - 1
      BY <1>0, <2>1 DEF CanInv, CanTypeOK, Slots
    <3>3. spoilt' \in BOOLEAN
      BY <2>1
    <3> QED BY <3>1, <3>2, <3>3 DEF CanTypeOK
  <2>3. rd_num_count' = 0
    BY <1>4, <2>1 DEF SetBack, CanInv
  <2>4. Among(rd_num_count', rx_num_count', rx_frame') = {}
    BY <2>1, <2>3 DEF Among
  <2>5. Cardinality({}) = 0
    BY FS_EmptySet
  <2> QED BY <2>1, <2>2, <2>3, <2>4, <2>5 DEF CanInv
<1>5. CASE Terminated
  <2>1. /\ rx_num_count' = rx_num_count /\ reader' = "dead" /\ reader # "dead"
        /\ rx_frame' = rx_frame /\ rd_num_count' = rd_num_count
        /\ spoilt' = (spoilt \/ reader = "reset")
        /\ owed' = IF spoilt \/ reader = "reset" THEN 0 ELSE owed
    BY <1>5 DEF Terminated, Remember
  <2>2. spoilt' \in BOOLEAN
    BY <2>1, Zenon DEF CanInv, CanTypeOK
  <2>3. CanTypeOK'
    BY <1>0, <2>1, <2>2 DEF CanInv, CanTypeOK, Slots
  <2> QED BY <2>1, <2>3 DEF CanInv
<1>6. CASE Created
  BY <1>6 DEF Created, CanInv, CanTypeOK
<1>7. CASE UNCHANGED canVars
  BY <1>7 DEF canVars, CanInv, CanTypeOK
<1> QED BY <1>1, <1>2, <1>3, <1>4, <1>5, <1>6, <1>7
        DEF LinkNext, Reading, Update, Supervision, linkVars

(* The types of the composition.                                           *)
THEOREM LinkTypeCorrect == LinkSpec => []LinkTypeOK
<1>1. LinkInit => CanInv
  BY CanInitInv DEF LinkInit
<1>2. CanInv => CanTypeOK
  BY DEF CanInv
<1>3. CommTypeOK /\ CanTypeOK => LinkTypeOK
  BY DEF LinkTypeOK
<1> QED BY <1>1, <1>2, <1>3, LinkKeepsCanInv, LinkImplementsSupervision,
           CommTypeCorrect, PTL DEF LinkSpec

(* Every frame of the EMU is counted once, unless 20 come in one pass or   *)
(* one falls into the moment of the reset.                                 *)
THEOREM HeartbeatsCounted == LinkSpec => []FramesCounted
<1>1. LinkInit => CanInv
  BY CanInitInv DEF LinkInit
<1>2. CanInv => FramesCounted
  BY DEF CanInv, FramesCounted, Among
<1> QED BY <1>1, <1>2, LinkKeepsCanInv, PTL DEF LinkSpec
=============================================================================
