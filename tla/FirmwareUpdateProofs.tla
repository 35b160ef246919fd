----------------------- MODULE FirmwareUpdateProofs -----------------------
(***************************************************************************)
(* The theorems about FirmwareUpdate, for any number of connections and    *)
(* threads and for images of any length: its types, that there is one      *)
(* update at a time, that the tasks run at most once, that a complete file *)
(* keeps its pages, and that the verdict of a check is exact.              *)
(***************************************************************************)
EXTENDS FirmwareUpdate, NandFileProofs, SequenceTheorems, TLAPS

(***************************************************************************)
(* Types.  A slot that is updating has an announced image, a thread that   *)
(* is to write a block finds one in the buffer, and there is an instance   *)
(* of the tasks for the tid_ variables to name.                            *)
(***************************************************************************)
FreeSlots == \A w \in Workers : worker[w].job = "free" => worker[w] = Free
Started == \A s \in Conns : Updating(s) => image[s] \in Images /\ md5 \in Images
Buffered == \A w \in Workers : worker[w].job = "write" => buf \in Blocks

Breaches == {"foreign", "late", "stray", "early", "cut", "moved"}

\* A file begins with a block, and leaves room for a region.
Placed == f.fstartaddr % BlockSize = 0 /\ f.fsize + RegionSize <= AreaSize

TypeInv ==
    /\ TypeOK /\ FreeSlots /\ Started /\ Buffered /\ Placed
    /\ latest => tasks >= 1

\* None is nothing else.
LEMMA NoneApart == /\ None \notin Conns /\ None \notin Workers
                   /\ None \notin Images /\ None \notin Blocks
BY FirmwareAssumption DEF Conns, Workers

\* The types hold at first.
LEMMA InitTypeInv == Init => TypeInv
<1>1. SUFFICES ASSUME Init PROVE TypeInv
  OBVIOUS
<1>. USE FirmwareAssumption, NandFileAssumption
<1>2. f \in FileStructs
  BY <1>1 DEF Init, FileStructs, Pages
<1>3. area \in [Pages -> Contents]
  BY <1>1 DEF Init, Contents, FileData
<1>4. /\ ctrl \in [Conns -> Controls]
      /\ worker \in [Workers -> [job : Jobs, slot : Conns \cup {None}]]
      /\ got \in [Workers -> Seq(Contents)]
  BY <1>1 DEF Init, Cleared, Controls, States, Free, Jobs
<1>5. TypeOK
  <2>1. /\ conns \subseteq Conns /\ sent \in [Conns -> 0 .. AreaSize]
        /\ image \in [Conns -> Images \cup {None}] /\ orderly \in [Conns -> BOOLEAN]
        /\ broken \subseteq Breaches
    BY <1>1 DEF Init, Breaches
  <2>2. /\ flag \in BOOLEAN /\ md5 \in Images \cup {None} /\ buf \in Blocks \cup {None}
        /\ checker \in Workers \cup {None} /\ approved \in Images \cup {None}
        /\ tasks \in Nat /\ latest \in BOOLEAN /\ idled \in BOOLEAN
    BY <1>1 DEF Init
  <2>3. QED
    BY <1>2, <1>3, <1>4, <2>1, <2>2 DEF TypeOK, Breaches
<1>6. FreeSlots /\ Buffered
  BY <1>1 DEF Init, FreeSlots, Buffered, Free
<1>7. Started
  BY <1>1 DEF Init, Started, Updating
<1>8. Placed
  <2>1. 0 % BlockSize = 0
    OBVIOUS
  <2>2. QED
    BY <1>1, <2>1 DEF Init, Placed
<1>9. QED
  BY <1>1, <1>5, <1>6, <1>7, <1>8 DEF Init, TypeInv

\* The next file begins with a block too.
LEMMA NewStartAligned ==
    ASSUME f \in FileStructs, Placed
    PROVE  NewStart(f) % BlockSize = 0
<1>. DEFINE s == f.fstartaddr
<1>1. s \in Nat /\ s < AreaSize /\ s % BlockSize = 0
  BY NandFileAssumption DEF FileStructs, Pages, Placed
<1>2. s + RegionSize \in Nat /\ (s + RegionSize) % BlockSize = 0
  BY <1>1, NandFileAssumption, FirmwareAssumption, AlignedSum
<1>. DEFINE t == s + RegionSize
<1>3. NewStart(f) = IF t >= AreaSize THEN t - AreaSize ELSE t
  BY DEF NewStart, Wrap
<1>. HIDE DEF t
<1>4. CASE t >= AreaSize
  <2>1. AreaSize \in Nat /\ AreaSize % BlockSize = 0 /\ AreaSize <= t
    BY <1>2, <1>4, NandFileAssumption DEF t
  <2>2. (t - AreaSize) % BlockSize = 0
    BY <1>2, <2>1, AlignedDifference DEF t
  <2>3. QED
    BY <1>3, <1>4, <2>2
<1>5. CASE ~(t >= AreaSize)
  BY <1>2, <1>3, <1>5 DEF t
<1>6. QED
  BY <1>4, <1>5

\* One more page written, or read.
LEMMA WriteKeepsTypes ==
    ASSUME TypeInv, NEW w \in Workers, WriteBlock(w)
    PROVE  f' \in FileStructs /\ area' \in [Pages -> Contents] /\ Placed'
<1>. DEFINE begun == IF f.fwritennum = 0
                     THEN [f EXCEPT !.flastsize = f.fsize, !.fsize = Length[md5]] ELSE f
<1>1. /\ f \in FileStructs /\ area \in [Pages -> Contents] /\ Placed
      /\ md5 \in Images /\ buf \in Data
  BY FirmwareAssumption DEF TypeInv, TypeOK, Buffered, WriteBlock, FileData
<1>2. /\ area' = Programmed(area, WriteAddress(begun), buf)
      /\ f' = Written(begun)
  BY DEF WriteBlock
<1>3. Length[md5] \in 1 .. AreaSize /\ Length[md5] + RegionSize <= AreaSize
  BY <1>1, FirmwareAssumption, NandFileAssumption
<1>4. begun \in FileStructs
  BY <1>1, <1>3 DEF FileStructs
<1>5. /\ begun.fsize + RegionSize <= AreaSize
      /\ NewStart(begun) = NewStart(f) /\ begun.fstartaddr = f.fstartaddr
  BY <1>1, <1>3 DEF Placed, FileStructs, NewStart
<1>. HIDE DEF begun
<1>6. f' \in FileStructs /\ area' \in [Pages -> Contents]
  BY <1>1, <1>2, <1>4, WrittenType, Addresses, ProgrammedPages
<1>7. f'.fsize = begun.fsize /\ f'.fstartaddr \in {f.fstartaddr, NewStart(f)}
  BY <1>2, <1>4, <1>5 DEF Written, Replaced, FileStructs
<1>8. Placed'
  BY <1>1, <1>5, <1>7, NewStartAligned DEF Placed
<1>9. QED
  BY <1>6, <1>8

\* Reading one more page for the check.
LEMMA ReadKeepsTypes ==
    ASSUME TypeInv, NEW w \in Workers, ReadPage(w)
    PROVE  /\ f' \in FileStructs /\ Placed' /\ got' \in [Workers -> Seq(Contents)]
           /\ f'.fstartaddr = f.fstartaddr /\ f'.fsize = f.fsize
           /\ f'.fwritennum = f.fwritennum /\ f'.flastsize = f.flastsize
<1>. DEFINE from == IF got[w] = << >> THEN [f EXCEPT !.freadnum = 0] ELSE f
<1>1. /\ f \in FileStructs /\ area \in [Pages -> Contents] /\ Placed
      /\ got \in [Workers -> Seq(Contents)]
  BY DEF TypeInv, TypeOK
<1>2. got' = [got EXCEPT ![w] = Append(@, area[ReadAddress(from)])] /\ f' = PageRead(from)
  BY DEF ReadPage
<1>3. from \in FileStructs
  <2>1. 0 \in 0 .. AreaSize - 1
    BY NandFileAssumption
  <2>2. [f EXCEPT !.freadnum = 0] \in FileStructs
    BY <1>1, <2>1 DEF FileStructs
  <2>3. QED
    BY <1>1, <2>2
<1>4. /\ from.fstartaddr = f.fstartaddr /\ from.fsize = f.fsize
      /\ from.fwritennum = f.fwritennum /\ from.flastsize = f.flastsize
  BY <1>1 DEF FileStructs
<1>. HIDE DEF from
<1>5. f' \in FileStructs /\ area[ReadAddress(from)] \in Contents
  BY <1>1, <1>2, <1>3, PageReadType, Addresses
<1>6. got' \in [Workers -> Seq(Contents)]
  BY <1>1, <1>2, <1>5
<1>7. /\ f'.fstartaddr = f.fstartaddr /\ f'.fsize = f.fsize
      /\ f'.fwritennum = f.fwritennum /\ f'.flastsize = f.flastsize
  BY <1>2, <1>3, <1>4 DEF PageRead, FileStructs
<1>8. QED
  BY <1>1, <1>5, <1>6, <1>7 DEF Placed

\* What Forget and Finish leave is typed.
LEMMA ForgetTypes ==
    ASSUME TypeInv, NEW s \in Conns, Forget(s)
    PROVE  /\ image' \in [Conns -> Images \cup {None}]
           /\ sent' \in [Conns -> 0 .. AreaSize]
           /\ orderly' \in [Conns -> BOOLEAN]
           /\ \A t \in Conns \ {s} : image'[t] = image[t]
<1>1. 0 \in 0 .. AreaSize
  BY NandFileAssumption
<1>2. QED
  BY <1>1 DEF Forget, TypeInv, TypeOK

\* The end of an update.
LEMMA FinishTypes ==
    ASSUME TypeInv, NEW s \in Conns, Finish(s)
    PROVE  /\ ctrl' \in [Conns -> Controls] /\ flag' \in BOOLEAN
           /\ broken' \subseteq Breaches
           /\ image' \in [Conns -> Images \cup {None}]
           /\ sent' \in [Conns -> 0 .. AreaSize]
           /\ orderly' \in [Conns -> BOOLEAN]
           /\ ~ctrl'[s].valid
           /\ \A t \in Conns \ {s} : ctrl'[t] = ctrl[t] /\ image'[t] = image[t]
<1>1. Cleared \in Controls /\ ~Cleared.valid
  BY DEF Cleared, Controls, States
<1>2. broken' \subseteq Breaches
  BY DEF Finish, Leftovers, TypeInv, TypeOK, Breaches
<1>3. /\ ctrl' \in [Conns -> Controls] /\ ~ctrl'[s].valid
      /\ \A t \in Conns \ {s} : ctrl'[t] = ctrl[t]
  BY <1>1 DEF Finish, TypeInv, TypeOK
<1>4. QED
  BY <1>2, <1>3, ForgetTypes DEF Finish

\* The creation of a thread.
LEMMA CreateTypes ==
    ASSUME TypeInv, NEW s \in Conns, NEW j \in Jobs \ {"free"},
           NEW w \in Workers \cup {None}, Create(w, s, j)
    PROVE  /\ worker' \in [Workers -> [job : Jobs, slot : Conns \cup {None}]]
           /\ FreeSlots' /\ got' = got
           /\ \A v \in Workers : worker'[v] = IF v = w THEN [job |-> j, slot |-> s]
                                              ELSE worker[v]
BY DEF Create, TypeInv, TypeOK, FreeSlots, Free

\* A thread is created where there is none.
LEMMA CreatesFree ==
    ASSUME NEW s \in Conns, NEW j \in Jobs, NEW w \in Workers \cup {None}, w # None,
           Create(w, s, j)
    PROVE  w \in Workers /\ worker[w].job = "free"
<1>1. w \in Workers /\ w \in 1 .. w
  BY FirmwareAssumption DEF Workers
<1>2. QED
  BY <1>1 DEF Create

\* The termination of the tasks.
LEMMA TerminateTypes ==
    ASSUME TypeInv, TerminateTasks
    PROVE  tasks' \in Nat /\ latest' \in BOOLEAN /\ (latest' => tasks' >= 1)
<1>1. tasks \in Nat /\ (latest => tasks >= 1)
  BY DEF TypeInv, TypeOK
<1>2. CASE latest
  <2>1. tasks' = tasks - 1 /\ latest' = FALSE
    BY <1>2, Zenon DEF TerminateTasks
  <2>2. tasks \in Nat /\ tasks >= 1
    BY <1>1, <1>2, Zenon
  <2>3. tasks' \in Nat
    BY <2>1, <2>2
  <2>4. QED
    BY <2>1, <2>3, Zenon
<1>3. CASE ~latest
  <2>1. tasks' = tasks /\ latest' = FALSE
    BY <1>3, Zenon DEF TerminateTasks
  <2>2. QED
    BY <1>1, <2>1
<1>4. QED
  BY <1>2, <1>3

\* A new state of a slot, or of none.
LEMMA StateTypes ==
    ASSUME TypeInv, NEW s \in Conns \cup {None}, NEW state \in States, SetState(s, state)
    PROVE  /\ ctrl' \in [Conns -> Controls]
           /\ \A t \in Conns : ctrl'[t].valid = ctrl[t].valid /\ ctrl'[t].timer = ctrl[t].timer
           /\ \A t \in Conns \ {s} : ctrl'[t] = ctrl[t]
           /\ s \in Conns => ctrl'[s].state = state
<1>1. ctrl \in [Conns -> Controls]
  BY DEF TypeInv, TypeOK
<1>2. CASE s \in Conns
  <2>. DEFINE c == [ctrl[s] EXCEPT !.state = state]
  <2>1. c \in Controls /\ c.valid = ctrl[s].valid /\ c.timer = ctrl[s].timer /\ c.state = state
    BY <1>1, <1>2 DEF Controls
  <2>2. ctrl' = [ctrl EXCEPT ![s] = c]
    BY DEF SetState
  <2>. HIDE DEF c
  <2>3. QED
    BY <1>1, <1>2, <2>1, <2>2
<1>3. CASE s \notin Conns
  BY <1>1, <1>3 DEF SetState
<1>4. QED
  BY <1>2, <1>3

\* A thread goes on to another job.
LEMMA JobTypes ==
    ASSUME TypeInv, NEW w \in Workers, NEW j \in Jobs \ {"free"}, Job(w, j)
    PROVE  /\ worker' \in [Workers -> [job : Jobs, slot : Conns \cup {None}]]
           /\ FreeSlots'
           /\ worker'[w].job = j /\ worker'[w].slot = worker[w].slot
           /\ \A v \in Workers \ {w} : worker'[v] = worker[v]
<1>1. worker \in [Workers -> [job : Jobs, slot : Conns \cup {None}]] /\ FreeSlots
  BY DEF TypeInv, TypeOK
<1>. DEFINE x == [worker[w] EXCEPT !.job = j]
<1>2. x \in [job : Jobs, slot : Conns \cup {None}] /\ x.job = j /\ x.slot = worker[w].slot
  BY <1>1
<1>3. worker' = [worker EXCEPT ![w] = x]
  BY DEF Job
<1>. HIDE DEF x
<1>4. /\ worker' \in [Workers -> [job : Jobs, slot : Conns \cup {None}]]
      /\ worker'[w] = x /\ \A v \in Workers \ {w} : worker'[v] = worker[v]
  BY <1>1, <1>2, <1>3
<1>5. QED
  BY <1>1, <1>2, <1>4 DEF FreeSlots

\* Every step keeps the types.
LEMMA NextTypeInv == TypeInv /\ [Next]_vars => TypeInv'
<1>1. SUFFICES ASSUME TypeInv, [Next]_vars PROVE TypeInv'
  OBVIOUS
<1>. USE DEF TypeInv, Breaches, ctrlVars, workVars, fileVars, taskVars, historyVars
<1>2. ASSUME NEW s \in Conns, Connect(s) PROVE TypeInv'
  <2>1. Cleared \in Controls /\ ~Cleared.valid
    BY DEF Cleared, Controls, States
  <2>2. TypeOK'
    BY <1>1, <1>2, <2>1 DEF TypeOK, Connect
  <2>3. FreeSlots' /\ Buffered' /\ Placed' /\ (latest => tasks >= 1)'
    BY <1>1, <1>2 DEF FreeSlots, Buffered, Placed, Connect
  <2>4. Started'
    BY <1>1, <1>2, <2>1 DEF Started, Updating, Connect, TypeOK
  <2>5. QED
    BY <2>2, <2>3, <2>4
<1>3. ASSUME NEW s \in Conns, Close(s) PROVE TypeInv'
  <2>1. broken' \subseteq Breaches
    BY <1>1, <1>3 DEF Close, Leftovers, TypeOK
  <2>2. TypeOK'
    BY <1>1, <1>3, <2>1, ForgetTypes DEF TypeOK, Close, Abandons
  <2>3. FreeSlots' /\ Buffered' /\ Placed' /\ (latest => tasks >= 1)'
    BY <1>1, <1>3 DEF FreeSlots, Buffered, Placed, Close
  <2>4. Started'
    BY <1>1, <1>3 DEF Started, Updating, Close, Forget, TypeOK
  <2>5. QED
    BY <2>2, <2>3, <2>4
<1>4. ASSUME NEW s \in Conns, NEW i \in Images, Begin(s, i) PROVE TypeInv'
  <2>1. Announced \in Controls
    BY DEF Announced, Controls, States
  <2>2. tasks' \in Nat /\ latest' \in BOOLEAN /\ (latest' => tasks' >= 1)
    BY <1>1, <1>4, TerminateTypes DEF Begin
  <2>3. TypeOK'
    <3>1. ctrl' \in [Conns -> Controls] /\ md5' \in Images
      BY <1>1, <1>4, <2>1 DEF TypeOK, Begin
    <3>2. image' \in [Conns -> Images \cup {None}] /\ orderly' \in [Conns -> BOOLEAN]
      BY <1>1, <1>4 DEF TypeOK, Begin
    <3>3. sent' \in [Conns -> 0 .. AreaSize]
      BY <1>1, <1>4, NandFileAssumption DEF TypeOK, Begin
    <3>4. broken' \subseteq Breaches
      BY <1>1, <1>4 DEF TypeOK, Begin
    <3>5. QED
      BY <1>1, <1>4, <2>2, <3>1, <3>2, <3>3, <3>4 DEF TypeOK, Begin
  <2>4. FreeSlots' /\ Buffered' /\ Placed'
    BY <1>1, <1>4 DEF FreeSlots, Buffered, Placed, Begin
  <2>5. Started'
    BY <1>1, <1>4 DEF Started, Updating, Begin, TypeOK
  <2>6. QED
    BY <2>2, <2>3, <2>4, <2>5
<1>5. ASSUME NEW s \in Conns, Refuse(s) PROVE TypeInv'
  <2>1. tasks' \in Nat /\ latest' \in BOOLEAN /\ (latest' => tasks' >= 1)
    BY <1>1, <1>5, TerminateTypes DEF Refuse
  <2>2. QED
    BY <1>1, <1>5, <2>1 DEF TypeOK, Refuse, FreeSlots, Buffered, Placed, Started, Updating
<1>6. ASSUME NEW s \in Conns, NEW k \in Int, NEW w \in Workers \cup {None},
             TakeBlock(s, k, w) PROVE TypeInv'
  <2>1. buf' \in Blocks /\ k \in 1 .. AreaSize
    <3>1. image[s] \in Images /\ md5 \in Images /\ k \in 1 .. Length[md5]
      BY <1>1, <1>6 DEF TakeBlock, Started
    <3>2. Length[md5] \in 1 .. AreaSize
      BY <3>1, FirmwareAssumption, NandFileAssumption
    <3>3. QED
      BY <1>6, <3>1, <3>2, NandFileAssumption DEF TakeBlock, Blocks
  <2>2. /\ worker' \in [Workers -> [job : Jobs, slot : Conns \cup {None}]]
        /\ FreeSlots' /\ got' = got
    BY <1>1, <1>6, CreateTypes DEF TakeBlock, Jobs
  <2>3. Buffered' /\ Placed' /\ (latest => tasks >= 1)'
    BY <1>1, <1>6, <2>1 DEF TakeBlock, Buffered, Placed
  <2>4. CASE w = None
    <3>1. Finish(s) /\ Abandons(s)
      BY <1>6, <2>4 DEF TakeBlock
    <3>2. TypeOK'
      BY <1>1, <1>6, <2>1, <2>2, <3>1, FinishTypes DEF TypeOK, TakeBlock, Abandons
    <3>3. Started'
      BY <1>1, <1>6, <3>1, FinishTypes DEF TakeBlock, Started, Updating
    <3>4. QED
      BY <2>2, <2>3, <3>2, <3>3
  <2>5. CASE w # None
    <3>1. /\ ctrl' = [ctrl EXCEPT ![s].state = "UPDATE_PROGRAM_DOING", ![s].timer = "running"]
          /\ sent' = [sent EXCEPT ![s] = IF orderly'[s] THEN k ELSE 0]
          /\ orderly' = [orderly EXCEPT ![s] = @ /\ k = sent[s] + 1]
          /\ UNCHANGED <<flag, idled, broken, image>>
      BY <1>6, <2>5 DEF TakeBlock
    <3>2. ctrl' \in [Conns -> Controls] /\ \A t \in Conns : ctrl'[t].valid = ctrl[t].valid
      <4>. DEFINE c == [ctrl[s] EXCEPT !.state = "UPDATE_PROGRAM_DOING", !.timer = "running"]
      <4>1. ctrl[s] \in Controls
        BY <1>1 DEF TypeOK
      <4>2. c \in Controls /\ c.valid = ctrl[s].valid
        BY ONLY <4>1 DEF Controls, States
      <4>3. ctrl' = [ctrl EXCEPT ![s] = c]
        BY <1>1, <3>1 DEF TypeOK
      <4>. HIDE DEF c
      <4>4. QED
        BY <1>1, <4>2, <4>3 DEF TypeOK
    <3>3. sent' \in [Conns -> 0 .. AreaSize]
      BY <1>1, <2>1, <3>1, NandFileAssumption DEF TypeOK
    <3>4. orderly' \in [Conns -> BOOLEAN]
      BY <1>1, <3>1 DEF TypeOK
    <3>5. TypeOK'
      BY <1>1, <1>6, <2>1, <2>2, <3>1, <3>2, <3>3, <3>4 DEF TypeOK, TakeBlock
    <3>6. Started'
      BY <1>1, <1>6, <3>1, <3>2 DEF TakeBlock, Started, Updating
    <3>7. QED
      BY <2>2, <2>3, <3>5, <3>6
  <2>6. QED
    BY <2>4, <2>5
<1>7. ASSUME NEW s \in Conns, BlockOutside(s) \/ TimeOut(s) \/ AnswerCheck(s) PROVE TypeInv'
  <2>1. Finish(s) /\ idled' \in BOOLEAN /\ UNCHANGED <<conns, md5, buf, workVars, fileVars, taskVars>>
    BY <1>1, <1>7 DEF BlockOutside, TimeOut, AnswerCheck, Abandons, TypeOK
  <2>2. TypeOK'
    BY <1>1, <2>1, FinishTypes DEF TypeOK
  <2>3. Started'
    BY <1>1, <2>1, FinishTypes DEF Started, Updating
  <2>4. QED
    BY <1>1, <2>1, <2>2, <2>3 DEF FreeSlots, Buffered, Placed
<1>8. ASSUME NEW s \in Conns, NEW w \in Workers \cup {None}, TakeCheck(s, w) PROVE TypeInv'
  <2>1. /\ worker' \in [Workers -> [job : Jobs, slot : Conns \cup {None}]]
        /\ FreeSlots' /\ got' = got
        /\ \A v \in Workers : worker'[v] = IF v = w THEN [job |-> "read", slot |-> s]
                                           ELSE worker[v]
    BY <1>1, <1>8, CreateTypes DEF TakeCheck, Jobs
  <2>2. Buffered' /\ Placed' /\ (latest => tasks >= 1)'
    BY <1>1, <1>8, <2>1 DEF TakeCheck, Buffered, Placed
  <2>3. CASE w = None
    <3>1. Finish(s) /\ Abandons(s)
      BY <1>8, <2>3 DEF TakeCheck
    <3>2. TypeOK'
      BY <1>1, <1>8, <2>1, <3>1, FinishTypes DEF TypeOK, TakeCheck, Abandons
    <3>3. Started'
      BY <1>1, <1>8, <3>1, FinishTypes DEF TakeCheck, Started, Updating
    <3>4. QED
      BY <2>1, <2>2, <3>2, <3>3
  <2>4. CASE w # None
    <3>1. /\ ctrl' = [ctrl EXCEPT ![s].state = "UPDATE_CHECK_DOING", ![s].timer = "off"]
          /\ broken' \subseteq broken \cup Breaches
          /\ UNCHANGED <<flag, idled, image, sent, orderly>>
      BY <1>8, <2>4 DEF TakeCheck, Breaches
    <3>2. ctrl' \in [Conns -> Controls] /\ \A t \in Conns : ctrl'[t].valid = ctrl[t].valid
      <4>. DEFINE c == [ctrl[s] EXCEPT !.state = "UPDATE_CHECK_DOING", !.timer = "off"]
      <4>1. c \in Controls /\ c.valid = ctrl[s].valid
        BY <1>1 DEF TypeOK, Controls, States
      <4>2. ctrl' = [ctrl EXCEPT ![s] = c]
        BY <1>1, <3>1 DEF TypeOK
      <4>. HIDE DEF c
      <4>3. QED
        BY <1>1, <4>1, <4>2 DEF TypeOK
    <3>3. TypeOK'
      BY <1>1, <1>8, <2>1, <3>1, <3>2 DEF TypeOK, TakeCheck
    <3>4. Started'
      BY <1>1, <1>8, <3>1, <3>2 DEF TakeCheck, Started, Updating
    <3>5. QED
      BY <2>1, <2>2, <3>3, <3>4
  <2>5. QED
    BY <2>3, <2>4
<1>9. ASSUME NEW w \in Workers, WriteBlock(w) PROVE TypeInv'
  <2>1. f' \in FileStructs /\ area' \in [Pages -> Contents] /\ Placed'
    BY <1>1, <1>9, WriteKeepsTypes
  <2>2. worker' \in [Workers -> [job : Jobs, slot : Conns \cup {None}]]
    BY <1>1, <1>9 DEF WriteBlock, Job, TypeOK, Jobs
  <2>3. FreeSlots' /\ Buffered' /\ Started'
    BY <1>1, <1>9 DEF WriteBlock, Job, FreeSlots, Buffered, Started, Updating, TypeOK
  <2>4. TypeOK'
    BY <1>1, <1>9, <2>1, <2>2 DEF WriteBlock, TypeOK
  <2>5. QED
    BY <1>1, <1>9, <2>1, <2>3, <2>4 DEF WriteBlock
<1>10. ASSUME NEW w \in Workers, NEW state \in States,
              SetState(worker[w].slot, state), Release(w),
              UNCHANGED <<conns, flag, md5, buf, got, checker, fileVars, taskVars, historyVars>>
       PROVE  TypeInv'
  <2>1. ctrl' \in [Conns -> Controls] /\ \A t \in Conns : ctrl'[t].valid = ctrl[t].valid
    BY <1>1, <1>10, StateTypes DEF TypeOK
  <2>2. worker' \in [Workers -> [job : Jobs, slot : Conns \cup {None}]] /\ FreeSlots'
    BY <1>1, <1>10 DEF Release, Free, FreeSlots, TypeOK, Jobs
  <2>3. Buffered' /\ Placed' /\ Started'
    BY <1>1, <1>10, <2>1 DEF Release, Free, Buffered, Placed, Started, Updating, TypeOK
  <2>4. TypeOK'
    BY <1>1, <1>10, <2>1, <2>2 DEF TypeOK
  <2>5. QED
    BY <1>1, <1>10, <2>2, <2>3, <2>4
<1>11. ASSUME NEW w \in Workers, ReportBlock(w) \/ RejectBlock(w) PROVE TypeInv'
  BY <1>10, <1>11 DEF ReportBlock, RejectBlock, States
<1>12. ASSUME NEW w \in Workers, ReadPage(w) PROVE TypeInv'
  <2>1. f' \in FileStructs /\ Placed' /\ got' \in [Workers -> Seq(Contents)]
    BY <1>1, <1>12, ReadKeepsTypes
  <2>2. broken' \subseteq Breaches
    BY <1>1, <1>12 DEF ReadPage, TypeOK
  <2>3. TypeOK'
    BY <1>1, <1>12, <2>1, <2>2 DEF ReadPage, TypeOK
  <2>4. QED
    BY <1>1, <1>12, <2>1, <2>3 DEF ReadPage, FreeSlots, Buffered, Started, Updating
<1>13. ASSUME NEW w \in Workers, Verdict(w) PROVE TypeInv'
  <2>1. /\ worker' \in [Workers -> [job : Jobs, slot : Conns \cup {None}]]
        /\ FreeSlots' /\ Buffered' /\ Started'
    <3>1. PICK j \in {"passed", "unsaved", "failed"} : worker' = [worker EXCEPT ![w].job = j]
      BY <1>13 DEF Verdict, Job
    <3>2. /\ worker' \in [Workers -> [job : Jobs, slot : Conns \cup {None}]]
          /\ worker'[w].job = j /\ \A v \in Workers \ {w} : worker'[v] = worker[v]
      BY <1>1, <3>1 DEF TypeOK, Jobs
    <3>3. QED
      BY <1>1, <1>13, <3>2 DEF Verdict, FreeSlots, Buffered, Started, Updating
  <2>2. got' \in [Workers -> Seq(Contents)] /\ approved' \in Images \cup {None}
    BY <1>1, <1>13 DEF Verdict, TypeOK
  <2>3. TypeOK'
    BY <1>1, <1>13, <2>1, <2>2 DEF Verdict, TypeOK
  <2>4. QED
    BY <1>1, <1>13, <2>1, <2>3 DEF Verdict, Placed
<1>14. ASSUME NEW w \in Workers, ReportCheck(w) PROVE TypeInv'
  <2>1. ctrl' \in [Conns -> Controls] /\ \A t \in Conns : ctrl'[t].valid = ctrl[t].valid
    BY <1>1, <1>14, StateTypes DEF ReportCheck, TypeOK, States
  <2>2. /\ worker' \in [Workers -> [job : Jobs, slot : Conns \cup {None}]]
        /\ FreeSlots' /\ Buffered' /\ Placed'
    <3>1. /\ worker' \in [Workers -> [job : Jobs, slot : Conns \cup {None}]] /\ FreeSlots'
          /\ worker'[w].job = "reported" /\ \A v \in Workers \ {w} : worker'[v] = worker[v]
      BY <1>1, <1>14, JobTypes DEF ReportCheck, Jobs
    <3>2. buf' = buf /\ f' = f
      BY <1>14 DEF ReportCheck
    <3>3. QED
      BY <1>1, <3>1, <3>2 DEF Buffered, Placed
  <2>3. TypeOK'
    BY <1>1, <1>14, <2>1, <2>2 DEF ReportCheck, TypeOK
  <2>4. Started'
    BY <1>1, <1>14, <2>1 DEF ReportCheck, Started, Updating
  <2>5. QED
    BY <1>1, <1>14, <2>2, <2>3, <2>4 DEF ReportCheck
<1>15. ASSUME NEW w \in Workers, RecreateTasks(w) PROVE TypeInv'
  <2>1. /\ worker' \in [Workers -> [job : Jobs, slot : Conns \cup {None}]]
        /\ FreeSlots' /\ Buffered' /\ Placed' /\ Started'
    <3>1. /\ worker' \in [Workers -> [job : Jobs, slot : Conns \cup {None}]] /\ FreeSlots'
          /\ worker'[w].job = "created" /\ \A v \in Workers \ {w} : worker'[v] = worker[v]
      BY <1>1, <1>15, JobTypes DEF RecreateTasks, Jobs
    <3>2. UNCHANGED <<buf, f, conns, ctrl, image, md5>>
      BY <1>15 DEF RecreateTasks
    <3>3. QED
      BY <1>1, <3>1, <3>2 DEF Buffered, Placed, Started, Updating
  <2>2. tasks' \in Nat /\ tasks' >= 1 /\ latest' \in BOOLEAN
    BY <1>1, <1>15 DEF RecreateTasks, CreateTasks, TypeOK
  <2>3. TypeOK'
    BY <1>1, <1>15, <2>1, <2>2 DEF RecreateTasks, TypeOK
  <2>4. QED
    BY <2>1, <2>2, <2>3
<1>16. ASSUME NEW w \in Workers, EndCheck(w) PROVE TypeInv'
  <2>1. /\ worker' \in [Workers -> [job : Jobs, slot : Conns \cup {None}]]
        /\ FreeSlots' /\ Buffered' /\ Placed' /\ Started'
    <3>1. \A v \in Workers : worker'[v] \in {Free, worker[v], [worker[v] EXCEPT !.job = "stranded"]}
      BY <1>16 DEF EndCheck
    <3>2. \A v \in Workers : worker[v] \in [job : Jobs, slot : Conns \cup {None}]
      BY <1>1 DEF TypeOK
    <3>3. /\ \A v \in Workers : worker'[v] \in [job : Jobs, slot : Conns \cup {None}]
          /\ FreeSlots' /\ Buffered'
      BY <1>1, <1>16, <3>1, <3>2 DEF EndCheck, Free, Jobs, FreeSlots, Buffered
    <3>4. worker' \in [Workers -> [job : Jobs, slot : Conns \cup {None}]]
      BY <1>16, <3>3 DEF EndCheck
    <3>5. UNCHANGED <<f, conns, ctrl, image, md5>>
      BY <1>16 DEF EndCheck
    <3>6. QED
      BY <1>1, <3>3, <3>4, <3>5 DEF Placed, Started, Updating
  <2>2. got' \in [Workers -> Seq(Contents)]
    BY <1>1, <1>16 DEF EndCheck, TypeOK
  <2>3. TypeOK'
    BY <1>1, <1>16, <2>1, <2>2 DEF EndCheck, TypeOK
  <2>4. QED
    BY <1>1, <1>16, <2>1, <2>3 DEF EndCheck
<1>17. ASSUME NEW s \in Conns, AnswerBlock(s) \/ Expire(s) PROVE TypeInv'
  <2>1. ctrl' \in [Conns -> Controls] /\ \A t \in Conns : ctrl'[t].valid = ctrl[t].valid
    <3>1. CASE AnswerBlock(s)
      BY <1>1, <3>1, StateTypes DEF AnswerBlock, States
    <3>2. CASE Expire(s)
      BY <1>1, <3>2 DEF Expire, TypeOK, Controls
    <3>3. QED
      BY <1>17, <3>1, <3>2
  <2>2. TypeOK'
    BY <1>1, <1>17, <2>1 DEF AnswerBlock, Expire, TypeOK
  <2>3. QED
    BY <1>1, <1>17, <2>1, <2>2 DEF AnswerBlock, Expire, FreeSlots, Buffered, Started,
                                   Updating, Placed
<1>18. CASE UNCHANGED vars
  BY <1>1, <1>18 DEF vars, TypeOK, FreeSlots, Buffered, Started, Updating, Placed
<1>19. QED
  <2>1. \A k \in 1 .. AreaSize : k \in Int
    OBVIOUS
  <2>2. ASSUME NEW s \in Conns, Request(s) \/ Watch(s) \/ Expire(s) PROVE TypeInv'
    BY <1>2, <1>3, <1>4, <1>5, <1>6, <1>7, <1>8, <1>17, <2>1, <2>2 DEF Request, BlockCame, Watch
  <2>3. ASSUME NEW w \in Workers, Work(w) PROVE TypeInv'
    BY <1>9, <1>11, <1>12, <1>13, <1>14, <1>15, <1>16, <2>3 DEF Work
  <2>4. QED
    BY <1>1, <1>18, <2>2, <2>3 DEF Next

\* Every variable of the update stays within its type, whatever clients do, and
\* with files of any length the code accepts.
THEOREM FirmwareTypeCorrect == Spec => []TypeOK
<1>1. TypeInv => TypeOK
  BY DEF TypeInv
<1>2. QED
  BY <1>1, InitTypeInv, NextTypeInv, PTL DEF Spec

(***************************************************************************)
(* One update at a time.  While nothing has broken that rule, the thread   *)
(* at work belongs to the one slot that is updating, whose state shows     *)
(* what it does; whoever ends the update finds no thread at work, but may  *)
(* find one that has reported and has not come to its end.                 *)
(***************************************************************************)
Sole == \A s, t \in Conns : Updating(s) /\ Updating(t) => s = t
Flagged == flag <=> \E s \in Conns : Updating(s)
OneWorker == \A v, w \in Workers : ~Idle(v) /\ ~Idle(w) => v = w
Doing(job) == IF job \in {"write", "written"} THEN "UPDATE_PROGRAM_DOING"
                                              ELSE "UPDATE_CHECK_DOING"
Assigned == \A w \in Workers : ~Idle(w) =>
                /\ Updating(worker[w].slot)
                /\ ctrl[worker[w].slot].state = Doing(worker[w].job)

\* One thread at most is between the beginning of a check and its end, and
\* tid_firmware_check names it, or nothing when a thread could not be created;
\* a slot that is not updating has a cleared control block.
CheckJobs == {"read", "passed", "unsaved", "failed", "reported", "created"}
Reader ==
    /\ \A v, w \in Workers :
          worker[v].job \in CheckJobs /\ worker[w].job \in CheckJobs => v = w
    /\ \A w \in Workers :
          /\ worker[w].job \in {"read", "passed", "unsaved", "failed"} => checker = w
          /\ worker[w].job \in {"reported", "created"} => checker \in {w, None}
          /\ worker[w].job # "read" => got[w] = << >>
Resting == \A s \in conns : ~ctrl[s].valid => ctrl[s] = Cleared
Named == \A s \in Conns : Updating(s) => md5 = image[s]

One == Sole /\ Flagged /\ OneWorker /\ Assigned /\ Reader /\ Resting /\ Named
OneInv == Ordered => One

Quiet == \A w \in Workers : Idle(w)

\* What has happened stays on record.
LEMMA BrokenGrows == [Next]_vars => broken \subseteq broken'
BY DEF Next, Request, Work, Watch, Connect, Close, Begin, Refuse, TakeBlock, TakeCheck,
       BlockOutside, BlockCame, WriteBlock, ReportBlock, RejectBlock, ReadPage, Verdict,
       ReportCheck, RecreateTasks, EndCheck,
       TimeOut, AnswerBlock, AnswerCheck, Expire, Finish, vars, historyVars

\* A slot that is updating and idle has no thread, and without a slot that is
\* updating there is none.
LEMMA IdleQuiet ==
    ASSUME TypeInv, One, NEW s \in Conns, Updating(s), ctrl[s].state = "UPDATE_IDLE"
    PROVE  Quiet
<1>1. SUFFICES ASSUME NEW w \in Workers, ~Idle(w) PROVE FALSE
  BY DEF Quiet
<1>2. Updating(worker[w].slot) /\ ctrl[worker[w].slot].state = Doing(worker[w].job)
  BY <1>1 DEF One, Assigned
<1>3. worker[w].slot = s
  BY <1>2 DEF One, Sole, Updating, TypeInv, TypeOK
<1>4. QED
  BY <1>2, <1>3 DEF Doing

\* Without the flag there is no update and no thread.
LEMMA NoUpdateQuiet ==
    ASSUME TypeInv, One, ~flag
    PROVE  Quiet /\ \A s \in Conns : ~Updating(s)
<1>1. \A s \in Conns : ~Updating(s)
  BY DEF One, Flagged
<1>2. \A w \in Workers : ~Idle(w) => worker[w].slot \in Conns
  BY DEF One, Assigned, Updating, TypeInv, TypeOK
<1>3. QED
  BY <1>1, <1>2 DEF Quiet, One, Assigned

\* Who clears the flag in order finds no thread at work.
LEMMA EndQuiet ==
    ASSUME TypeInv, One, Ordered', NEW s \in Conns, broken' = broken \cup Leftovers(s)
    PROVE  Quiet /\ \A t \in Conns \ {s} : ~Updating(t)
<1>1. \A t \in Conns \ {s} : ~Updating(t)
  BY DEF Ordered, Leftovers
<1>2. ~Working(s)
  BY DEF Ordered, Leftovers
<1>3. SUFFICES ASSUME NEW w \in Workers, ~Idle(w) PROVE FALSE
  BY <1>1 DEF Quiet
<1>4. worker[w].slot = s
  BY <1>1, <1>3 DEF One, Assigned, Updating, TypeInv, TypeOK
<1>5. QED
  BY <1>2, <1>3, <1>4 DEF Working, WorksFor

\* The end of an update leaves none behind.
LEMMA EndOne ==
    ASSUME TypeInv, One, Ordered', NEW s \in Conns, broken' = broken \cup Leftovers(s),
           flag' = FALSE, \A v \in Workers : worker'[v] = worker[v], got' = got, Resting',
           checker' \in {checker, None},
           \A t \in Conns : Updating(t)' => Updating(t) /\ t # s
    PROVE  One'
<1>1. Quiet /\ \A t \in Conns : ~Updating(t)'
  BY EndQuiet
<1>2. \A w \in Workers : Idle(w)'
  BY <1>1 DEF Quiet, Idle
<1>3. Reader'
  BY <1>1 DEF One, Reader, Quiet, Idle, CheckJobs
<1>4. QED
  BY <1>1, <1>2, <1>3 DEF One, Sole, Flagged, OneWorker, Assigned, Named

\* The slot that is updating gets a thread; for a check, when the thread of the
\* last one has ended.
LEMMA StartOne ==
    ASSUME TypeInv, One, Quiet, NEW s \in Conns, Updating(s), NEW w \in Workers,
           NEW j \in {"write", "read"}, got' = got, j = "write" => checker' = checker,
           j = "read" => checker' = w /\ ~Lingering({"reported", "created"}),
           \A v \in Workers : worker'[v] = IF v = w THEN [job |-> j, slot |-> s] ELSE worker[v],
           ctrl'[s].valid, ctrl'[s].state = Doing(j),
           \A t \in Conns \ {s} : ctrl'[t] = ctrl[t],
           UNCHANGED <<conns, flag, md5, image>>
    PROVE  One'
<1>1. \A v \in Workers \ {w} : Idle(v)' /\ Idle(v) /\ worker'[v] = worker[v]
  BY DEF Quiet, Idle
<1>2. worker'[w].job = j /\ worker'[w].slot = s
  OBVIOUS
<1>3. \A t \in Conns : Updating(t)' <=> Updating(t)
  BY DEF Updating
<1>4. Sole' /\ Named'
  BY <1>3 DEF One, Sole, Named
<1>5. Flagged'
  BY <1>3 DEF One, Flagged
<1>6. OneWorker'
  BY <1>1 DEF OneWorker
<1>7. Reader'
  <2>1. Idle(w) /\ got'[w] = << >>
    BY DEF Quiet, Idle, One, Reader
  <2>2. \A v \in Workers \ {w} : j = "read" => worker[v].job \notin CheckJobs
    BY <1>1 DEF Idle, Lingering, CheckJobs
  <2>3. QED
    BY <1>1, <1>2, <2>1, <2>2 DEF One, Reader, CheckJobs
<1>8. Assigned'
  BY <1>1, <1>2, <1>3 DEF Assigned
<1>9. Resting'
  BY DEF One, Resting, TypeInv, TypeOK
<1>10. QED
  BY <1>4, <1>5, <1>6, <1>7, <1>8, <1>9 DEF One

\* A step that changes no control block, and no thread at work.
LEMMA SameOne ==
    ASSUME TypeInv, One, UNCHANGED <<conns, ctrl, flag, md5, image>>,
           \A v \in Workers : ~Idle(v)' => worker'[v] = worker[v], Reader'
    PROVE  One'
<1>1. \A t \in Conns \cup {None} : Updating(t)' <=> Updating(t)
  BY DEF Updating
<1>2. Sole' /\ Flagged' /\ Named' /\ Resting'
  BY <1>1 DEF One, Sole, Flagged, Named, Resting
<1>3. \A v \in Workers : ~Idle(v)' => ~Idle(v)
  BY DEF Idle
<1>4. OneWorker'
  BY <1>3 DEF One, OneWorker
<1>5. Assigned'
  BY <1>3 DEF One, Assigned, Updating
<1>6. QED
  BY <1>2, <1>4, <1>5 DEF One

\* The thread at work reports, and is at work no more.
LEMMA LeaveOne ==
    ASSUME TypeInv, One, NEW w \in Workers, ~Idle(w), NEW state \in States,
           SetState(worker[w].slot, state), Idle(w)', Reader',
           \A v \in Workers \ {w} : worker'[v] = worker[v],
           UNCHANGED <<conns, flag, md5, image>>
    PROVE  One'
<1>. DEFINE s == worker[w].slot
<1>1. s \in Conns /\ Updating(s)
  BY DEF One, Assigned, Updating, TypeInv, TypeOK
<1>2. \A v \in Workers : Idle(v)'
  BY DEF One, OneWorker, Idle
<1>3. /\ \A t \in Conns : ctrl'[t].valid = ctrl[t].valid
      /\ \A t \in Conns \ {s} : ctrl'[t] = ctrl[t]
  BY <1>1, StateTypes
<1>4. \A t \in Conns : Updating(t)' <=> Updating(t)
  BY <1>3 DEF Updating
<1>5. Sole' /\ Named'
  BY <1>4 DEF One, Sole, Named
<1>6. Flagged'
  BY <1>4 DEF One, Flagged
<1>7. OneWorker' /\ Assigned'
  BY <1>2 DEF OneWorker, Assigned
<1>8. Resting'
  BY <1>1, <1>3 DEF One, Resting, TypeInv, TypeOK, Updating
<1>9. QED
  BY <1>5, <1>6, <1>7, <1>8 DEF One

\* There is no update at first.
LEMMA InitOne == Init => OneInv
<1>1. SUFFICES ASSUME Init PROVE One
  BY DEF OneInv
<1>2. \A s \in Conns : ~Updating(s)
  BY <1>1 DEF Init, Updating
<1>3. \A w \in Workers : worker[w] = Free /\ got[w] = << >>
  BY <1>1 DEF Init
<1>4. QED
  BY <1>1, <1>2, <1>3 DEF Init, One, Sole, Flagged, OneWorker, Assigned, Reader, Resting,
                           Named, Free, Idle, CheckJobs

\* Every step keeps the update the only one.
LEMMA NextOneInv == TypeInv /\ OneInv /\ [Next]_vars => OneInv'
<1>1. SUFFICES ASSUME TypeInv, OneInv, [Next]_vars, Ordered' PROVE One'
  BY DEF OneInv
<1>2. One
  BY <1>1, BrokenGrows DEF OneInv, Ordered
<1>3. /\ ctrl \in [Conns -> Controls] /\ conns \subseteq Conns
      /\ worker \in [Workers -> [job : Jobs, slot : Conns \cup {None}]]
      /\ image \in [Conns -> Images \cup {None}] /\ got \in [Workers -> Seq(Contents)]
  BY <1>1 DEF TypeInv, TypeOK
<1>. USE DEF ctrlVars, workVars, fileVars, taskVars, historyVars
<1>4. ASSUME NEW s \in Conns, Connect(s) PROVE One'
  <2>1. /\ conns' = conns \cup {s} /\ s \notin conns /\ ctrl'[s] = Cleared
        /\ \A t \in Conns \ {s} : ctrl'[t] = ctrl[t]
        /\ UNCHANGED <<flag, md5, worker, got, checker, image>>
    BY <1>3, <1>4 DEF Connect
  <2>2. \A t \in Conns : Updating(t)' <=> Updating(t)
    BY <2>1 DEF Updating, Cleared
  <2>3. Sole' /\ Named'
    BY <1>2, <2>1, <2>2 DEF One, Sole, Named
  <2>4. Flagged'
    BY <1>2, <2>1, <2>2 DEF One, Flagged
  <2>5. OneWorker' /\ Reader'
    BY <1>2, <2>1 DEF One, OneWorker, Reader, Idle
  <2>6. Assigned' /\ Resting'
    BY <1>2, <1>3, <2>1 DEF One, Assigned, Resting, Updating, Idle
  <2>7. QED
    BY <2>3, <2>4, <2>5, <2>6 DEF One
<1>5. ASSUME NEW s \in Conns, Close(s) PROVE One'
  <2>1. Resting' /\ \A t \in Conns : Updating(t)' => Updating(t) /\ t # s
    BY <1>2, <1>5 DEF Close, One, Resting, Updating
  <2>2. QED
    BY <1>1, <1>2, <1>5, <2>1, EndOne DEF Close
<1>6. ASSUME NEW s \in Conns, Finish(s), conns' = conns, got' = got,
             \A v \in Workers : worker'[v] = worker[v],
             checker' \in {checker, None}
      PROVE  One'
  <2>1. Resting' /\ \A t \in Conns : Updating(t)' => Updating(t) /\ t # s
    BY <1>2, <1>3, <1>6 DEF Finish, One, Resting, Updating, Cleared
  <2>2. QED
    BY <1>1, <1>2, <1>6, <2>1, EndOne DEF Finish
<1>7. ASSUME NEW s \in Conns, NEW i \in Images, Begin(s, i) PROVE One'
  <2>1. Quiet /\ \A t \in Conns : ~Updating(t)
    BY <1>1, <1>2, <1>7, NoUpdateQuiet DEF Begin
  <2>2. \A t \in Conns : Updating(t)' <=> t = s
    BY <1>3, <1>7, <2>1 DEF Begin, Updating, Announced
  <2>3. Sole' /\ Flagged'
    BY <1>7, <2>2 DEF Begin, Sole, Flagged
  <2>4. OneWorker' /\ Assigned' /\ Reader'
    BY <1>2, <1>7, <2>1 DEF Begin, Quiet, Idle, One, OneWorker, Assigned, Reader
  <2>5. Resting' /\ Named'
    BY <1>2, <1>3, <1>7, <2>2 DEF Begin, Announced, One, Resting, Named
  <2>6. QED
    BY <2>3, <2>4, <2>5 DEF One
<1>8. ASSUME NEW s \in Conns, NEW k \in Int, NEW w \in Workers \cup {None}, TakeBlock(s, k, w)
      PROVE  One'
  <2>1. /\ \A v \in Workers : worker'[v] = IF v = w THEN [job |-> "write", slot |-> s]
                                           ELSE worker[v]
        /\ got' = got
    BY <1>1, <1>8, CreateTypes DEF TakeBlock, Jobs
  <2>2. CASE w = None
    BY <1>6, <1>8, <2>1, <2>2, NoneApart DEF TakeBlock
  <2>3. CASE w # None
    <3>1. Quiet
      BY <1>1, <1>2, <1>8, IdleQuiet DEF TakeBlock
    <3>2. ctrl'[s].valid /\ ctrl'[s].state = Doing("write")
          /\ \A t \in Conns \ {s} : ctrl'[t] = ctrl[t]
      <4>1. Updating(s) /\ ctrl' = [ctrl EXCEPT ![s].state = "UPDATE_PROGRAM_DOING",
                                               ![s].timer = "running"]
        BY <1>8, <2>3 DEF TakeBlock
      <4>2. QED
        BY <1>3, <4>1 DEF Updating, Doing, Controls
    <3>3. QED
      BY <1>1, <1>2, <1>8, <2>1, <2>3, <3>1, <3>2, StartOne DEF TakeBlock
  <2>4. QED
    BY <2>2, <2>3
<1>9. ASSUME NEW s \in Conns, NEW w \in Workers \cup {None}, TakeCheck(s, w) PROVE One'
  <2>1. /\ \A v \in Workers : worker'[v] = IF v = w THEN [job |-> "read", slot |-> s]
                                           ELSE worker[v]
        /\ got' = got /\ checker' = w
    BY <1>1, <1>9, CreateTypes DEF TakeCheck, Jobs
  <2>2. CASE w = None
    BY <1>6, <1>9, <2>1, <2>2, NoneApart DEF TakeCheck
  <2>3. CASE w # None
    <3>1. Updating(s)
      BY <1>1, <1>9, <2>3 DEF TakeCheck, Ordered
    <3>2. Quiet
      BY <1>1, <1>2, <1>9, <3>1, IdleQuiet DEF TakeCheck
    <3>3. ctrl'[s].valid /\ ctrl'[s].state = Doing("read")
          /\ \A t \in Conns \ {s} : ctrl'[t] = ctrl[t]
      BY <1>3, <1>9, <2>3, <3>1 DEF TakeCheck, Updating, Doing, Controls
    <3>4. ~Lingering({"reported", "created"})
      BY <1>1, <1>9, <2>3 DEF TakeCheck, Ordered
    <3>5. UNCHANGED <<conns, flag, md5, image>>
      BY <1>9, <2>3 DEF TakeCheck
    <3>6. QED
      BY <1>1, <1>2, <2>1, <2>3, <3>1, <3>2, <3>3, <3>4, <3>5, StartOne
  <2>4. QED
    BY <2>2, <2>3
<1>10. ASSUME NEW w \in Workers, NEW j \in {"written", "passed", "unsaved", "failed"},
              ~Idle(w), Job(w, j), Doing(j) = Doing(worker[w].job),
              j # "written" => worker[w].job = "read", got' = [got EXCEPT ![w] = << >>],
              UNCHANGED <<conns, ctrl, flag, md5, checker, image>>
       PROVE  One'
  <2>1. /\ worker'[w].job = j /\ worker'[w].slot = worker[w].slot /\ ~Idle(w)'
        /\ \A v \in Workers \ {w} :
               /\ worker'[v] = worker[v] /\ got'[v] = got[v] /\ (Idle(v)' <=> Idle(v))
        /\ got'[w] = << >>
    BY <1>1, <1>3, <1>10, JobTypes DEF Idle, Jobs
  <2>2. \A s \in Conns \cup {None} : Updating(s)' <=> Updating(s)
    BY <1>10 DEF Updating
  <2>3. Sole' /\ Flagged' /\ Resting' /\ Named'
    BY <1>2, <1>10, <2>2 DEF One, Sole, Flagged, Resting, Named
  <2>4. OneWorker'
    BY <1>2, <1>10, <2>1 DEF One, OneWorker
  <2>5. Assigned'
    BY <1>2, <1>3, <1>10, <2>1, <2>2 DEF One, Assigned
  <2>6. Reader'
    BY <1>2, <1>10, <2>1 DEF One, Reader, CheckJobs
  <2>7. QED
    BY <2>3, <2>4, <2>5, <2>6 DEF One
<1>11. ASSUME NEW w \in Workers, WriteBlock(w) PROVE One'
  <2>1. got' = [got EXCEPT ![w] = << >>] /\ ~Idle(w)
    BY <1>2, <1>3, <1>11 DEF WriteBlock, One, Reader, Idle
  <2>2. QED
    BY <1>10, <1>11, <2>1 DEF WriteBlock, Doing
<1>12. ASSUME NEW w \in Workers, Verdict(w) PROVE One'
  BY <1>10, <1>12 DEF Verdict, Doing, Idle
<1>13. ASSUME NEW w \in Workers, ReportBlock(w) \/ RejectBlock(w) PROVE One'
  <2>1. ~Idle(w) /\ worker'[w] = Free /\ UNCHANGED <<conns, flag, md5, image, got, checker>>
        /\ \A v \in Workers \ {w} : worker'[v] = worker[v]
    BY <1>3, <1>13 DEF ReportBlock, RejectBlock, Release, Idle
  <2>2. Idle(w)' /\ Reader'
    BY <1>2, <1>13, <2>1 DEF ReportBlock, RejectBlock, Free, Idle, One, Reader, CheckJobs
  <2>3. \E state \in States : SetState(worker[w].slot, state)
    BY <1>13 DEF ReportBlock, RejectBlock, States
  <2>4. QED
    BY <1>1, <1>2, <2>1, <2>2, <2>3, LeaveOne
<1>14. ASSUME NEW w \in Workers, ReportCheck(w) PROVE One'
  <2>1. /\ ~Idle(w) /\ worker'[w].job = "reported"
        /\ UNCHANGED <<conns, flag, md5, image, got, checker>>
        /\ \A v \in Workers \ {w} : worker'[v] = worker[v]
    BY <1>1, <1>14, JobTypes DEF ReportCheck, Jobs, Idle
  <2>2. Idle(w)' /\ Reader'
    BY <1>2, <1>14, <2>1 DEF ReportCheck, Idle, One, Reader, CheckJobs
  <2>3. \E state \in States : SetState(worker[w].slot, state)
    BY <1>14 DEF ReportCheck, States
  <2>4. QED
    BY <1>1, <1>2, <2>1, <2>2, <2>3, LeaveOne
<1>15. ASSUME NEW w \in Workers, RecreateTasks(w) PROVE One'
  <2>1. /\ worker'[w].job = "created" /\ worker[w].job = "reported"
        /\ UNCHANGED <<conns, ctrl, flag, md5, image, got, checker>>
        /\ \A v \in Workers \ {w} : worker'[v] = worker[v]
    BY <1>1, <1>15, JobTypes DEF RecreateTasks, Jobs
  <2>2. Idle(w)' /\ Reader'
    BY <1>2, <2>1 DEF Idle, One, Reader, CheckJobs
  <2>3. QED
    BY <1>1, <1>2, <2>1, <2>2, SameOne
<1>16. ASSUME NEW w \in Workers, EndCheck(w) PROVE One'
  <2>1. worker[w].job = "created" /\ checker \in {w, None}
    BY <1>2, <1>16 DEF EndCheck, One, Reader
  <2>2. /\ worker'[w] \in {Free, [worker[w] EXCEPT !.job = "stranded"]}
        /\ \A v \in Workers \ {w} : worker'[v] = worker[v] /\ got'[v] = got[v]
        /\ got'[w] \in {got[w], << >>}
        /\ UNCHANGED <<conns, ctrl, flag, md5, image, checker>>
    BY <1>16, <2>1, NoneApart DEF EndCheck
  <2>3. worker'[w].job \in {"free", "stranded"}
    BY <1>3, <2>2 DEF Free
  <2>4. Idle(w)' /\ Reader'
    BY <1>2, <2>1, <2>2, <2>3 DEF Idle, One, Reader, CheckJobs
  <2>5. QED
    BY <1>1, <1>2, <2>2, <2>4, SameOne
<1>17. ASSUME NEW w \in Workers, ReadPage(w) PROVE One'
  <2>1. /\ worker[w].job = "read" /\ UNCHANGED <<conns, ctrl, flag, md5, worker, checker, image>>
        /\ \A v \in Workers \ {w} : got'[v] = got[v]
    BY <1>3, <1>17 DEF ReadPage
  <2>2. Reader'
    BY <1>2, <2>1 DEF One, Reader
  <2>3. QED
    BY <1>1, <1>2, <2>1, <2>2, SameOne
<1>18. ASSUME NEW s \in Conns, \A t \in Conns : ctrl'[t].valid = ctrl[t].valid,
              \A t \in Conns \ {s} : ctrl'[t] = ctrl[t], s \in conns => ctrl[s] # Cleared,
              \/ ctrl'[s].state = ctrl[s].state
              \/ ctrl[s].state \in {"UPDATE_PROGRAM_SUCCESS", "UPDATE_PROGRAM_FAILED"},
              UNCHANGED <<conns, flag, md5, workVars, image>>
       PROVE  One'
  <2>1. \A t \in Conns : Updating(t)' <=> Updating(t)
    BY <1>18 DEF Updating
  <2>2. Sole' /\ Named'
    BY <1>2, <1>18, <2>1 DEF One, Sole, Named
  <2>3. Flagged'
    BY <1>2, <1>18, <2>1 DEF One, Flagged
  <2>4. OneWorker' /\ Reader'
    BY <1>2, <1>18 DEF One, OneWorker, Reader, Idle
  <2>5. Assigned'
    <3>1. SUFFICES ASSUME NEW w \in Workers, ~Idle(w)
                   PROVE  Updating(worker[w].slot)'
                          /\ ctrl'[worker[w].slot].state = Doing(worker[w].job)
      BY <1>18 DEF Assigned, Idle
    <3>2. /\ Updating(worker[w].slot) /\ worker[w].slot \in Conns
          /\ ctrl[worker[w].slot].state = Doing(worker[w].job)
      BY <1>2, <1>3, <3>1 DEF One, Assigned, Updating
    <3>3. QED
      BY <1>18, <2>1, <3>2 DEF Doing, Updating
  <2>6. Resting'
    BY <1>2, <1>3, <1>18 DEF One, Resting
  <2>7. QED
    BY <2>2, <2>3, <2>4, <2>5, <2>6 DEF One
<1>19. ASSUME NEW s \in Conns, AnswerBlock(s) PROVE One'
  BY <1>1, <1>18, <1>19, StateTypes DEF AnswerBlock, States, Cleared
<1>20. ASSUME NEW s \in Conns, Expire(s) PROVE One'
  <2>1. /\ \A t \in Conns : ctrl'[t].valid = ctrl[t].valid
        /\ \A t \in Conns \ {s} : ctrl'[t] = ctrl[t]
        /\ ctrl'[s].state = ctrl[s].state /\ ctrl[s] # Cleared
    BY <1>3, <1>20 DEF Expire, Controls, Cleared
  <2>2. QED
    BY <1>18, <1>20, <2>1 DEF Expire
<1>21. ASSUME NEW s \in Conns, BlockOutside(s) \/ TimeOut(s) \/ AnswerCheck(s) PROVE One'
  BY <1>6, <1>21 DEF BlockOutside, TimeOut, AnswerCheck
<1>22. ASSUME NEW s \in Conns, Refuse(s) PROVE One'
  <2>1. UNCHANGED <<conns, ctrl, flag, md5, image, worker, got, checker>>
    BY <1>22 DEF Refuse
  <2>2. Reader'
    BY <1>2, <2>1 DEF One, Reader
  <2>3. QED
    BY <1>1, <1>2, <2>1, <2>2, SameOne
<1>23. CASE UNCHANGED vars
  <2>1. UNCHANGED <<conns, ctrl, flag, md5, image, worker, got, checker>>
    BY <1>23 DEF vars
  <2>2. Reader'
    BY <1>2, <2>1 DEF One, Reader
  <2>3. QED
    BY <1>1, <1>2, <2>1, <2>2, SameOne
<1>24. QED
  <2>1. \A k \in 1 .. AreaSize : k \in Int
    OBVIOUS
  <2>2. ASSUME NEW s \in Conns, Request(s) \/ Watch(s) \/ Expire(s) PROVE One'
    BY <1>4, <1>5, <1>7, <1>8, <1>9, <1>19, <1>20, <1>21, <1>22, <2>1, <2>2 DEF Request, BlockCame, Watch
  <2>3. ASSUME NEW w \in Workers, Work(w) PROVE One'
    BY <1>11, <1>12, <1>13, <1>14, <1>17, <1>15, <1>16, <2>3 DEF Work
  <2>4. QED
    BY <1>1, <1>23, <2>2, <2>3 DEF Next

\* However many clients send their requests, and however long their threads
\* take: until one of the four breaches happens there is one update and at most
\* one thread, which belongs to it.
THEOREM FirmwareOneUpdate == Spec => []OneUpdate
<1>1. OneInv => OneUpdate
  BY DEF OneInv, One, OneUpdate, Sole, Flagged, OneWorker, Assigned, Doing
<1>2. QED
  BY <1>1, InitTypeInv, NextTypeInv, InitOne, NextOneInv, PTL DEF Spec

(***************************************************************************)
(* The tasks.  They are missing from the announcement until the check has  *)
(* created them, unless an update was abandoned or a request refused; the  *)
(* thread of a check that has only reported has still to create them.      *)
(***************************************************************************)
AtMostOne == tasks \in {0, 1} /\ (latest <=> tasks = 1)
Missing == \A s \in Conns : Updating(s) =>
               IF ctrl[s].state \in Checked
               THEN tasks = 0 => idled \/ Lingering({"reported"})
               ELSE tasks = 0
Excused == tasks = 0 => \/ idled \/ \E s \in Conns : Updating(s)
                        \/ Lingering({"reported"})
Owing == Lingering({"reported"}) =>
             /\ tasks = 0
             /\ \A s \in Conns : Updating(s) => ctrl[s].state \in Checked

Once == AtMostOne /\ Missing /\ Excused /\ Owing
TasksInv == Ordered => Once

\* The end of an update, which the tasks survive or which is noted as abandoned.
LEMMA EndOnce ==
    ASSUME TypeInv, One, Once, Ordered', NEW s \in Conns, broken' = broken \cup Leftovers(s),
           UNCHANGED taskVars, Abandons(s) \/ (idled' = idled /\ ctrl[s].state \in Checked),
           \A v \in Workers : worker'[v] = worker[v],
           \A t \in Conns : Updating(t)' => Updating(t) /\ t # s
    PROVE  Once'
<1>1. \A t \in Conns : ~Updating(t)'
  BY EndQuiet
<1>2. \A t \in Conns \ {s} : ~Updating(t)
  BY EndQuiet
<1>3. Lingering({"reported"})' <=> Lingering({"reported"})
  BY DEF Lingering
<1>4. tasks = 0 => idled' \/ Lingering({"reported"})'
  <2>1. SUFFICES ASSUME tasks = 0, ~Lingering({"reported"}) PROVE idled'
    BY <1>3
  <2>2. idled \/ Updating(s)
    BY <1>2, <2>1 DEF Once, Excused
  <2>3. CASE Abandons(s)
    BY <2>2, <2>3, Zenon DEF Abandons
  <2>4. CASE idled' = idled /\ ctrl[s].state \in Checked
    <3>1. Updating(s) => idled
      BY <2>1, <2>4 DEF Once, Missing
    <3>2. QED
      BY <2>2, <2>4, <3>1, Zenon
  <2>5. QED
    BY <2>3, <2>4
<1>5. AtMostOne'
  BY DEF Once, AtMostOne, taskVars
<1>6. Missing' /\ Excused'
  BY <1>1, <1>4 DEF Missing, Excused, taskVars
<1>7. Owing'
  BY <1>1, <1>3 DEF Once, Owing, taskVars
<1>8. QED
  BY <1>5, <1>6, <1>7 DEF Once

\* A step within the update.
LEMMA SameOnce ==
    ASSUME Once, UNCHANGED <<taskVars, idled>>,
           \A t \in Conns : Updating(t)' <=> Updating(t),
           \A t \in Conns : Updating(t) => (ctrl'[t].state \in Checked <=> ctrl[t].state \in Checked),
           Lingering({"reported"})' <=> Lingering({"reported"})
    PROVE  Once'
<1>1. AtMostOne' /\ Excused'
  BY DEF Once, AtMostOne, Excused, taskVars
<1>2. Missing' /\ Owing'
  BY DEF Once, Missing, Owing, taskVars
<1>3. QED
  BY <1>1, <1>2 DEF Once

\* Terminated tasks.
LEMMA TerminateOnce ==
    ASSUME TypeInv, Once, TerminateTasks
    PROVE  tasks' = 0 /\ ~latest' /\ AtMostOne'
<1>1. tasks \in {0, 1} /\ (latest <=> tasks = 1) /\ latest \in BOOLEAN
  BY DEF Once, AtMostOne, TypeInv, TypeOK
<1>2. latest' = FALSE
  BY DEF TerminateTasks
<1>3. CASE latest
  <2>1. tasks' = tasks - 1
    BY <1>3, Zenon DEF TerminateTasks
  <2>2. tasks = 1
    BY <1>1, <1>3, Zenon
  <2>3. tasks' = 0
    BY <2>1, <2>2
  <2>4. QED
    BY <1>2, <2>3 DEF AtMostOne
<1>4. CASE ~latest
  <2>1. tasks' = tasks /\ tasks # 1
    BY <1>1, <1>4, Zenon DEF TerminateTasks
  <2>2. tasks' = 0
    BY <1>1, <2>1
  <2>3. QED
    BY <1>2, <2>2 DEF AtMostOne
<1>5. QED
  BY <1>3, <1>4

\* The tasks run once at first.
LEMMA InitTasks == Init => TasksInv
<1>1. SUFFICES ASSUME Init PROVE Once
  BY DEF TasksInv
<1>2. QED
  <2>1. ~Lingering({"reported"})
    BY <1>1 DEF Init, Lingering, Free
  <2>2. QED
    BY <1>1, <2>1 DEF Init, Once, AtMostOne, Missing, Excused, Owing, Updating

\* Every step keeps them running at most once.
LEMMA NextTasksInv == TypeInv /\ OneInv /\ TasksInv /\ [Next]_vars => TasksInv'
<1>1. SUFFICES ASSUME TypeInv, OneInv, TasksInv, [Next]_vars, Ordered' PROVE Once'
  BY DEF TasksInv
<1>2. One /\ Once
  BY <1>1, BrokenGrows DEF OneInv, TasksInv, Ordered
<1>3. /\ ctrl \in [Conns -> Controls] /\ conns \subseteq Conns
      /\ worker \in [Workers -> [job : Jobs, slot : Conns \cup {None}]]
  BY <1>1 DEF TypeInv, TypeOK
<1>. USE DEF ctrlVars, workVars, fileVars, historyVars
<1>4. ASSUME NEW s \in Conns, Connect(s) PROVE Once'
  <2>1. \A t \in Conns : Updating(t)' <=> Updating(t)
    BY <1>3, <1>4 DEF Connect, Updating, Cleared
  <2>2. \A t \in Conns : Updating(t) => ctrl'[t] = ctrl[t]
    BY <1>3, <1>4 DEF Connect, Updating
  <2>3. QED
    BY <1>2, <1>4, <2>1, <2>2, SameOnce DEF Connect, Lingering
<1>5. ASSUME NEW s \in Conns, Close(s) PROVE Once'
  <2>1. \A t \in Conns : Updating(t)' => Updating(t) /\ t # s
    BY <1>5 DEF Close, Updating
  <2>2. QED
    BY <1>1, <1>2, <1>5, <2>1, EndOnce DEF Close
<1>6. ASSUME NEW s \in Conns, Finish(s), conns' = conns, UNCHANGED taskVars,
             \A v \in Workers : worker'[v] = worker[v],
             Abandons(s) \/ (idled' = idled /\ ctrl[s].state \in Checked)
      PROVE  Once'
  <2>1. \A t \in Conns : Updating(t)' => Updating(t) /\ t # s
    BY <1>3, <1>6 DEF Finish, Updating, Cleared
  <2>2. QED
    BY <1>1, <1>2, <1>6, <2>1, EndOnce DEF Finish
<1>7. ASSUME NEW s \in Conns, NEW i \in Images, Begin(s, i) PROVE Once'
  <2>1. tasks' = 0 /\ AtMostOne'
    BY <1>1, <1>2, <1>7, TerminateOnce DEF Begin
  <2>2. \A t \in Conns : ~Updating(t)
    BY <1>1, <1>2, <1>7, NoUpdateQuiet DEF Begin
  <2>3. /\ \A t \in Conns : Updating(t)' <=> t = s
        /\ ctrl'[s].state \notin Checked
    BY <1>3, <1>7, <2>2 DEF Begin, Updating, Announced, Checked
  <2>4. ~Lingering({"reported"})'
    BY <1>1, <1>7 DEF Begin, Ordered, Lingering
  <2>5. Missing' /\ Excused' /\ Owing'
    BY <2>1, <2>3, <2>4 DEF Missing, Excused, Owing
  <2>6. QED
    BY <2>1, <2>5 DEF Once
<1>8. ASSUME NEW s \in Conns, Refuse(s) PROVE Once'
  <2>1. tasks' = 0 /\ AtMostOne' /\ idled'
    BY <1>1, <1>2, <1>8, TerminateOnce DEF Refuse
  <2>2. UNCHANGED <<conns, ctrl, worker>>
    BY <1>8 DEF Refuse
  <2>3. Owing'
    BY <1>2, <2>1, <2>2 DEF Once, Owing, Lingering, Updating
  <2>4. QED
    BY <2>1, <2>3 DEF Once, Missing, Excused
<1>9. ASSUME NEW s \in Conns, NEW k \in Int, NEW w \in Workers \cup {None}, TakeBlock(s, k, w)
      PROVE  Once'
  <2>0. \A v \in Workers : worker'[v] = IF v = w THEN [job |-> "write", slot |-> s]
                                        ELSE worker[v]
    BY <1>1, <1>9, CreateTypes DEF TakeBlock, Jobs
  <2>1. CASE w = None
    BY <1>6, <1>9, <2>0, <2>1, NoneApart DEF TakeBlock
  <2>2. CASE w # None
    <3>1. /\ Updating(s) /\ ctrl[s].state = "UPDATE_IDLE"
          /\ ctrl' = [ctrl EXCEPT ![s].state = "UPDATE_PROGRAM_DOING", ![s].timer = "running"]
          /\ UNCHANGED <<conns, taskVars, idled>>
      BY <1>9, <2>2 DEF TakeBlock
    <3>2. /\ \A t \in Conns : Updating(t)' <=> Updating(t)
          /\ ctrl'[s].state \notin Checked /\ ctrl[s].state \notin Checked
          /\ \A t \in Conns \ {s} : ctrl'[t] = ctrl[t]
      BY <1>3, <3>1 DEF Updating, Checked, Controls
    <3>3. Lingering({"reported"})' <=> Lingering({"reported"})
      <4>1. worker[w].job = "free" /\ worker'[w].job = "write"
        BY <1>9, <2>0, <2>2, CreatesFree DEF TakeBlock, Jobs
      <4>2. QED
        BY <2>0, <2>2, <4>1 DEF Lingering
    <3>4. QED
      BY <1>2, <3>1, <3>2, <3>3, SameOnce
  <2>3. QED
    BY <2>1, <2>2
<1>10. ASSUME NEW s \in Conns, NEW w \in Workers \cup {None}, TakeCheck(s, w) PROVE Once'
  <2>0. \A v \in Workers : worker'[v] = IF v = w THEN [job |-> "read", slot |-> s]
                                        ELSE worker[v]
    BY <1>1, <1>10, CreateTypes DEF TakeCheck, Jobs
  <2>1. CASE w = None
    BY <1>6, <1>10, <2>0, <2>1, NoneApart DEF TakeCheck
  <2>2. CASE w # None
    <3>1. /\ ctrl[s].state = "UPDATE_IDLE"
          /\ ctrl' = [ctrl EXCEPT ![s].state = "UPDATE_CHECK_DOING", ![s].timer = "off"]
          /\ UNCHANGED <<conns, taskVars, idled>>
      BY <1>10, <2>2 DEF TakeCheck
    <3>2. /\ \A t \in Conns : Updating(t)' <=> Updating(t)
          /\ ctrl'[s].state \notin Checked /\ ctrl[s].state \notin Checked
          /\ \A t \in Conns \ {s} : ctrl'[t] = ctrl[t]
      BY <1>3, <3>1 DEF Updating, Checked, Controls
    <3>3. Lingering({"reported"})' <=> Lingering({"reported"})
      <4>1. worker[w].job = "free" /\ worker'[w].job = "read"
        BY <1>10, <2>0, <2>2, CreatesFree DEF TakeCheck, Jobs
      <4>2. QED
        BY <2>0, <2>2, <4>1 DEF Lingering
    <3>4. QED
      BY <1>2, <3>1, <3>2, <3>3, SameOnce
  <2>3. QED
    BY <2>1, <2>2
<1>11. ASSUME NEW w \in Workers, WriteBlock(w) \/ ReadPage(w) \/ Verdict(w) PROVE Once'
  <2>1. UNCHANGED <<conns, ctrl, taskVars, idled>>
    BY <1>11 DEF WriteBlock, ReadPage, Verdict
  <2>2. \A v \in Workers : worker'[v].job = "reported" <=> worker[v].job = "reported"
    BY <1>3, <1>11 DEF WriteBlock, ReadPage, Verdict, Job
  <2>3. QED
    BY <1>2, <2>1, <2>2, SameOnce DEF Updating, Lingering
<1>12. ASSUME NEW w \in Workers, ReportBlock(w) \/ RejectBlock(w) PROVE Once'
  <2>. DEFINE s == worker[w].slot
  <2>1. PICK state \in {"UPDATE_PROGRAM_SUCCESS", "UPDATE_PROGRAM_FAILED"} : SetState(s, state)
    BY <1>12 DEF ReportBlock, RejectBlock
  <2>2. /\ \A t \in Conns : ctrl'[t].valid = ctrl[t].valid
        /\ \A t \in Conns \ {s} : ctrl'[t] = ctrl[t]
        /\ s \in Conns => ctrl'[s].state = state
    BY <1>1, <1>3, <2>1, StateTypes DEF States
  <2>3. ctrl[s].state = "UPDATE_PROGRAM_DOING"
    BY <1>2, <1>12 DEF ReportBlock, RejectBlock, One, Assigned, Doing, Idle
  <2>4. UNCHANGED <<conns, taskVars, idled>>
    BY <1>12 DEF ReportBlock, RejectBlock
  <2>5. \A t \in Conns : Updating(t)' <=> Updating(t)
    BY <2>2, <2>4 DEF Updating
  <2>6. \A v \in Workers : worker'[v].job = "reported" <=> worker[v].job = "reported"
    BY <1>3, <1>12 DEF ReportBlock, RejectBlock, Release, Free
  <2>7. QED
    BY <1>2, <2>2, <2>3, <2>4, <2>5, <2>6, SameOnce DEF Checked, Lingering
<1>13. ASSUME NEW w \in Workers, ReportCheck(w) PROVE Once'
  <2>. DEFINE s == worker[w].slot
  <2>1. s \in Conns /\ Updating(s) /\ ctrl[s].state = "UPDATE_CHECK_DOING"
    BY <1>2, <1>3, <1>13 DEF ReportCheck, One, Assigned, Doing, Idle, Updating
  <2>2. tasks = 0 /\ tasks' = tasks /\ latest' = latest
    <3>1. ctrl[s].state \notin Checked
      BY <2>1 DEF Checked
    <3>2. tasks = 0
      BY <1>2, <2>1, <3>1 DEF Once, Missing
    <3>3. QED
      BY <1>13, <3>2 DEF ReportCheck, taskVars
  <2>3. Lingering({"reported"})'
    BY <1>1, <1>13, JobTypes DEF ReportCheck, Jobs, Lingering
  <2>4. AtMostOne' /\ Excused'
    BY <1>2, <2>2, <2>3 DEF Once, AtMostOne, Excused
  <2>5. PICK state \in Checked : SetState(s, state)
    BY <1>13 DEF ReportCheck, Checked
  <2>6. /\ \A t \in Conns : ctrl'[t].valid = ctrl[t].valid
        /\ ctrl'[s].state \in Checked
    BY <1>1, <1>3, <2>1, <2>5, StateTypes DEF States, Checked
  <2>7. \A t \in Conns : Updating(t)' => t = s
    BY <1>2, <1>13, <2>1, <2>6 DEF ReportCheck, Updating, One, Sole
  <2>8. Missing' /\ Owing'
    BY <2>2, <2>3, <2>6, <2>7 DEF Missing, Owing
  <2>9. QED
    BY <2>4, <2>8 DEF Once
<1>14. ASSUME NEW w \in Workers, RecreateTasks(w) PROVE Once'
  <2>1. worker[w].job = "reported" /\ tasks = 0
    BY <1>2, <1>14 DEF RecreateTasks, Once, Owing, Lingering
  <2>2. tasks' = 1 /\ latest'
    BY <1>14, <2>1 DEF RecreateTasks, CreateTasks
  <2>3. /\ UNCHANGED <<conns, ctrl>>
        /\ worker'[w].job = "created" /\ \A v \in Workers \ {w} : worker'[v] = worker[v]
    BY <1>1, <1>14, JobTypes DEF RecreateTasks, Jobs
  <2>4. ~Lingering({"reported"})'
    BY <1>2, <2>1, <2>3 DEF Lingering, One, Reader, CheckJobs
  <2>5. \A s \in Conns : Updating(s)' => ctrl'[s].state \in Checked
    BY <1>2, <2>1, <2>3 DEF Once, Owing, Lingering, Updating
  <2>6. AtMostOne' /\ Missing' /\ Excused' /\ Owing'
    BY <2>2, <2>4, <2>5 DEF AtMostOne, Missing, Excused, Owing
  <2>7. QED
    BY <2>6 DEF Once
<1>15. ASSUME NEW w \in Workers, EndCheck(w) PROVE Once'
  <2>1. worker[w].job = "created" /\ checker \in {w, None}
    BY <1>2, <1>15 DEF EndCheck, One, Reader
  <2>2. /\ worker'[w] \in {Free, [worker[w] EXCEPT !.job = "stranded"]}
        /\ \A v \in Workers \ {w} : worker'[v] = worker[v]
        /\ UNCHANGED <<conns, ctrl, taskVars, idled>>
    BY <1>15, <2>1, NoneApart DEF EndCheck
  <2>3. worker'[w].job # "reported"
    BY <1>3, <2>2 DEF Free
  <2>4. Lingering({"reported"})' <=> Lingering({"reported"})
    BY <2>1, <2>2, <2>3 DEF Lingering
  <2>5. QED
    BY <1>2, <2>2, <2>4, SameOnce DEF Updating
<1>16. ASSUME NEW s \in Conns, AnswerBlock(s) PROVE Once'
  <2>1. /\ \A t \in Conns : ctrl'[t].valid = ctrl[t].valid
        /\ \A t \in Conns \ {s} : ctrl'[t] = ctrl[t]
        /\ ctrl'[s].state = "UPDATE_IDLE"
    BY <1>1, <1>16, StateTypes DEF AnswerBlock, States
  <2>2. \A t \in Conns : Updating(t)' <=> Updating(t)
    BY <1>16, <2>1 DEF AnswerBlock, Updating
  <2>3. QED
    BY <1>2, <1>16, <2>1, <2>2, SameOnce DEF AnswerBlock, Checked, Lingering
<1>17. ASSUME NEW s \in Conns, Expire(s) PROVE Once'
  <2>1. \A t \in Conns : ctrl'[t].valid = ctrl[t].valid /\ ctrl'[t].state = ctrl[t].state
    BY <1>3, <1>17 DEF Expire, Controls
  <2>2. QED
    BY <1>2, <1>17, <2>1, SameOnce DEF Expire, Updating, Lingering
<1>18. ASSUME NEW s \in Conns, BlockOutside(s) \/ TimeOut(s) \/ AnswerCheck(s) PROVE Once'
  BY <1>6, <1>18 DEF BlockOutside, TimeOut, AnswerCheck
<1>19. CASE UNCHANGED vars
  BY <1>2, <1>19, SameOnce DEF vars, Updating, Lingering
<1>20. QED
  <2>1. \A k \in 1 .. AreaSize : k \in Int
    OBVIOUS
  <2>2. ASSUME NEW s \in Conns, Request(s) \/ Watch(s) \/ Expire(s) PROVE Once'
    BY <1>4, <1>5, <1>7, <1>8, <1>9, <1>10, <1>16, <1>17, <1>18, <2>1, <2>2 DEF Request, BlockCame, Watch
  <2>3. ASSUME NEW w \in Workers, Work(w) PROVE Once'
    BY <1>11, <1>12, <1>13, <1>14, <1>15, <2>3 DEF Work
  <2>4. QED
    BY <1>1, <1>19, <2>2, <2>3 DEF Next

\* The tasks an update terminates never run twice, and never stay terminated
\* but for an abandoned update, a refused request or a check that has still to
\* create them.
THEOREM FirmwareTasksRunOnce == Spec => []TasksRunOnce
<1>1. TasksInv => TasksRunOnce
  BY DEF TasksInv, Once, AtMostOne, Excused, TasksRunOnce
<1>2. QED
  BY <1>1, InitTypeInv, NextTypeInv, InitOne, NextOneInv, InitTasks, NextTasksInv, PTL DEF Spec

(***************************************************************************)
(* The file.  A new one grows page by page from the beginning of the next  *)
(* region; behind its last page the rest of the block is erased.  As both  *)
(* files begin with a block, and leave room for a region, no block that is *)
(* erased for the one holds a page of the other.                           *)
(***************************************************************************)
PageOf(start, i) == area[Wrap(start + i - 1)]

LastWritten == Wrap(NewStart(f) + f.fwritennum - 1)

Begun == f.fwritennum # 0 =>
    /\ f.fwritennum < f.fsize
    /\ Wrap(f.fcuraddr) = Wrap(NewStart(f) + f.fwritennum)
    /\ \A i \in 1 .. f.fwritennum : PageOf(NewStart(f), i) \in FileData
    /\ \A p \in BlockOf(LastWritten) : p > LastWritten => area[p] = Erased
WriteInv == broken \subseteq {"cut"} => Begun /\ FileIntact

\* The file as WriteBlock finds it.
Opened == IF f.fwritennum = 0 THEN [f EXCEPT !.flastsize = f.fsize, !.fsize = Length[md5]] ELSE f

\* Where WriteBlock puts the next page.
Target == Wrap(NewStart(f) + f.fwritennum)

\* What is known of the file being written, whether the page is its first or not.
LEMMA OpenedFile ==
    ASSUME TypeInv, Begun, md5 \in Images
    PROVE  /\ Opened \in FileStructs /\ f \in FileStructs
           /\ f.fwritennum < Opened.fsize /\ Opened.fsize + RegionSize <= AreaSize
           /\ WriteAddress(Opened) = Target
           /\ Opened.fwritennum = f.fwritennum /\ Opened.fstartaddr = f.fstartaddr
           /\ Opened.freadnum = f.freadnum /\ NewStart(Opened) = NewStart(f)
<1>1. f \in FileStructs /\ f.fsize + RegionSize <= AreaSize
  BY DEF TypeInv, TypeOK, Placed
<1>2. Length[md5] \in 1 .. AreaSize /\ Length[md5] + RegionSize <= AreaSize
  BY FirmwareAssumption, NandFileAssumption
<1>3. NewStart(f) \in Nat /\ NewStart(f) < AreaSize /\ AreaSize \in Nat
  BY <1>1, Addresses, NandFileAssumption DEF Pages
<1>4. CASE f.fwritennum = 0
  <2>1. Opened = [f EXCEPT !.flastsize = f.fsize, !.fsize = Length[md5]]
    BY <1>4 DEF Opened
  <2>2. /\ Opened \in FileStructs /\ Opened.fwritennum = 0 /\ Opened.fsize = Length[md5]
        /\ Opened.fstartaddr = f.fstartaddr /\ Opened.freadnum = f.freadnum
    BY <1>1, <1>2, <1>4, <2>1 DEF FileStructs
  <2>3. NewStart(Opened) = NewStart(f)
    BY <2>2 DEF NewStart
  <2>4. Target = NewStart(f)
    BY <1>3, <1>4 DEF Target, Wrap
  <2>5. QED
    BY <1>1, <1>2, <1>4, <2>2, <2>3, <2>4 DEF WriteAddress
<1>5. CASE f.fwritennum # 0
  <2>1. Opened = f
    BY <1>5 DEF Opened
  <2>2. QED
    BY <1>1, <1>5, <2>1 DEF Begun, WriteAddress, Target
<1>6. QED
  BY <1>4, <1>5

\* The target is outside of the current region, and begins a block of its own
\* or continues one that is erased.
LEMMA TargetPlace ==
    ASSUME TypeInv, Begun, md5 \in Images, NEW p \in Pages,
           p = Target \/ (Target % BlockSize = 0 /\ p \in BlockOf(Target))
    PROVE  /\ \A i \in 1 .. RegionSize : Wrap(f.fstartaddr + i - 1) # p
           /\ p # Target => \A i \in 1 .. f.fwritennum : Wrap(NewStart(f) + i - 1) # p
           /\ \A i \in 1 .. f.fwritennum : Wrap(NewStart(f) + i - 1) # Target
<1>. DEFINE s == f.fstartaddr
            n == f.fwritennum
            t == NewStart(f)
            d == Target
            B == BlockSize
            R == RegionSize
            A == AreaSize
<1>1. /\ s \in Nat /\ s < A /\ s % B = 0 /\ n \in Nat /\ n < A - R
      /\ t \in Nat /\ t < A /\ t % B = 0
      /\ R \in Nat /\ R >= 1 /\ A \in Nat /\ R < A /\ B \in Nat /\ B >= 1
  <2>1. f \in FileStructs /\ Placed /\ n < Opened.fsize /\ Opened.fsize + R <= A
        /\ Opened.fsize \in Nat
    BY OpenedFile DEF FileStructs, TypeInv
  <2>2. t \in Pages /\ t % B = 0
    BY <2>1, Addresses, NewStartAligned
  <2>3. n \in Nat /\ s \in Pages
    BY <2>1 DEF FileStructs
  <2>4. QED
    BY <2>1, <2>2, <2>3, NandFileAssumption DEF Pages, Placed
<1>2. t = IF s + R >= A THEN s + R - A ELSE s + R
  BY <1>1 DEF NewStart, Wrap
<1>3. d = IF t + n >= A THEN t + n - A ELSE t + n
  BY <1>1 DEF Target, Wrap
<1>4. d \in Pages /\ d \in Nat /\ d < A /\ p \in Nat /\ p < A
  BY <1>1, <1>3 DEF Pages
<1>5. p = d \/ (d % B = 0 /\ d <= p /\ p < d + B)
  BY <1>4, BlockPages
<1>6. d % B = 0 /\ d < s => d + B <= s
  BY <1>1, <1>4, AlignedApart
<1>7. d % B = 0 /\ d < t => d + B <= t
  BY <1>1, <1>4, AlignedApart
<1>8. \A i \in 1 .. R : Wrap(s + i - 1) =
          IF s + i - 1 >= A THEN s + i - 1 - A ELSE s + i - 1
  BY <1>1 DEF Wrap
<1>9. \A i \in 1 .. n : Wrap(t + i - 1) =
          IF t + i - 1 >= A THEN t + i - 1 - A ELSE t + i - 1
  BY <1>1 DEF Wrap
<1>. HIDE DEF s, n, t, d, B, R, A
<1>10. p >= d /\ (d < s => p < s) /\ (d < t => p < t)
  BY <1>1, <1>4, <1>5, <1>6, <1>7
<1>11. ASSUME NEW i \in 1 .. R PROVE Wrap(s + i - 1) # p
  <2>. DEFINE c == Wrap(s + i - 1)
  <2>1. i \in Nat /\ 1 <= i /\ i <= R
    BY <1>1
  <2>2. c = IF s + i - 1 >= A THEN s + i - 1 - A ELSE s + i - 1
    BY <1>8
  <2>. HIDE DEF c
  <2>3. CASE s + R >= A
    <3>1. d >= s + R - A /\ d < s
      BY <1>1, <1>2, <1>3, <2>3
    <3>2. c >= s \/ c < s + R - A
      BY <1>1, <2>1, <2>2, <2>3
    <3>3. p < s /\ p >= s + R - A
      BY <1>1, <1>4, <1>10, <3>1
    <3>4. c # p
      BY <1>1, <1>4, <3>2, <3>3
    <3>5. QED
      BY <3>4 DEF c
  <2>4. CASE ~(s + R >= A)
    <3>1. d >= s + R \/ d < s
      BY <1>1, <1>2, <1>3, <2>4
    <3>2. c >= s /\ c < s + R
      BY <1>1, <2>1, <2>2, <2>4
    <3>3. p < s \/ p >= s + R
      BY <1>1, <1>4, <1>10, <3>1
    <3>4. c # p
      BY <1>1, <1>4, <3>2, <3>3
    <3>5. QED
      BY <3>4 DEF c
  <2>5. QED
    BY <2>3, <2>4
<1>12. ASSUME NEW i \in 1 .. n PROVE Wrap(t + i - 1) # p /\ Wrap(t + i - 1) # d
  <2>. DEFINE c == Wrap(t + i - 1)
  <2>1. i \in Nat /\ 1 <= i /\ i <= n
    BY <1>1
  <2>2. c = IF t + i - 1 >= A THEN t + i - 1 - A ELSE t + i - 1
    BY <1>9
  <2>. HIDE DEF c
  <2>3. CASE t + n >= A
    <3>1. c >= t \/ c < d
      BY <1>1, <1>3, <2>1, <2>2, <2>3
    <3>2. d < t /\ p >= d /\ p < t
      BY <1>1, <1>3, <1>4, <1>10, <2>3
    <3>3. c # p /\ c # d
      BY <1>1, <1>4, <3>1, <3>2
    <3>4. QED
      BY <3>3 DEF c
  <2>4. CASE ~(t + n >= A)
    <3>1. c < d
      BY <1>1, <1>3, <2>1, <2>2, <2>4
    <3>2. c # p /\ c # d
      BY <1>1, <1>4, <1>10, <2>1, <2>2, <3>1
    <3>3. QED
      BY <3>2 DEF c
  <2>5. QED
    BY <2>3, <2>4
<1>13. QED
  BY <1>11, <1>12 DEF s, n, t, d, R

\* The page that is written can be programmed.
LEMMA TargetFree ==
    ASSUME TypeInv, Begun, md5 \in Images
    PROVE  /\ Target \in Pages
           /\ Target % BlockSize = 0 \/ area[Target] = Erased
           /\ Target % BlockSize # 0 =>
                 \A p \in BlockOf(Target) : p > Target => area[p] = Erased
<1>1. /\ f \in FileStructs /\ NewStart(f) \in Pages /\ NewStart(f) % BlockSize = 0
      /\ f.fwritennum \in Nat /\ f.fwritennum < AreaSize
  <2>1. f \in FileStructs /\ Placed
    BY DEF TypeInv, TypeOK
  <2>2. QED
    BY <2>1, Addresses, NewStartAligned, NandFileAssumption DEF FileStructs
<1>2. NewStart(f) \in Nat /\ NewStart(f) < AreaSize /\ AreaSize \in Nat
  BY <1>1, NandFileAssumption DEF Pages
<1>3. Target \in Pages
  BY <1>1, <1>2, WrapType DEF Target
<1>4. CASE f.fwritennum = 0
  <2>1. Target = NewStart(f)
    BY <1>2, <1>4 DEF Target, Wrap
  <2>2. QED
    BY <1>1, <1>3, <2>1
<1>5. CASE f.fwritennum # 0 /\ Target % BlockSize # 0
  <2>1. LastWritten \in Pages
    BY <1>1, <1>2, <1>5, WrapType DEF LastWritten
  <2>2. Target # 0
    BY <1>5, NandFileAssumption
  <2>3. Target = LastWritten + 1
    BY <1>1, <1>2, <1>5, <2>2 DEF Target, LastWritten, Wrap
  <2>4. Target \div BlockSize = LastWritten \div BlockSize
    BY <1>5, <2>1, <2>3, SameBlock
  <2>5. BlockOf(Target) = BlockOf(LastWritten) /\ Target \in BlockOf(Target)
    BY <1>3, <2>4 DEF BlockOf
  <2>6. \A p \in BlockOf(LastWritten) : p > LastWritten => area[p] = Erased
    BY <1>5 DEF Begun
  <2>7. LastWritten \in Nat /\ \A p \in BlockOf(Target) : p \in Nat
    BY <2>1, NandFileAssumption DEF BlockOf, Pages
  <2>8. Target > LastWritten /\ \A p \in BlockOf(Target) : p > Target => p > LastWritten
    BY <2>3, <2>7
  <2>9. QED
    BY <1>3, <2>5, <2>6, <2>8
<1>6. CASE Target % BlockSize = 0
  BY <1>3, <1>6
<1>7. QED
  BY <1>4, <1>5, <1>6

\* The file is whole at first.
LEMMA InitWrite == Init => WriteInv
<1>1. SUFFICES ASSUME Init PROVE Begun /\ FileIntact
  BY DEF WriteInv
<1>2. f.fwritennum = 0 /\ f.fsize = RegionSize /\ f.fstartaddr = 0
  BY <1>1 DEF Init
<1>3. \A i \in 1 .. RegionSize : Wrap(0 + i - 1) \in Pages /\ Wrap(0 + i - 1) < RegionSize
  BY NandFileAssumption DEF Wrap, Pages
<1>4. \A i \in 1 .. RegionSize : area[Wrap(0 + i - 1)] = Old
  BY <1>1, <1>3 DEF Init
<1>5. QED
  BY <1>2, <1>4 DEF Begun, FileIntact, CurrentSize, FileData

\* What writing one more page does.
LEMMA BlockWritten ==
    ASSUME TypeInv, Begun, NEW w \in Workers, WriteBlock(w)
    PROVE  /\ area'[Target] = buf
           /\ \A i \in 1 .. RegionSize :
                 area'[Wrap(f.fstartaddr + i - 1)] = area[Wrap(f.fstartaddr + i - 1)]
           /\ \A i \in 1 .. f.fwritennum :
                 area'[Wrap(NewStart(f) + i - 1)] = area[Wrap(NewStart(f) + i - 1)]
           /\ \A p \in BlockOf(Target) : p > Target => area'[p] = Erased
<1>1. /\ md5 \in Images /\ buf \in Data /\ area \in [Pages -> Contents]
      /\ area' = Programmed(area, Target, buf)
  <2>1. md5 \in Images /\ buf \in Data /\ area \in [Pages -> Contents]
    BY FirmwareAssumption DEF TypeInv, TypeOK, Buffered, WriteBlock, FileData
  <2>2. area' = Programmed(area, WriteAddress(Opened), buf)
    BY DEF WriteBlock, Opened
  <2>3. QED
    BY <2>1, <2>2, OpenedFile
<1>2. /\ Target \in Pages /\ (Target % BlockSize = 0 \/ area[Target] = Erased)
      /\ (Target % BlockSize # 0 => \A p \in BlockOf(Target) : p > Target => area[p] = Erased)
  BY <1>1, TargetFree
<1>3. area'[Target] = buf
  BY <1>1, <1>2, ProgrammedPages
<1>4. \A p \in Pages \ {Target} :
         area'[p] = IF Target % BlockSize = 0 /\ p \in BlockOf(Target) THEN Erased ELSE area[p]
  BY <1>1, <1>2, ProgrammedPages
<1>5. \A i \in 1 .. RegionSize : Wrap(f.fstartaddr + i - 1) \in Pages
  BY OpenedFile, <1>1, NandFileAssumption DEF FileStructs, Wrap, Pages
<1>6. \A i \in 1 .. f.fwritennum : Wrap(NewStart(f) + i - 1) \in Pages
  <2>1. f \in FileStructs
    BY DEF TypeInv, TypeOK
  <2>2. NewStart(f) \in Pages
    BY <2>1, Addresses
  <2>3. QED
    BY <2>1, <2>2, NandFileAssumption DEF FileStructs, Wrap, Pages
<1>7. ASSUME NEW i \in 1 .. RegionSize
      PROVE  area'[Wrap(f.fstartaddr + i - 1)] = area[Wrap(f.fstartaddr + i - 1)]
  <2>. DEFINE c == Wrap(f.fstartaddr + i - 1)
  <2>1. c \in Pages
    BY <1>5
  <2>2. c # Target
    BY <1>1, <1>2, TargetPlace
  <2>3. ~(Target % BlockSize = 0 /\ c \in BlockOf(Target))
    BY <1>1, <2>1, TargetPlace
  <2>. HIDE DEF c
  <2>4. area'[c] = area[c]
    BY <1>4, <2>1, <2>2, <2>3
  <2>5. QED
    BY <2>4 DEF c
<1>8. ASSUME NEW i \in 1 .. f.fwritennum
      PROVE  area'[Wrap(NewStart(f) + i - 1)] = area[Wrap(NewStart(f) + i - 1)]
  <2>. DEFINE c == Wrap(NewStart(f) + i - 1)
  <2>1. c \in Pages
    BY <1>6
  <2>2. c # Target
    BY <1>1, <1>2, TargetPlace
  <2>3. ~(Target % BlockSize = 0 /\ c \in BlockOf(Target))
    BY <1>1, <2>1, <2>2, TargetPlace
  <2>. HIDE DEF c
  <2>4. area'[c] = area[c]
    BY <1>4, <2>1, <2>2, <2>3
  <2>5. QED
    BY <2>4 DEF c
<1>9. \A p \in BlockOf(Target) : p > Target => area'[p] = Erased
  <2>1. SUFFICES ASSUME NEW p \in BlockOf(Target), p > Target PROVE area'[p] = Erased
    OBVIOUS
  <2>2. p \in Pages /\ p # Target
    BY <1>2, <2>1, NandFileAssumption DEF BlockOf, Pages
  <2>3. QED
    BY <1>2, <1>4, <2>1, <2>2
<1>10. QED
  BY <1>3, <1>7, <1>8, <1>9

\* What writing one more page does to the FILE_STRUCT.
LEMMA FileWritten ==
    ASSUME TypeInv, Begun, NEW w \in Workers, WriteBlock(w)
    PROVE  /\ f'.fsize = Opened.fsize
           /\ \/ /\ f.fwritennum + 1 < Opened.fsize
                 /\ f'.fstartaddr = f.fstartaddr /\ NewStart(f') = NewStart(f)
                 /\ f'.flastsize = Opened.flastsize
                 /\ f'.fwritennum = f.fwritennum + 1 /\ f'.freadnum = f.freadnum
                 /\ Wrap(f'.fcuraddr) = Wrap(NewStart(f) + f'.fwritennum)
              \/ /\ f.fwritennum + 1 = Opened.fsize
                 /\ f'.fstartaddr = NewStart(f)
                 /\ f'.fwritennum = 0 /\ f'.freadnum = 0
<1>1. md5 \in Images
  BY FirmwareAssumption DEF WriteBlock
<1>2. /\ Opened \in FileStructs /\ f \in FileStructs /\ f.fwritennum < Opened.fsize
      /\ WriteAddress(Opened) = Target
      /\ Opened.fwritennum = f.fwritennum /\ Opened.fstartaddr = f.fstartaddr
      /\ Opened.freadnum = f.freadnum /\ NewStart(Opened) = NewStart(f)
      /\ Opened.fsize + RegionSize <= AreaSize
  BY <1>1, OpenedFile
<1>3. f' = Written(Opened)
  BY DEF WriteBlock, Opened
<1>4. f.fwritennum \in Nat /\ Opened.fsize \in Nat
  BY <1>2 DEF FileStructs
<1>5. CASE f.fwritennum + 1 < Opened.fsize
  <2>1. f' = [Opened EXCEPT !.fcuraddr = Target + 1, !.fwritennum = @ + 1]
    BY <1>2, <1>3, <1>4, <1>5 DEF Written, Completes
  <2>2. /\ f'.fsize = Opened.fsize /\ f'.fstartaddr = f.fstartaddr
        /\ f'.flastsize = Opened.flastsize /\ f'.freadnum = f.freadnum
        /\ f'.fwritennum = f.fwritennum + 1 /\ f'.fcuraddr = Target + 1
    BY <1>2, <2>1 DEF FileStructs
  <2>3. NewStart(f') = NewStart(f)
    BY <2>2 DEF NewStart
  <2>4. NewStart(f) \in Nat /\ NewStart(f) < AreaSize /\ AreaSize \in Nat
    BY <1>2, Addresses, NandFileAssumption DEF Pages
  <2>5. Wrap(Target + 1) = Wrap(NewStart(f) + f.fwritennum + 1)
    <3>1. f.fwritennum + 1 < AreaSize
      BY <1>2, <1>4, <1>5, NandFileAssumption
    <3>2. QED
      BY <1>4, <2>4, <3>1 DEF Target, Wrap
  <2>6. NewStart(f) + f'.fwritennum = NewStart(f) + f.fwritennum + 1
    BY <1>4, <2>2, <2>4
  <2>7. QED
    BY <1>5, <2>2, <2>3, <2>5, <2>6
<1>6. CASE ~(f.fwritennum + 1 < Opened.fsize)
  <2>1. f' = [Opened EXCEPT !.fstartaddr = NewStart(f), !.fcuraddr = NewStart(f),
                            !.fwritennum = 0, !.freadnum = 0]
    BY <1>2, <1>3, <1>4, <1>6 DEF Written, Replaced, Completes
  <2>2. f.fwritennum + 1 = Opened.fsize
    BY <1>2, <1>4, <1>6
  <2>3. QED
    BY <1>2, <2>1, <2>2 DEF FileStructs
<1>7. QED
  BY <1>5, <1>6

\* Writing a page keeps the pages so far, and the current file.
LEMMA WriteIntact ==
    ASSUME TypeInv, Begun, FileIntact, NEW w \in Workers, WriteBlock(w), broken' \subseteq {"cut"}
    PROVE  Begun' /\ FileIntact'
<1>. DEFINE n == f.fwritennum
            t == NewStart(f)
<1>1. md5 \in Images /\ buf \in FileData /\ broken' = broken
  BY FirmwareAssumption DEF TypeInv, TypeOK, Buffered, WriteBlock, FileData, historyVars
<1>2. f \in FileStructs /\ Opened \in FileStructs /\ n \in Nat /\ n < Opened.fsize
  BY <1>1, OpenedFile DEF FileStructs
<1>3. t \in Nat /\ t < AreaSize
  BY <1>2, Addresses, NandFileAssumption DEF Pages
<1>4. area'[Target] = buf /\ \A p \in BlockOf(Target) : p > Target => area'[p] = Erased
  BY BlockWritten
<1>5. \A i \in 1 .. n + 1 : area'[Wrap(t + i - 1)] \in FileData
  <2>1. SUFFICES ASSUME NEW i \in 1 .. n + 1 PROVE area'[Wrap(t + i - 1)] \in FileData
    OBVIOUS
  <2>2. CASE i = n + 1
    <3>1. t + i - 1 = t + n
      BY <1>2, <1>3, <2>2
    <3>2. QED
      BY <1>1, <1>4, <3>1 DEF Target
  <2>3. CASE i # n + 1
    <3>1. i \in 1 .. n /\ n # 0
      BY <1>2, <2>1, <2>3
    <3>2. area[Wrap(t + i - 1)] \in FileData
      BY <3>1 DEF Begun, PageOf
    <3>3. area'[Wrap(t + i - 1)] = area[Wrap(t + i - 1)]
      BY <3>1, BlockWritten
    <3>4. QED
      BY <3>2, <3>3
  <2>4. QED
    BY <2>2, <2>3
<1>6. CASE n + 1 < Opened.fsize
  <2>1. /\ f'.fsize = Opened.fsize /\ f'.fstartaddr = f.fstartaddr /\ NewStart(f') = t
        /\ f'.flastsize = Opened.flastsize /\ f'.fwritennum = n + 1
        /\ Wrap(f'.fcuraddr) = Wrap(t + f'.fwritennum)
    BY <1>2, <1>6, FileWritten
  <2>2. LastWritten' = Target
    <3>1. t + f'.fwritennum - 1 = t + n
      BY <1>2, <1>3, <2>1
    <3>2. QED
      BY <2>1, <3>1 DEF LastWritten, Target
  <2>3. Begun'
    BY <1>4, <1>5, <1>6, <2>1, <2>2 DEF Begun, PageOf
  <2>4. n + 1 # 0 /\ CurrentSize' = Opened.flastsize
    BY <1>2, <2>1 DEF CurrentSize
  <2>5. Opened.flastsize = CurrentSize /\ CurrentSize \in Nat
    BY <1>2 DEF Opened, CurrentSize, FileStructs
  <2>6. FileIntact'
    <3>1. SUFFICES ASSUME CurrentSize <= RegionSize, NEW i \in 1 .. CurrentSize
                   PROVE  area'[Wrap(f.fstartaddr + i - 1)] \in FileData
      BY <2>1, <2>4, <2>5 DEF FileIntact
    <3>2. area[Wrap(f.fstartaddr + i - 1)] \in FileData
      BY <1>1, <3>1 DEF FileIntact
    <3>3. i \in 1 .. RegionSize
      BY <2>5, <3>1, NandFileAssumption
    <3>4. QED
      BY <3>2, <3>3, BlockWritten
  <2>7. QED
    BY <2>3, <2>6
<1>7. CASE ~(n + 1 < Opened.fsize)
  <2>1. /\ f'.fsize = Opened.fsize /\ n + 1 = Opened.fsize /\ f'.fstartaddr = t
        /\ f'.fwritennum = 0
    BY <1>2, <1>7, FileWritten
  <2>2. Begun'
    BY <2>1 DEF Begun
  <2>3. FileIntact'
    BY <1>5, <2>1 DEF FileIntact, CurrentSize
  <2>4. QED
    BY <2>2, <2>3
<1>8. QED
  BY <1>6, <1>7

\* What a step other than a write may do to the file: move the reader.
LEMMA FileMoves ==
    ASSUME TypeInv, [Next]_vars, \A w \in Workers : ~WriteBlock(w)
    PROVE  \/ UNCHANGED <<f, area>>
           \/ /\ area' = area /\ f'.fstartaddr = f.fstartaddr /\ f'.fsize = f.fsize
              /\ f'.fwritennum = f.fwritennum /\ f'.flastsize = f.flastsize
              /\ f.fwritennum # 0 => "moved" \in broken'
<1>1. ASSUME NEW w \in Workers, ReadPage(w)
      PROVE  /\ area' = area /\ f'.fstartaddr = f.fstartaddr /\ f'.fsize = f.fsize
             /\ f'.fwritennum = f.fwritennum /\ f'.flastsize = f.flastsize
             /\ f.fwritennum # 0 => "moved" \in broken'
  <2>1. area' = area /\ (f.fwritennum # 0 => "moved" \in broken')
    BY <1>1 DEF ReadPage
  <2>2. QED
    BY <1>1, <2>1, ReadKeepsTypes
<1>2. ASSUME NEW s \in Conns, Request(s) \/ Watch(s) \/ Expire(s) PROVE UNCHANGED <<f, area>>
  <2>1. ASSUME BlockCame(s) PROVE UNCHANGED <<f, area>>
    BY <2>1 DEF BlockCame, TakeBlock, fileVars
  <2>2. CASE Request(s)
    BY <2>1, <2>2 DEF Request, Connect, Close, Begin, Refuse, TakeCheck, BlockOutside, fileVars
  <2>3. CASE Watch(s) \/ Expire(s)
    BY <2>3 DEF Watch, TimeOut, AnswerBlock, AnswerCheck, Expire, fileVars
  <2>4. QED
    BY <1>2, <2>2, <2>3
<1>3. ASSUME NEW w \in Workers, Work(w), ~ReadPage(w), ~WriteBlock(w) PROVE UNCHANGED <<f, area>>
  BY <1>3 DEF Work, ReportBlock, RejectBlock, Verdict, ReportCheck, RecreateTasks, EndCheck,
              fileVars
<1>4. QED
  BY <1>1, <1>2, <1>3 DEF Next, vars, fileVars

\* Every step keeps them.
LEMMA NextWrite == TypeInv /\ WriteInv /\ [Next]_vars => WriteInv'
<1>1. SUFFICES ASSUME TypeInv, WriteInv, [Next]_vars, broken' \subseteq {"cut"}
               PROVE  Begun' /\ FileIntact'
  BY DEF WriteInv
<1>2. broken \subseteq {"cut"} /\ Begun /\ FileIntact
  BY <1>1, BrokenGrows DEF WriteInv
<1>3. CASE \E w \in Workers : WriteBlock(w)
  BY <1>1, <1>2, <1>3, WriteIntact
<1>4. CASE UNCHANGED <<f, area>>
  <2>1. Begun'
    BY <1>2, <1>4 DEF Begun, PageOf, LastWritten
  <2>2. FileIntact'
    BY <1>2, <1>4 DEF FileIntact, CurrentSize
  <2>3. QED
    BY <2>1, <2>2
<1>5. CASE /\ area' = area /\ f'.fstartaddr = f.fstartaddr /\ f'.fsize = f.fsize
           /\ f'.fwritennum = f.fwritennum /\ f'.flastsize = f.flastsize
           /\ f.fwritennum # 0 => "moved" \in broken'
  <2>1. f.fwritennum = 0
    BY <1>1, <1>5
  <2>2. Begun'
    BY <1>5, <2>1 DEF Begun
  <2>3. FileIntact'
    BY <1>2, <1>5, <2>1 DEF FileIntact, CurrentSize
  <2>4. QED
    BY <2>2, <2>3
<1>6. QED
  BY <1>1, <1>3, <1>4, <1>5, FileMoves

\* Whatever happens to the updates that follow it, a complete file keeps all of
\* its pages until another one is complete, if it fits into its region.
THEOREM FirmwareFileIntact == Spec => []FileIntact
<1>1. WriteInv => FileIntact
  BY DEF WriteInv, FileIntact
<1>2. QED
  BY <1>1, InitTypeInv, NextTypeInv, InitWrite, NextWrite, PTL DEF Spec

(***************************************************************************)
(* Reading.  The one thread that reads finds its place in the table again, *)
(* so that its pages are those of the current file.                        *)
(***************************************************************************)
ReadSoFar(w) ==
    /\ Len(got[w]) <= f.fsize
    /\ f.freadnum = IF Len(got[w]) = f.fsize THEN 0 ELSE Len(got[w])
    /\ f.freadnum # 0 => Wrap(f.fcuraddr) = Wrap(f.fstartaddr + f.freadnum)
    /\ \A i \in 1 .. Len(got[w]) : got[w][i] = PageOf(f.fstartaddr, i)
Reading == \A w \in Workers : got[w] # << >> => ReadSoFar(w)
Verdicts == {"passed", "unsaved"}
Passed == \A w \in Workers : worker[w].job \in Verdicts =>
              LET s == worker[w].slot
              IN  CurrentFile(f, area) = Whole(image[s]) /\ approved = image[s]
ReadInv == Ordered => Reading /\ Passed

\* The page that is read next.
LEMMA NextPage ==
    ASSUME TypeInv, NEW w \in Workers, ReadPage(w), Reading
    PROVE  LET n == Len(got[w])
           IN  /\ n < f.fsize
               /\ got' = [got EXCEPT ![w] = Append(@, PageOf(f.fstartaddr, n + 1))]
               /\ f'.freadnum = IF n + 1 = f.fsize THEN 0 ELSE n + 1
               /\ f'.freadnum # 0 => Wrap(f'.fcuraddr) = Wrap(f.fstartaddr + n + 1)
<1>. DEFINE n == Len(got[w])
            from == IF got[w] = << >> THEN [f EXCEPT !.freadnum = 0] ELSE f
<1>1. /\ f \in FileStructs /\ f.fsize \in Nat \ {0} /\ f.fsize < AreaSize /\ n \in Nat
      /\ f.fstartaddr \in Nat /\ f.fstartaddr < AreaSize /\ AreaSize \in Nat
      /\ f.freadnum \in Nat /\ got[w] \in Seq(Contents)
  BY NandFileAssumption DEF TypeInv, TypeOK, FileStructs, Pages, Placed
<1>2. /\ got' = [got EXCEPT ![w] = Append(@, area[ReadAddress(from)])] /\ f' = PageRead(from)
      /\ got[w] = << >> \/ f.freadnum # 0
  BY DEF ReadPage
<1>3. /\ from \in FileStructs /\ from.fstartaddr = f.fstartaddr /\ from.fsize = f.fsize
      /\ n < f.fsize /\ from.freadnum = n
      /\ ReadAddress(from) = Wrap(f.fstartaddr + n)
  <2>1. CASE got[w] = << >>
    <3>1. from = [f EXCEPT !.freadnum = 0] /\ n = 0
      BY <2>1
    <3>2. /\ from \in FileStructs /\ from.freadnum = 0
          /\ from.fstartaddr = f.fstartaddr /\ from.fsize = f.fsize
      BY <1>1, <3>1, NandFileAssumption DEF FileStructs
    <3>. HIDE DEF from, n
    <3>3. ReadAddress(from) = f.fstartaddr /\ Wrap(f.fstartaddr + n) = f.fstartaddr
      BY <1>1, <3>1, <3>2 DEF ReadAddress, Wrap
    <3>4. QED
      BY <1>1, <3>1, <3>2, <3>3
  <2>2. CASE got[w] # << >>
    <3>1. from = f /\ f.freadnum # 0 /\ ReadSoFar(w) /\ n # 0
      BY <1>1, <1>2, <2>2, EmptySeq DEF Reading
    <3>2. n < f.fsize /\ f.freadnum = n
      BY <1>1, <3>1 DEF ReadSoFar
    <3>3. ReadAddress(f) = Wrap(f.fcuraddr) /\ Wrap(f.fcuraddr) = Wrap(f.fstartaddr + n)
      BY <3>1, <3>2 DEF ReadAddress, ReadSoFar
    <3>4. QED
      BY <1>1, <3>1, <3>2, <3>3
  <2>3. QED
    BY <2>1, <2>2
<1>. HIDE DEF from, n
<1>4. f.fstartaddr + (n + 1) - 1 = f.fstartaddr + n
  BY <1>1
<1>5. area[ReadAddress(from)] = PageOf(f.fstartaddr, n + 1)
  BY <1>3, <1>4 DEF PageOf
<1>6. /\ f'.freadnum = IF n + 1 = f.fsize THEN 0 ELSE n + 1
      /\ n + 1 # f.fsize => f'.fcuraddr = ReadAddress(from) + 1
  <2>1. CASE n + 1 >= f.fsize
    <3>1. n + 1 = f.fsize
      BY <1>1, <1>3, <2>1
    <3>2. f' = [from EXCEPT !.fcuraddr = from.fstartaddr, !.freadnum = 0]
      BY <1>2, <1>3, <2>1 DEF PageRead
    <3>3. f'.freadnum = 0
      BY <1>3, <3>2 DEF FileStructs
    <3>4. QED
      BY <3>1, <3>3
  <2>2. CASE ~(n + 1 >= f.fsize)
    <3>1. n + 1 # f.fsize
      BY <1>1, <2>2
    <3>2. f' = [from EXCEPT !.fcuraddr = ReadAddress(from) + 1, !.freadnum = @ + 1]
      BY <1>2, <1>3, <2>2 DEF PageRead
    <3>3. f'.freadnum = n + 1 /\ f'.fcuraddr = ReadAddress(from) + 1
      BY <1>3, <3>2 DEF FileStructs
    <3>4. QED
      BY <3>1, <3>3
  <2>3. QED
    BY <2>1, <2>2
<1>7. Wrap(Wrap(f.fstartaddr + n) + 1) = Wrap(f.fstartaddr + n + 1)
  BY <1>1, <1>3 DEF Wrap
<1>8. QED
  BY <1>2, <1>3, <1>5, <1>6, <1>7 DEF n

\* A step that leaves the file, and what has been read of it, alone.
LEMMA SameRead ==
    ASSUME Reading, Passed, UNCHANGED <<f, area, approved>>,
           \A w \in Workers : got'[w] \in {got[w], << >>},
           \A w \in Workers : worker'[w].job \in Verdicts =>
               worker'[w] = worker[w] /\ image'[worker[w].slot] = image[worker[w].slot]
    PROVE  Reading' /\ Passed'
<1>1. Reading'
  <2>1. SUFFICES ASSUME NEW w \in Workers, got'[w] # << >> PROVE ReadSoFar(w)'
    BY DEF Reading
  <2>2. got'[w] = got[w] /\ ReadSoFar(w)
    BY <2>1 DEF Reading
  <2>3. QED
    BY <2>2 DEF ReadSoFar, PageOf
<1>2. Passed'
  BY DEF Passed, CurrentFile
<1>3. QED
  BY <1>1, <1>2

\* The file that has been read to its end.
LEMMA WholeRead ==
    ASSUME TypeInv, Reading, NEW w \in Workers, got[w] # << >>, f.freadnum = 0
    PROVE  got[w] = CurrentFile(f, area)
<1>1. /\ ReadSoFar(w) /\ got[w] \in Seq(Contents) /\ Len(got[w]) # 0
      /\ Len(got[w]) \in Nat /\ f.fsize \in Nat
  BY EmptySeq DEF Reading, TypeInv, TypeOK, FileStructs
<1>2. Len(got[w]) = f.fsize
  BY <1>1 DEF ReadSoFar
<1>3. got[w] = [i \in 1 .. f.fsize |-> got[w][i]]
  BY <1>1, <1>2
<1>4. \A i \in 1 .. f.fsize : got[w][i] = area[Wrap(f.fstartaddr + i - 1)]
  BY <1>1, <1>2 DEF ReadSoFar, PageOf
<1>5. QED
  BY <1>3, <1>4 DEF CurrentFile

\* Nothing is being read at first.
LEMMA InitRead == Init => ReadInv
BY DEF Init, ReadInv, Reading, Passed, Verdicts, Free

\* Every step keeps what has been read as it is in the file.
LEMMA NextRead == TypeInv /\ OneInv /\ ReadInv /\ [Next]_vars => ReadInv'
<1>1. SUFFICES ASSUME TypeInv, OneInv, ReadInv, [Next]_vars, Ordered'
               PROVE  Reading' /\ Passed'
  BY DEF ReadInv
<1>2. One /\ Reading /\ Passed
  BY <1>1, BrokenGrows DEF OneInv, ReadInv, Ordered
<1>3. /\ worker \in [Workers -> [job : Jobs, slot : Conns \cup {None}]]
      /\ got \in [Workers -> Seq(Contents)] /\ f \in FileStructs
  BY <1>1 DEF TypeInv, TypeOK
<1>. USE DEF ctrlVars, workVars, fileVars, taskVars
\* Steps without a thread at work.
<1>4. ASSUME Quiet, UNCHANGED <<f, area, approved, got>>,
             \A w \in Workers : worker'[w].job \notin Verdicts
      PROVE  Reading' /\ Passed'
  BY <1>2, <1>4, SameRead
<1>5. ASSUME NEW s \in Conns, Close(s) \/ BlockOutside(s) \/ TimeOut(s) \/ AnswerCheck(s)
      PROVE  Reading' /\ Passed'
  <2>1. /\ broken' = broken \cup Leftovers(s)
        /\ UNCHANGED <<f, area, approved, got, worker>>
    BY <1>5 DEF Close, BlockOutside, TimeOut, AnswerCheck, Finish
  <2>2. Quiet
    BY <1>1, <1>2, <2>1, EndQuiet
  <2>3. QED
    BY <1>4, <2>1, <2>2 DEF Quiet, Idle, Verdicts
<1>6. ASSUME NEW s \in Conns, NEW i \in Images, Begin(s, i) PROVE Reading' /\ Passed'
  <2>1. Quiet
    BY <1>1, <1>2, <1>6, NoUpdateQuiet DEF Begin
  <2>2. QED
    BY <1>4, <1>6, <2>1 DEF Begin, Quiet, Idle, Verdicts
<1>7. ASSUME NEW s \in Conns, NEW k \in Int, NEW w \in Workers \cup {None},
             TakeBlock(s, k, w) \/ TakeCheck(s, w)
      PROVE  Reading' /\ Passed'
  <2>1. PICK j \in {"write", "read"} : Create(w, s, j)
    BY <1>7 DEF TakeBlock, TakeCheck
  <2>2. /\ \A v \in Workers : worker'[v] = IF v = w THEN [job |-> j, slot |-> s] ELSE worker[v]
        /\ got' = got
    BY <1>1, <2>1, CreateTypes DEF Jobs
  <2>3. Quiet
    <3>1. CASE w = None
      <4>1. broken' = broken \cup Leftovers(s)
        BY <1>7, <3>1 DEF TakeBlock, TakeCheck, Finish
      <4>2. QED
        BY <1>1, <1>2, <4>1, EndQuiet
    <3>2. CASE w # None
      <4>1. Updating(s)
        BY <1>1, <1>7, <3>2 DEF TakeBlock, TakeCheck, Ordered
      <4>2. ctrl[s].state = "UPDATE_IDLE"
        BY <1>7 DEF TakeBlock, TakeCheck
      <4>3. QED
        BY <1>1, <1>2, <4>1, <4>2, IdleQuiet
    <3>3. QED
      BY <3>1, <3>2
  <2>4. QED
    BY <1>4, <1>7, <2>2, <2>3 DEF TakeBlock, TakeCheck, Quiet, Idle, Verdicts
<1>8. ASSUME NEW w \in Workers, WriteBlock(w) PROVE Reading' /\ Passed'
  <2>1. worker[w].job = "write" /\ \A v \in Workers \ {w} : Idle(v)
    BY <1>2, <1>8 DEF WriteBlock, One, OneWorker, Idle
  <2>2. \A v \in Workers : got[v] = << >>
    BY <1>2, <2>1 DEF One, Reader, Idle
  <2>3. \A v \in Workers : worker'[v].job \notin Verdicts
    BY <1>3, <1>8, <2>1 DEF WriteBlock, Job, Idle, Verdicts
  <2>4. QED
    BY <1>8, <2>2, <2>3 DEF WriteBlock, Reading, Passed
<1>9. ASSUME NEW w \in Workers, ReadPage(w) PROVE Reading' /\ Passed'
  <2>. DEFINE n == Len(got[w])
  <2>1. /\ n < f.fsize
        /\ got' = [got EXCEPT ![w] = Append(@, PageOf(f.fstartaddr, n + 1))]
        /\ f'.freadnum = IF n + 1 = f.fsize THEN 0 ELSE n + 1
        /\ f'.freadnum # 0 => Wrap(f'.fcuraddr) = Wrap(f.fstartaddr + n + 1)
    BY <1>1, <1>2, <1>9, NextPage
  <2>2. /\ f'.fstartaddr = f.fstartaddr /\ f'.fsize = f.fsize /\ area' = area
        /\ UNCHANGED <<worker, approved, image>> /\ got' \in [Workers -> Seq(Contents)]
    BY <1>1, <1>9, ReadKeepsTypes DEF ReadPage
  <2>3. \A v \in Workers \ {w} : Idle(v) /\ got'[v] = << >>
    BY <1>2, <1>3, <1>9, <2>1 DEF ReadPage, One, Reader, OneWorker, Idle
  <2>4. /\ Len(got'[w]) = n + 1 /\ got'[w][n + 1] = PageOf(f.fstartaddr, n + 1)
        /\ \A i \in 1 .. n : got'[w][i] = got[w][i] /\ n \in Nat
    <3>1. got[w] \in Seq(Contents) /\ got'[w] = Append(got[w], PageOf(f.fstartaddr, n + 1))
      BY <1>3, <2>1
    <3>2. n \in Nat
      BY <3>1, LenProperties
    <3>3. QED
      BY <3>1, <3>2
  <2>5. n \in Nat /\ f.fsize \in Nat
    BY <1>3, LenProperties DEF FileStructs
  <2>6. \A i \in 1 .. n : got[w][i] = PageOf(f.fstartaddr, i)
    BY <1>2, <2>5 DEF Reading, ReadSoFar
  <2>7. \A i \in 1 .. n + 1 : got'[w][i] = PageOf(f.fstartaddr, i)
    BY <2>4, <2>5, <2>6
  <2>8. f.fstartaddr + (n + 1) = f.fstartaddr + n + 1
    BY <1>3, <2>5, NandFileAssumption DEF FileStructs, Pages
  <2>. HIDE DEF n
  <2>9. ReadSoFar(w)'
    <3>1. n + 1 <= f.fsize
      BY <2>1, <2>5
    <3>2. f'.freadnum # 0 => f'.freadnum = n + 1
      BY <2>1
    <3>3. QED
      BY <2>1, <2>2, <2>4, <2>7, <2>8, <3>1, <3>2 DEF ReadSoFar, PageOf
  <2>10. \A v \in Workers : worker[v].job \notin Verdicts
    BY <1>9, <2>3 DEF ReadPage, Idle, Verdicts
  <2>11. QED
    BY <2>2, <2>3, <2>9, <2>10 DEF Reading, Passed
<1>10. ASSUME NEW w \in Workers, Verdict(w) PROVE Reading' /\ Passed'
  <2>1. /\ \A v \in Workers \ {w} : Idle(v) /\ got[v] = << >>
        /\ Updating(worker[w].slot) /\ worker[w].slot \in Conns
    <3>1. ~Idle(w)
      BY <1>10 DEF Verdict, Idle
    <3>2. \A v \in Workers \ {w} : Idle(v)
      BY <1>2, <3>1 DEF One, OneWorker
    <3>3. \A v \in Workers \ {w} : got[v] = << >>
      BY <1>2, <3>2 DEF One, Reader, Idle
    <3>4. Updating(worker[w].slot) /\ worker[w].slot \in Conns
      BY <1>1, <1>2, <3>1 DEF One, Assigned, Updating, TypeInv, TypeOK
    <3>5. QED
      BY <3>2, <3>3, <3>4
  <2>2. \A v \in Workers : got'[v] = << >>
    BY <1>3, <1>10, <2>1 DEF Verdict
  <2>3. CASE Right(w)
    <3>1. /\ worker'[w].slot = worker[w].slot /\ approved' = md5
          /\ \A v \in Workers \ {w} : worker'[v] = worker[v]
          /\ UNCHANGED <<f, area, image>>
      BY <1>3, <1>10, <2>3 DEF Verdict, Job, historyVars
    <3>2. got[w] = CurrentFile(f, area)
      BY <1>1, <1>2, <1>10, <2>3, WholeRead DEF Verdict, Right
    <3>3. md5 = image[worker[w].slot] /\ got[w] = Whole(md5)
      BY <1>2, <2>1, <2>3 DEF One, Named, Right
    <3>4. CurrentFile(f, area)' = CurrentFile(f, area)
      BY <3>1 DEF CurrentFile
    <3>5. Passed'
      BY <1>3, <2>1, <3>1, <3>2, <3>3, <3>4 DEF Passed, Idle, Verdicts
    <3>6. QED
      BY <2>2, <3>5 DEF Reading
  <2>4. CASE ~Right(w)
    <3>1. \A v \in Workers : worker'[v].job \notin Verdicts
      BY <1>3, <1>10, <2>1, <2>4 DEF Verdict, Job, Idle, Verdicts
    <3>2. QED
      BY <2>2, <3>1 DEF Reading, Passed
  <2>5. QED
    BY <2>3, <2>4
<1>11. ASSUME NEW w \in Workers,
              \/ ReportBlock(w) \/ RejectBlock(w)
              \/ ReportCheck(w) \/ RecreateTasks(w) \/ EndCheck(w)
       PROVE  Reading' /\ Passed'
  <2>1. /\ UNCHANGED <<f, area, approved, image>>
        /\ \A v \in Workers : got'[v] \in {got[v], << >>}
    BY <1>3, <1>11 DEF ReportBlock, RejectBlock, ReportCheck, RecreateTasks, EndCheck,
                       historyVars
  <2>2. \A v \in Workers : worker'[v].job \in Verdicts => worker'[v] = worker[v]
    BY <1>3, <1>11 DEF ReportBlock, RejectBlock, ReportCheck, RecreateTasks, EndCheck,
                       Release, Job, Free, Verdicts
  <2>3. QED
    BY <1>2, <2>1, <2>2, SameRead
<1>12. ASSUME UNCHANGED <<workVars, fileVars, image>> PROVE Reading' /\ Passed'
  BY <1>2, <1>12, SameRead
<1>13. ASSUME NEW s \in Conns, Connect(s) \/ Refuse(s) \/ AnswerBlock(s) \/ Expire(s)
       PROVE  Reading' /\ Passed'
  BY <1>12, <1>13 DEF Connect, Refuse, AnswerBlock, Expire, historyVars
<1>14. CASE UNCHANGED vars
  BY <1>12, <1>14 DEF vars, historyVars
<1>15. QED
  <2>1. \A k \in 1 .. AreaSize : k \in Int
    OBVIOUS
  <2>2. ASSUME NEW s \in Conns, Request(s) \/ Watch(s) \/ Expire(s) PROVE Reading' /\ Passed'
    BY <1>5, <1>6, <1>7, <1>13, <2>1, <2>2 DEF Request, BlockCame, Watch
  <2>3. ASSUME NEW w \in Workers, Work(w) PROVE Reading' /\ Passed'
    BY <1>8, <1>9, <1>10, <1>11, <2>3 DEF Work
  <2>4. QED
    BY <1>1, <1>14, <2>2, <2>3 DEF Next

(***************************************************************************)
(* What has been sent.  While no update has been abandoned with the file   *)
(* half written, the file holds the blocks of the update that have been    *)
(* written, if they came in their order.                                   *)
(***************************************************************************)
Writing == \E w \in Workers : worker[w].job = "write"
Done(s) == IF Writing THEN sent[s] - 1 ELSE sent[s]

\* The first n pages of the file at start are the first n blocks of image i.
Holds(start, i, n) == \A k \in 1 .. n : PageOf(start, k) = Block(i, k)

Progress(s) ==
    LET L == Length[image[s]] IN
    \/ /\ Done(s) < L /\ f.fwritennum = Done(s)
       /\ Done(s) # 0 => f.fsize = L
       /\ Holds(NewStart(f), image[s], Done(s))
    \/ /\ Done(s) = L /\ f.fwritennum = 0 /\ f.fsize = L
       /\ Holds(f.fstartaddr, image[s], L)

Counted(s) == orderly[s] => Done(s) >= 0 /\ sent[s] <= Length[image[s]]
Stored(s) == Checkable(image[s]) /\ orderly[s] => Progress(s)
Owned == f.fwritennum # 0 => \E s \in Conns : Updating(s)
InBuffer == \A w \in Workers : worker[w].job = "write" /\ orderly[worker[w].slot] =>
                buf = Block(image[worker[w].slot], sent[worker[w].slot])
Wrong(s) == ~Checkable(image[s]) \/ ~orderly[s] \/ sent[s] # Length[image[s]]
Justified == \A w \in Workers : worker[w].job = "failed" => Wrong(worker[w].slot)

SentAll == /\ Owned /\ InBuffer /\ Justified
           /\ \A s \in Conns : Updating(s) => Counted(s) /\ Stored(s)
SentInv == broken = {} => SentAll

\* A step that leaves the file and the history of the update alone.
LEMMA SameSent ==
    ASSUME SentAll, UNCHANGED <<f, area, image, sent, orderly>>, Writing' <=> Writing,
           \A s \in Conns : Updating(s)' <=> Updating(s), InBuffer', Justified'
    PROVE  SentAll'
<1>1. \A s \in Conns : Done(s)' = Done(s)
  BY DEF Done
<1>2. \A s \in Conns : Progress(s)' <=> Progress(s)
  BY <1>1 DEF Progress, Holds, PageOf
<1>3. \A s \in Conns : Counted(s)' <=> Counted(s)
  BY <1>1 DEF Counted
<1>4. Owned'
  BY DEF SentAll, Owned
<1>5. QED
  BY <1>2, <1>3, <1>4 DEF SentAll, Stored

\* Without an update, there is nothing to be said.
LEMMA NoneSent ==
    ASSUME f'.fwritennum = 0, Quiet', \A s \in Conns : ~Updating(s)'
    PROVE  SentAll'
BY DEF SentAll, Owned, InBuffer, Justified, Quiet, Idle

\* The end of an update leaves nothing to account for.
LEMMA EndSent ==
    ASSUME TypeInv, One, SentAll, broken' = {}, NEW s \in Conns,
           broken' = broken \cup Leftovers(s), f' = f,
           \A v \in Workers : worker'[v] = worker[v],
           \A t \in Conns : Updating(t)' => Updating(t) /\ t # s
    PROVE  SentAll'
<1>1. Quiet /\ \A t \in Conns \ {s} : ~Updating(t)
  BY EndQuiet DEF Ordered
<1>2. f.fwritennum = 0
  BY <1>1 DEF SentAll, Owned, Leftovers
<1>3. QED
  BY <1>1, <1>2, NoneSent DEF Quiet, Idle

\* What the thread at work knows of its slot.
LEMMA AtWork ==
    ASSUME TypeInv, One, NEW w \in Workers, ~Idle(w)
    PROVE  /\ worker[w].slot \in Conns /\ Updating(worker[w].slot)
           /\ image[worker[w].slot] = md5 /\ md5 \in Images
           /\ \A s \in Conns : Updating(s) => s = worker[w].slot
           /\ \A v \in Workers \ {w} : Idle(v)
<1>1. Updating(worker[w].slot) /\ worker[w].slot \in Conns
  BY DEF One, Assigned, Updating, TypeInv, TypeOK
<1>2. QED
  BY <1>1 DEF One, OneWorker, Named, Sole, TypeInv, Started

\* A block of the update is written.
LEMMA WriteSent ==
    ASSUME TypeInv, One, Begun, SentAll, NEW w \in Workers, WriteBlock(w)
    PROVE  SentAll'
<1>0. PICK s \in Conns, n \in Nat, L \in Nat :
         s = worker[w].slot /\ n = f.fwritennum /\ L = Length[md5]
  <2>1. worker[w].slot \in Conns /\ md5 \in Images /\ f \in FileStructs
    BY AtWork DEF WriteBlock, Idle, TypeInv, TypeOK
  <2>2. Length[md5] \in Nat /\ f.fwritennum \in Nat
    BY <2>1, FirmwareAssumption, NandFileAssumption DEF FileStructs
  <2>3. QED
    BY <2>1, <2>2
<1>1. /\ s \in Conns /\ Updating(s) /\ image[s] = md5 /\ md5 \in Images
      /\ \A t \in Conns : Updating(t) => t = s
      /\ \A v \in Workers \ {w} : Idle(v)
  BY <1>0, AtWork DEF WriteBlock, Idle
<1>2. /\ worker \in [Workers -> [job : Jobs, slot : Conns \cup {None}]]
      /\ sent[s] \in Nat /\ L \in Nat /\ L >= 1
      /\ n \in Nat /\ f \in FileStructs /\ NewStart(f) \in Nat
      /\ Opened.fwritennum = n /\ n < Opened.fsize /\ Opened.fsize \in Nat
  <2>1. /\ worker \in [Workers -> [job : Jobs, slot : Conns \cup {None}]]
        /\ sent \in [Conns -> 0 .. AreaSize] /\ f \in FileStructs
    BY DEF TypeInv, TypeOK
  <2>2. L \in 1 .. AreaSize - RegionSize
    BY <1>0, <1>1, FirmwareAssumption
  <2>3. NewStart(f) \in Pages /\ n \in Nat
    BY <1>0, <2>1, Addresses, NandFileAssumption DEF FileStructs
  <2>4. Opened \in FileStructs /\ Opened.fwritennum = n /\ n < Opened.fsize
    BY <1>0, <1>1, OpenedFile
  <2>5. Opened.fsize \in Nat
    BY <2>4 DEF FileStructs
  <2>6. QED
    BY <1>1, <2>1, <2>2, <2>3, <2>4, <2>5, FirmwareAssumption, NandFileAssumption DEF Pages
<1>3. /\ worker'[w].job = "written" /\ worker'[w].slot = s
      /\ \A v \in Workers \ {w} : worker'[v] = worker[v]
      /\ UNCHANGED <<conns, ctrl, image, sent, orderly, md5, buf>>
  BY <1>0, <1>1, <1>2 DEF WriteBlock, Job, ctrlVars, historyVars
<1>4. Writing /\ ~Writing' /\ InBuffer' /\ Justified'
  BY <1>1, <1>3 DEF Writing, WriteBlock, InBuffer, Justified, Idle
<1>5. Done(s) = sent[s] - 1 /\ Done(s)' = sent[s]
  BY <1>3, <1>4 DEF Done
<1>6. Owned' /\ \A t \in Conns : Updating(t)' <=> t = s
  BY <1>1, <1>3 DEF Owned, Updating
<1>7. Counted(s)'
  BY <1>1, <1>2, <1>3, <1>5 DEF SentAll, Counted
<1>8. ASSUME Checkable(md5), orderly[s] PROVE Progress(s)'
  <2>1. Progress(s) /\ sent[s] <= L
    BY <1>0, <1>1, <1>8 DEF SentAll, Stored, Counted
  <2>2. /\ n = sent[s] - 1 /\ n < L /\ (n # 0 => f.fsize = L)
        /\ Holds(NewStart(f), md5, n)
    BY <1>0, <1>1, <1>2, <1>5, <2>1 DEF Progress
  <2>3. Opened.fsize = L
    BY <1>0, <1>2, <2>2 DEF Opened, FileStructs
  <2>4. \A k \in 1 .. n + 1 : area'[Wrap(NewStart(f) + k - 1)] = Block(md5, k)
    <3>1. SUFFICES ASSUME NEW k \in 1 .. n + 1
                   PROVE  area'[Wrap(NewStart(f) + k - 1)] = Block(md5, k)
      OBVIOUS
    <3>2. CASE k = n + 1
      <4>1. NewStart(f) + k - 1 = NewStart(f) + n /\ sent[s] = k
        BY <1>2, <2>2, <3>2
      <4>2. buf = Block(md5, k)
        BY <1>0, <1>1, <1>8, <4>1 DEF SentAll, InBuffer, WriteBlock
      <4>3. QED
        BY <1>0, <4>1, <4>2, BlockWritten DEF Target
    <3>3. CASE k # n + 1
      <4>1. k \in 1 .. n
        BY <1>2, <3>1, <3>3
      <4>2. QED
        BY <1>0, <2>2, <4>1, BlockWritten DEF Holds, PageOf
    <3>4. QED
      BY <3>2, <3>3
  <2>5. CASE n + 1 < L
    <3>1. /\ f'.fsize = L /\ NewStart(f') = NewStart(f) /\ f'.fwritennum = n + 1
      BY <1>2, <2>3, <2>5, FileWritten, <1>0
    <3>2. Done(s)' = n + 1
      BY <1>2, <1>5, <2>2
    <3>3. Holds(NewStart(f), md5, n + 1)'
      BY <1>3, <2>4, <3>1 DEF Holds, PageOf
    <3>4. QED
      BY <1>0, <1>1, <1>3, <2>5, <3>1, <3>2, <3>3 DEF Progress
  <2>6. CASE ~(n + 1 < L)
    <3>1. n + 1 = L /\ f'.fsize = L /\ f'.fstartaddr = NewStart(f) /\ f'.fwritennum = 0
      BY <1>2, <2>2, <2>3, <2>6, FileWritten, <1>0
    <3>2. Done(s)' = L
      BY <1>2, <1>5, <2>2, <3>1
    <3>3. Holds(f.fstartaddr, md5, L)'
      BY <1>3, <2>4, <3>1 DEF Holds, PageOf
    <3>4. QED
      BY <1>0, <1>1, <1>3, <3>1, <3>2, <3>3 DEF Progress
  <2>7. QED
    BY <2>5, <2>6
<1>9. Stored(s)'
  BY <1>1, <1>3, <1>8 DEF Stored
<1>10. QED
  BY <1>1, <1>4, <1>6, <1>7, <1>9 DEF SentAll

\* The check of a file that came complete and in order does not fail.
LEMMA FailedRightly ==
    ASSUME TypeInv, One, Reading, SentAll, NEW w \in Workers, Verdict(w), ~Right(w)
    PROVE  Wrong(worker[w].slot)
<1>. DEFINE s == worker[w].slot
            L == Length[md5]
<1>1. /\ s \in Conns /\ Updating(s) /\ image[s] = md5 /\ md5 \in Images
      /\ \A v \in Workers \ {w} : Idle(v)
  BY AtWork DEF Verdict, Idle
<1>2. SUFFICES ASSUME Checkable(md5), orderly[s], sent[s] = L PROVE Right(w)
  BY <1>1 DEF Wrong
<1>3. ~Writing
  BY <1>1 DEF Writing, Verdict, Idle
<1>4. Progress(s) /\ Done(s) = L
  BY <1>1, <1>2, <1>3 DEF SentAll, Stored, Done, Checkable
<1>5. f.fsize = L /\ Holds(f.fstartaddr, md5, L)
  BY <1>1, <1>4, FirmwareAssumption DEF Progress
<1>6. got[w] = CurrentFile(f, area)
  BY <1>2, WholeRead DEF Verdict
<1>7. CurrentFile(f, area) = Whole(md5)
  BY <1>5 DEF CurrentFile, Whole, Holds, PageOf
<1>8. QED
  BY <1>2, <1>6, <1>7 DEF Right

\* Nothing has been sent at first.
LEMMA InitSent == Init => SentInv
<1>1. SUFFICES ASSUME Init PROVE SentAll
  BY DEF SentInv
<1>2. QED
  BY <1>1 DEF Init, SentAll, Owned, InBuffer, Justified, Updating, Free

\* Every step keeps the account of what was sent.
LEMMA NextSent ==
    TypeInv /\ OneInv /\ ReadInv /\ WriteInv /\ SentInv /\ [Next]_vars => SentInv'
<1>1. SUFFICES ASSUME TypeInv, OneInv, ReadInv, WriteInv, SentInv, [Next]_vars, broken' = {}
               PROVE  SentAll'
  BY DEF SentInv
<1>2. broken = {} /\ One /\ Reading /\ Begun /\ SentAll
  <2>1. broken = {}
    BY <1>1, BrokenGrows
  <2>2. QED
    BY <1>1, <2>1 DEF OneInv, ReadInv, WriteInv, SentInv, Ordered
<1>3. /\ ctrl \in [Conns -> Controls] /\ conns \subseteq Conns
      /\ worker \in [Workers -> [job : Jobs, slot : Conns \cup {None}]]
      /\ sent \in [Conns -> 0 .. AreaSize] /\ f \in FileStructs
      /\ image \in [Conns -> Images \cup {None}]
  BY <1>1 DEF TypeInv, TypeOK
<1>. USE DEF ctrlVars, workVars, fileVars, taskVars
<1>4. ASSUME NEW s \in Conns, Finish(s), conns' = conns, f' = f,
             \A v \in Workers : worker'[v] = worker[v]
      PROVE  SentAll'
  <2>1. \A t \in Conns : Updating(t)' => Updating(t) /\ t # s
    BY <1>3, <1>4 DEF Finish, Updating, Cleared
  <2>2. QED
    BY <1>1, <1>2, <1>4, <2>1, EndSent DEF Finish
<1>5. ASSUME NEW s \in Conns, BlockOutside(s) \/ TimeOut(s) \/ AnswerCheck(s) PROVE SentAll'
  BY <1>4, <1>5 DEF BlockOutside, TimeOut, AnswerCheck
<1>6. ASSUME NEW s \in Conns, Close(s) PROVE SentAll'
  <2>1. \A t \in Conns : Updating(t)' => Updating(t) /\ t # s
    BY <1>6 DEF Close, Updating
  <2>2. QED
    BY <1>1, <1>2, <1>6, <2>1, EndSent DEF Close
<1>7. ASSUME NEW s \in Conns, NEW i \in Images, Begin(s, i) PROVE SentAll'
  <2>1. Quiet /\ \A t \in Conns : ~Updating(t)
    BY <1>1, <1>2, <1>7, NoUpdateQuiet DEF Begin
  <2>2. f.fwritennum = 0
    BY <1>2, <2>1 DEF SentAll, Owned
  <2>3. /\ \A t \in Conns : Updating(t)' => t = s
        /\ image'[s] = i /\ sent'[s] = 0 /\ f' = f /\ area' = area /\ worker' = worker
    BY <1>3, <1>7, <2>1 DEF Begin, Updating
  <2>4. Length[i] \in Nat /\ Length[i] >= 1
    BY FirmwareAssumption, NandFileAssumption
  <2>5. ~Writing' /\ Done(s)' = 0
    BY <2>1, <2>3 DEF Writing, Done, Quiet, Idle
  <2>6. Counted(s)' /\ Stored(s)'
    BY <2>2, <2>3, <2>4, <2>5 DEF Counted, Stored, Progress, Holds
  <2>7. QED
    BY <2>1, <2>2, <2>3, <2>6 DEF SentAll, Owned, InBuffer, Justified, Quiet, Idle
<1>8. ASSUME NEW s \in Conns, NEW k \in Int, NEW w \in Workers \cup {None}, TakeBlock(s, k, w)
      PROVE  SentAll'
  <2>1. \A v \in Workers : worker'[v] = IF v = w THEN [job |-> "write", slot |-> s]
                                        ELSE worker[v]
    BY <1>1, <1>8, CreateTypes DEF TakeBlock, Jobs
  <2>2. CASE w = None
    BY <1>4, <1>8, <2>1, <2>2, NoneApart DEF TakeBlock
  <2>3. CASE w # None
    <3>1. Quiet /\ Updating(s) /\ \A t \in Conns : Updating(t) => t = s
      BY <1>1, <1>2, <1>8, IdleQuiet DEF TakeBlock, One, Sole
    <3>2. /\ ctrl' = [ctrl EXCEPT ![s].state = "UPDATE_PROGRAM_DOING", ![s].timer = "running"]
          /\ sent' = [sent EXCEPT ![s] = IF orderly'[s] THEN k ELSE 0]
          /\ orderly' = [orderly EXCEPT ![s] = @ /\ k = sent[s] + 1]
          /\ buf' = Block(image[s], k) /\ k \in 1 .. Length[md5]
          /\ UNCHANGED <<conns, image, f, area>>
      BY <1>8, <2>3 DEF TakeBlock
    <3>3. /\ image[s] \in Images /\ sent[s] \in Nat /\ image[s] = md5
          /\ orderly'[s] => orderly[s] /\ k = sent[s] + 1 /\ sent'[s] = k
      <4>1. image[s] \in Images /\ image[s] = md5 /\ orderly \in [Conns -> BOOLEAN]
        BY <1>1, <1>2, <3>1 DEF TypeInv, TypeOK, Started, One, Named
      <4>2. sent[s] \in Nat /\ sent'[s] = IF orderly'[s] THEN k ELSE 0
        BY <1>3, <3>2, NandFileAssumption
      <4>3. QED
        BY <3>2, <4>1, <4>2
    <3>4. Length[image[s]] \in Nat
      BY <3>3, FirmwareAssumption, NandFileAssumption
    <3>5. Writing' /\ ~Writing
      BY <2>1, <2>3, <3>1 DEF Writing, Quiet, Idle
    <3>6. Done(s) = sent[s] /\ (orderly'[s] => Done(s)' = sent[s])
      BY <1>8, <3>3, <3>5 DEF Done
    <3>7. Counted(s)'
      BY <3>2, <3>3, <3>4, <3>6 DEF Counted
    <3>8. orderly'[s] /\ Progress(s) => Progress(s)'
      BY <3>2, <3>6 DEF Progress, Holds, PageOf
    <3>9. Stored(s)'
      BY <1>2, <3>1, <3>2, <3>3, <3>8 DEF SentAll, Stored, Checkable
    <3>10. \A t \in Conns : Updating(t)' <=> Updating(t)
      <4>1. ctrl'[s].valid = ctrl[s].valid /\ \A t \in Conns \ {s} : ctrl'[t] = ctrl[t]
        BY <1>3, <3>2 DEF Controls
      <4>2. QED
        BY <3>2, <4>1 DEF Updating
    <3>11. Owned' /\ Justified'
      BY <1>2, <2>1, <3>1, <3>2, <3>10 DEF SentAll, Owned, Justified, Quiet, Idle
    <3>12. InBuffer'
      <4>1. SUFFICES ASSUME orderly'[s] PROVE buf' = Block(image[s], sent'[s])
        BY <2>1, <3>1, <3>2 DEF InBuffer, Quiet, Idle
      <4>2. QED
        BY <3>2, <3>3, <4>1
    <3>13. QED
      BY <3>1, <3>7, <3>9, <3>10, <3>11, <3>12 DEF SentAll
  <2>4. QED
    BY <2>2, <2>3
<1>9. ASSUME NEW s \in Conns, NEW w \in Workers \cup {None}, TakeCheck(s, w) PROVE SentAll'
  <2>1. \A v \in Workers : worker'[v] = IF v = w THEN [job |-> "read", slot |-> s]
                                        ELSE worker[v]
    BY <1>1, <1>9, CreateTypes DEF TakeCheck, Jobs
  <2>2. CASE w = None
    BY <1>4, <1>9, <2>1, <2>2, NoneApart DEF TakeCheck
  <2>3. CASE w # None
    <3>1. /\ ctrl' = [ctrl EXCEPT ![s].state = "UPDATE_CHECK_DOING", ![s].timer = "off"]
          /\ UNCHANGED <<conns, image, sent, orderly, f, area>>
      BY <1>9, <2>3 DEF TakeCheck
    <3>2. Updating(s)
      BY <1>1, <1>9, <2>3 DEF TakeCheck
    <3>3. Quiet
      BY <1>1, <1>2, <1>9, <3>2, IdleQuiet DEF TakeCheck
    <3>4. \A t \in Conns : Updating(t)' <=> Updating(t)
      <4>1. ctrl'[s].valid = ctrl[s].valid /\ \A t \in Conns \ {s} : ctrl'[t] = ctrl[t]
        BY <1>3, <3>1 DEF Controls
      <4>2. QED
        BY <3>1, <4>1 DEF Updating
    <3>5. ~Writing /\ ~Writing' /\ InBuffer' /\ Justified'
      BY <2>1, <3>3 DEF Writing, InBuffer, Justified, Quiet, Idle
    <3>6. QED
      BY <1>2, <3>1, <3>4, <3>5, SameSent
  <2>4. QED
    BY <2>2, <2>3
<1>10. ASSUME NEW w \in Workers, WriteBlock(w) PROVE SentAll'
  BY <1>1, <1>2, <1>10, WriteSent
<1>11. ASSUME NEW w \in Workers, ReportBlock(w) \/ RejectBlock(w) \/ ReportCheck(w)
       PROVE  SentAll'
  <2>0. ~Idle(w)
    BY <1>11 DEF ReportBlock, RejectBlock, ReportCheck, Idle
  <2>1. PICK s \in Conns : s = worker[w].slot
    BY <1>1, <1>2, <2>0, AtWork
  <2>2. /\ Updating(s) /\ image[s] = md5
        /\ \A t \in Conns : Updating(t) => t = s
        /\ \A v \in Workers \ {w} : Idle(v)
    BY <1>1, <1>2, <2>0, <2>1, AtWork
  <2>3. Idle(w)' /\ \A v \in Workers \ {w} : worker'[v] = worker[v]
    BY <1>3, <1>11 DEF ReportBlock, RejectBlock, ReportCheck, Release, Job, Free, Idle
  <2>4. Quiet' /\ ~Writing' /\ InBuffer' /\ Justified'
    BY <2>2, <2>3 DEF Quiet, Writing, InBuffer, Justified, Idle
  <2>5. PICK state \in States : SetState(s, state)
    BY <1>11, <2>1 DEF ReportBlock, RejectBlock, ReportCheck, States
  <2>6. UNCHANGED <<conns, image, sent, orderly, f, area>>
    BY <1>11 DEF ReportBlock, RejectBlock, ReportCheck, historyVars
  <2>7. \A t \in Conns : Updating(t)' <=> Updating(t)
    BY <1>1, <2>2, <2>5, <2>6, StateTypes DEF Updating
  <2>8. CASE ~Writing
    BY <1>2, <2>4, <2>6, <2>7, <2>8, SameSent
  <2>9. CASE Writing
    <3>1. worker[w].job = "write" /\ RejectBlock(w)
      BY <1>11, <2>2, <2>9 DEF Writing, Idle, ReportBlock, ReportCheck
    <3>2. Counted(s)
      BY <1>2, <2>2 DEF SentAll
    <3>3. Done(s) = sent[s] - 1 /\ Done(s)' = sent[s] /\ sent[s] \in Nat
      BY <1>3, <2>1, <2>4, <2>6, <2>9, NandFileAssumption DEF Done
    <3>4. Counted(s)'
      BY <2>6, <3>2, <3>3 DEF Counted
    <3>5. ~(Checkable(image[s]) /\ orderly[s])
      <4>1. SUFFICES ASSUME Checkable(image[s]), orderly[s] PROVE FALSE
        OBVIOUS
      <4>2. buf = Block(image[s], sent[s]) /\ sent[s] <= Length[image[s]]
        BY <1>2, <2>1, <3>1, <3>2, <4>1 DEF SentAll, InBuffer, Counted
      <4>3. buf[2] = sent[s]
        BY <4>2 DEF Block
      <4>4. Length[image[s]] \in Nat /\ Length[image[s]] <= CheckMax
        BY <4>1, FirmwareAssumption, NandFileAssumption DEF Checkable
      <4>5. buf[2] > CheckMax
        BY <2>2, <3>1, <4>1 DEF RejectBlock, Checkable
      <4>6. QED
        BY <3>3, <4>2, <4>3, <4>4, <4>5, FirmwareAssumption
    <3>6. Stored(s)'
      BY <2>6, <3>5 DEF Stored, Checkable
    <3>7. Owned'
      BY <2>2, <2>7 DEF Owned
    <3>8. QED
      BY <2>2, <2>4, <2>7, <3>4, <3>6, <3>7 DEF SentAll
  <2>10. QED
    BY <2>8, <2>9
<1>12. ASSUME NEW w \in Workers, Verdict(w) PROVE SentAll'
  <2>1. UNCHANGED <<conns, ctrl, image, sent, orderly, f, area, buf>>
    BY <1>12 DEF Verdict, historyVars
  <2>2. \A v \in Workers \ {w} : Idle(v) /\ worker'[v] = worker[v]
    BY <1>1, <1>2, <1>3, <1>12, AtWork DEF Verdict, Job, Idle
  <2>3. ~Writing /\ ~Writing' /\ InBuffer'
    <3>1. worker[w].job = "read" /\ worker'[w].job \in {"passed", "unsaved", "failed"}
      BY <1>3, <1>12 DEF Verdict, Job
    <3>2. QED
      BY <2>2, <3>1 DEF Writing, InBuffer, Idle
  <2>4. Justified'
    <3>1. \A s : Wrong(s)' <=> Wrong(s)
      BY <2>1 DEF Wrong
    <3>2. CASE Right(w)
      <4>1. worker'[w].job # "failed"
        BY <1>3, <1>12, <3>2 DEF Verdict, Job
      <4>2. QED
        BY <2>2, <4>1 DEF Justified, Idle
    <3>3. CASE ~Right(w)
      <4>1. worker'[w].slot = worker[w].slot
        BY <1>3, <1>12, <3>3 DEF Verdict, Job
      <4>2. Wrong(worker[w].slot)
        BY <1>1, <1>2, <1>12, <3>3, FailedRightly
      <4>3. Wrong(worker[w].slot)'
        BY <3>1, <4>1, <4>2
      <4>4. QED
        BY <2>2, <4>3 DEF Justified, Idle
    <3>4. QED
      BY <3>2, <3>3
  <2>5. QED
    BY <1>2, <2>1, <2>3, <2>4, SameSent DEF Updating
<1>13. ASSUME NEW w \in Workers, ReadPage(w) PROVE SentAll'
  <2>1. f.fwritennum = 0
    BY <1>1, <1>13 DEF ReadPage
  <2>2. /\ UNCHANGED <<conns, ctrl, image, sent, orderly, area, buf, worker>>
        /\ f'.fstartaddr = f.fstartaddr /\ f'.fsize = f.fsize
        /\ f'.fwritennum = f.fwritennum
    BY <1>1, <1>13, ReadKeepsTypes DEF ReadPage
  <2>3. \A s \in Conns : Done(s)' = Done(s) /\ (Updating(s)' <=> Updating(s))
    BY <2>2 DEF Done, Writing, Updating
  <2>4. NewStart(f') = NewStart(f)
    BY <2>2 DEF NewStart
  <2>5. \A s \in Conns : Progress(s)' <=> Progress(s)
    BY <2>2, <2>3, <2>4 DEF Progress, Holds, PageOf
  <2>6. \A s \in Conns : Counted(s)' <=> Counted(s)
    BY <2>2, <2>3 DEF Counted
  <2>7. Owned' /\ InBuffer' /\ Justified'
    BY <1>2, <2>1, <2>2 DEF SentAll, Owned, InBuffer, Justified, Wrong
  <2>8. QED
    BY <1>2, <2>2, <2>3, <2>5, <2>6, <2>7 DEF SentAll, Stored
<1>14. ASSUME UNCHANGED <<worker, f, area, buf, image, sent, orderly>>,
              \A t \in Conns : Updating(t)' <=> Updating(t)
       PROVE  SentAll'
  <2>1. InBuffer' /\ Justified' /\ (Writing' <=> Writing)
    BY <1>2, <1>14 DEF SentAll, InBuffer, Justified, Wrong, Writing
  <2>2. QED
    BY <1>2, <1>14, <2>1, SameSent
<1>15. ASSUME NEW s \in Conns, Connect(s) \/ Refuse(s) \/ AnswerBlock(s) \/ Expire(s)
       PROVE  SentAll'
  <2>1. UNCHANGED <<worker, f, area, buf, image, sent, orderly>>
    BY <1>15 DEF Connect, Refuse, AnswerBlock, Expire, historyVars
  <2>2. \A t \in Conns : Updating(t)' <=> Updating(t)
    <3>1. CASE Connect(s)
      BY <1>3, <3>1 DEF Connect, Updating, Cleared
    <3>2. CASE Refuse(s)
      BY <3>2 DEF Refuse, Updating
    <3>3. CASE AnswerBlock(s)
      BY <1>1, <3>3, StateTypes DEF AnswerBlock, States, Updating
    <3>4. CASE Expire(s)
      BY <1>3, <3>4 DEF Expire, Updating, Controls
    <3>5. QED
      BY <1>15, <3>1, <3>2, <3>3, <3>4
  <2>3. QED
    BY <1>14, <2>1, <2>2
<1>16. ASSUME NEW w \in Workers, RecreateTasks(w) \/ EndCheck(w) PROVE SentAll'
  <2>1. /\ UNCHANGED <<conns, ctrl, f, area, buf, image, sent, orderly>>
        /\ \A v \in Workers : worker'[v] = worker[v] \/ (Idle(v) /\ Idle(v)')
    <3>1. CASE RecreateTasks(w)
      BY <1>3, <3>1 DEF RecreateTasks, Job, Idle
    <3>2. CASE EndCheck(w)
      <4>1. /\ worker[w].job = "created" /\ checker \in {w, None}
            /\ UNCHANGED <<conns, ctrl, f, area, buf, image, sent, orderly>>
        BY <1>2, <3>2 DEF EndCheck, One, Reader, historyVars
      <4>2. /\ worker'[w] \in {Free, [worker[w] EXCEPT !.job = "stranded"]}
            /\ \A v \in Workers \ {w} : worker'[v] = worker[v]
        BY <3>2, <4>1, NoneApart DEF EndCheck
      <4>3. Idle(w) /\ Idle(w)'
        BY <1>3, <4>1, <4>2 DEF Free, Idle
      <4>4. QED
        BY <4>1, <4>2, <4>3
    <3>3. QED
      BY <1>16, <3>1, <3>2
  <2>2. InBuffer' /\ Justified' /\ (Writing' <=> Writing)
    BY <1>2, <2>1 DEF SentAll, InBuffer, Justified, Wrong, Writing, Idle
  <2>3. QED
    BY <1>2, <2>1, <2>2, SameSent DEF Updating
<1>17. CASE UNCHANGED vars
  BY <1>14, <1>17 DEF vars, historyVars, Updating
<1>18. QED
  <2>1. \A k \in 1 .. AreaSize : k \in Int
    OBVIOUS
  <2>2. ASSUME NEW s \in Conns, Request(s) \/ Watch(s) \/ Expire(s) PROVE SentAll'
    BY <1>5, <1>6, <1>7, <1>8, <1>9, <1>15, <2>1, <2>2 DEF Request, BlockCame, Watch
  <2>3. ASSUME NEW w \in Workers, Work(w) PROVE SentAll'
    BY <1>10, <1>11, <1>12, <1>13, <1>16, <2>3 DEF Work
  <2>4. QED
    BY <1>1, <1>17, <2>2, <2>3 DEF Next

\* The verdict of a check is exact: an image that passes is, page for page, the
\* file that the boot loader will find, and one that fails was not sent whole
\* and in order, or is not checkable, unless an update was abandoned before.
THEOREM FirmwareVerdictExact == Spec => []VerdictExact
<1>1. ReadInv /\ SentInv => VerdictExact
  BY DEF ReadInv, Passed, Verdicts, SentInv, SentAll, Justified, Wrong, VerdictExact
<1>2. QED
  BY <1>1, InitTypeInv, NextTypeInv, InitOne, NextOneInv, InitRead, NextRead,
     InitWrite, NextWrite, InitSent, NextSent, PTL DEF Spec
=============================================================================
