--------------------------- MODULE EventLogProofs ---------------------------
(***************************************************************************)
(* The event log for every size of the ring and any number of connections: *)
(* its type, that the indices of the ring always describe its contents,    *)
(* that the cursors of the clients stay in step with it, that what is in   *)
(* the log is in order, and that the whole is the queue of EventQueue.     *)
(*                                                                         *)
(* Both a log and what a client still has to get are windows of the ring:  *)
(* so many entries from a slot on.  log_add appends to a window that ends  *)
(* at the tail, and send_logs splits one.                                  *)
(***************************************************************************)
EXTENDS EventLog, SequenceTheorems, TLAPS

(* The successor of a slot is the next one, or the first after the last.    *)
LEMMA SuccSlot ==
    ASSUME NEW i \in Slots
    PROVE  Succ(i) = IF i + 1 = N THEN 0 ELSE i + 1
<1>1. N \in Nat \ {0} /\ i \in 0 .. N - 1
  BY ConstantsAssumption DEF Slots
<1>2. CASE i + 1 = N
  BY <1>1, <1>2 DEF Succ
<1>3. CASE i + 1 # N
  BY <1>1, <1>3 DEF Succ
<1> QED BY <1>2, <1>3

(* Advancing a slot by at most N entries lands on a slot, wrapping once.    *)
LEMMA AdvanceSlot ==
    ASSUME NEW i \in Slots, NEW n \in 0 .. N
    PROVE  (i + n) % N = IF i + n >= N THEN i + n - N ELSE i + n
<1>1. N \in Nat \ {0} /\ i \in 0 .. N - 1
  BY ConstantsAssumption DEF Slots
<1>2. CASE i + n >= N
  <2>1. i + n - N \in 0 .. N - 1
    BY <1>1, <1>2
  <2> DEFINE j == i + n - N
  <2>2. j \in 0 .. N - 1 /\ i + n = j + N
    BY <1>1, <2>1
  <2> HIDE DEF j
  <2>3. (j + N) % N = j
    BY <1>1, <2>2
  <2> QED BY <1>2, <2>2, <2>3 DEF j
<1>3. CASE i + n < N
  BY <1>1, <1>3
<1> QED BY <1>1, <1>2, <1>3

(* So advancing a slot never leaves the ring.                               *)
LEMMA AdvanceSlotType ==
    ASSUME NEW i \in Slots, NEW n \in 0 .. N
    PROVE  (i + n) % N \in Slots
<1>1. N \in Nat \ {0} /\ Slots = 0 .. N - 1
  BY ConstantsAssumption DEF Slots
<1>2. (i + n) % N = IF i + n >= N THEN i + n - N ELSE i + n
  BY AdvanceSlot
<1> DEFINE r == (i + n) % N
<1>3. r = IF i + n >= N THEN i + n - N ELSE i + n
  BY <1>2
<1> HIDE DEF r
<1>4. r \in 0 .. N - 1
  BY <1>1, <1>3
<1> QED BY <1>1, <1>4 DEF r

(* A cleared image is an image.                                             *)
LEMMA ClearedImage ==
    ASSUME NEW image \in Images, NEW clear,
           clear = [image EXCEPT !.head = 0, !.tail = 0, !.cnt = 0]
    PROVE  /\ clear \in Images /\ RingOK(clear)
           /\ clear.head = 0 /\ clear.tail = 0 /\ clear.cnt = 0
<1>1. 0 \in Slots /\ 0 \in 0 .. N
  BY ConstantsAssumption DEF Slots
<1>2. image = [entry |-> image.entry, head |-> image.head,
               tail |-> image.tail, cnt |-> image.cnt]
      /\ image.entry \in [Slots -> Events]
  BY DEF Images
<1>3. clear = [entry |-> image.entry, head |-> 0, tail |-> 0, cnt |-> 0]
  BY <1>2
<1> QED BY <1>1, <1>2, <1>3 DEF Images, RingOK

(* Adding an entry to the ring keeps the image well formed and its indices   *)
(* in agreement with its count.                                            *)
LEMMA EnqueueKeepsRing ==
    ASSUME TypeOK, RingOK(plog), NEW e \in Events, Enqueue(e)
    PROVE  /\ plog' \in Images
           /\ RingOK(plog')
           /\ plog'.tail = Succ(plog.tail)
           /\ plog'.cnt = IF plog.cnt = N THEN N ELSE plog.cnt + 1
<1>1. N \in Nat \ {0} /\ Slots = 0 .. N - 1
  BY ConstantsAssumption DEF Slots
<1>2. plog \in Images
  BY DEF TypeOK
<1>3. plog.head \in Slots /\ plog.tail \in Slots /\ plog.cnt \in 0 .. N
      /\ plog.entry \in [Slots -> Events]
  BY <1>2 DEF Images
<1>4. /\ Succ(plog.head) = IF plog.head + 1 = N THEN 0 ELSE plog.head + 1
      /\ Succ(plog.tail) = IF plog.tail + 1 = N THEN 0 ELSE plog.tail + 1
  BY <1>3, SuccSlot
<1>5. Succ(plog.head) \in Slots /\ Succ(plog.tail) \in Slots
  BY <1>1, <1>3, <1>4
<1>6. /\ plog'.entry = [plog.entry EXCEPT ![plog.tail] = e]
      /\ plog'.head = IF plog.cnt = N THEN Succ(plog.head) ELSE plog.head
      /\ plog'.tail = Succ(plog.tail)
      /\ plog'.cnt = IF plog.cnt = N THEN N ELSE plog.cnt + 1
  BY DEF Enqueue
<1>7. plog' \in Images
  BY <1>1, <1>3, <1>5 DEF Enqueue, Images
<1>8. RingOK(plog')
  <2>1. plog'.head + plog'.cnt = plog'.tail \/ plog'.head + plog'.cnt = plog'.tail + N
    <3>1. plog.head + plog.cnt = plog.tail \/ plog.head + plog.cnt = plog.tail + N
      BY DEF RingOK
    <3>2. CASE plog.cnt = N
      BY <1>1, <1>3, <1>4, <1>6, <3>1, <3>2
    <3>3. CASE plog.cnt # N
      <4>1. plog'.head = plog.head /\ plog'.cnt = plog.cnt + 1
        BY <1>6, <3>3
      <4>2. plog'.tail = IF plog.tail + 1 = N THEN 0 ELSE plog.tail + 1
        BY <1>4, <1>6
      <4> DEFINE h == plog.head
                 t == plog.tail
                 k == plog.cnt
      <4>3. h \in 0 .. N - 1 /\ t \in 0 .. N - 1 /\ k \in 0 .. N - 1
        BY <1>1, <1>3, <3>3
      <4>4. h + k = t \/ h + k = t + N
        BY <3>1
      <4> HIDE DEF h, t, k
      <4>5. LET u == IF t + 1 = N THEN 0 ELSE t + 1
            IN  h + (k + 1) = u \/ h + (k + 1) = u + N
        BY <1>1, <4>3, <4>4
      <4> QED BY <4>1, <4>2, <4>5 DEF h, t, k
    <3> QED BY <3>2, <3>3
  <2> QED BY <2>1 DEF RingOK
<1> QED BY <1>6, <1>7, <1>8

(* What log_add and send_logs do to a cursor keeps it a cursor.            *)
LEMMA CursorAfterType ==
    ASSUME TypeOK, NEW c \in Conns
    PROVE  /\ CursorAfter(c) \in Slots /\ NumAfter(c) \in 0 .. Width - 1
           /\ Succ(cursor[c]) \in Slots /\ NumBefore(c) \in 0 .. Width - 1
<1>1. /\ N \in Nat \ {0} /\ Slots = 0 .. N - 1
      /\ Width \in Nat /\ Width > N + 1
  BY ConstantsAssumption DEF Slots
<1>2. cursor[c] \in Slots /\ num[c] \in 0 .. Width - 1
  BY DEF TypeOK
<1>3. Succ(cursor[c]) \in Slots
  BY <1>1, <1>2, SuccSlot
<1>4. (num[c] + 1) % Width \in 0 .. Width - 1
  <2>1. num[c] + 1 \in Int /\ Width \in Nat \ {0}
    BY <1>1, <1>2
  <2> QED BY <2>1
<1>5. NumBefore(c) \in 0 .. Width - 1
  <2>1. num[c] + Width - 1 \in Int /\ Width \in Nat \ {0}
    BY <1>1, <1>2
  <2> QED BY <2>1 DEF NumBefore
<1>6. CursorAfter(c) \in Slots
  BY <1>2, <1>3 DEF CursorAfter
<1>7. NumAfter(c) \in 0 .. Width - 1
  <2>1. N \in 0 .. Width - 1
    BY <1>1
  <2> QED BY <1>4, <2>1 DEF NumAfter
<1> QED BY <1>3, <1>5, <1>6, <1>7

(* A message takes no more than there is.                                   *)
LEMMA BatchSizeBound ==
    ASSUME TypeOK, NEW c \in Conns
    PROVE  BatchSize(c) \in 0 .. SendMax /\ BatchSize(c) <= num[c]
BY ConstantsAssumption DEF TypeOK, BatchSize

(* The buffer of the sender is empty until it has begun to fill it.         *)
BufferEmpty == sender.at \in {"idle", "locked"} => buf = << >>

(* The inductive invariant: the bounds of the counters rest on the indices  *)
(* of the ring, and the cursors on both.  Only a slot that was rewound has  *)
(* a count within the ring.                                                *)
IInv == TypeOK /\ RingsConsistent /\ CursorsInStep /\ BufferEmpty

(* It holds of the empty log ...                                           *)
LEMMA InitIInv == Init => IInv
<1> SUFFICES ASSUME Init PROVE IInv
  OBVIOUS
<1>1. N \in Nat \ {0} /\ Slots = 0 .. N - 1 /\ MaxEvent \in Nat
  BY ConstantsAssumption DEF Slots
<1>2. Blank \in Images /\ RingOK(Blank)
  BY <1>1 DEF Blank, Images, Events, RingOK
<1>3. TypeOK
  <2>1. sender \in Senders /\ buf \in Seq(Events)
    BY DEF Init, Senders
  <2>2. next \in 1 .. MaxEvent + 1
    BY <1>1 DEF Init
  <2>3. cursor \in [Conns -> Slots] /\ num \in [Conns -> 0 .. Width - 1]
    BY <1>1, ConstantsAssumption DEF Init
  <2> QED BY <1>2, <2>1, <2>2, <2>3 DEF Init, TypeOK
<1>4. RingsConsistent
  BY <1>2 DEF Init, RingsConsistent
<1>5. CursorsInStep /\ BufferEmpty
  BY DEF Init, CursorsInStep, BufferEmpty
<1> QED BY <1>3, <1>4, <1>5 DEF IInv

(* The cursor of a rewound slot is within the ring, and its count steps by  *)
(* one without wrapping.                                                   *)
LEMMA RewoundCursor ==
    ASSUME IInv, NEW c \in rewound
    PROVE  /\ c \in Conns /\ cursor[c] \in Slots /\ num[c] \in 0 .. N
           /\ num[c] <= plog.cnt
           /\ cursor[c] + num[c] = plog.tail \/ cursor[c] + num[c] = plog.tail + N
           /\ FillingFor(c) => sender.left <= num[c]
           /\ NumAfter(c) = IF num[c] = N THEN N ELSE num[c] + 1
           /\ num[c] # 0 => NumBefore(c) = num[c] - 1
<1>1. /\ N \in Nat \ {0} /\ Slots = 0 .. N - 1
      /\ Width \in Nat /\ Width > N + 1
  BY ConstantsAssumption DEF Slots
<1>2. /\ c \in Conns /\ cursor[c] \in Slots /\ num[c] \in 0 .. Width - 1
      /\ plog.cnt \in 0 .. N
  BY DEF IInv, TypeOK, Images
<1>3. /\ num[c] <= plog.cnt
      /\ cursor[c] + num[c] = plog.tail \/ cursor[c] + num[c] = plog.tail + N
      /\ FillingFor(c) => sender.left <= num[c]
  BY DEF IInv, CursorsInStep, FillingFor
<1>4. num[c] \in 0 .. N
  BY <1>1, <1>2, <1>3
<1>5. num[c] # N => NumAfter(c) = num[c] + 1
  <2>1. num[c] # N => (num[c] + 1) % Width = num[c] + 1
    BY <1>1, <1>4
  <2> QED BY <2>1 DEF NumAfter
<1>6. num[c] # 0 => NumBefore(c) = num[c] - 1
  <2> DEFINE k == num[c] - 1
  <2>1. num[c] # 0 => k \in 0 .. Width - 1 /\ num[c] + Width - 1 = k + Width
    BY <1>1, <1>4
  <2> HIDE DEF k
  <2>2. k \in 0 .. Width - 1 => (k + Width) % Width = k
    BY <1>1
  <2>3. num[c] # 0 => NumBefore(c) = k
    BY <2>1, <2>2 DEF NumBefore
  <2> QED BY <2>3 DEF k
<1>7. num[c] = N => NumAfter(c) = N
  BY DEF NumAfter
<1> QED BY <1>2, <1>3, <1>4, <1>5, <1>6, <1>7

(* What log_add does to a cursor in step with the ring keeps it in step.    *)
LEMMA AddKeepsStep ==
    ASSUME IInv, NEW c \in rewound, NEW e \in Events, Enqueue(e)
    PROVE  /\ NumAfter(c) <= plog'.cnt
           /\ \/ CursorAfter(c) + NumAfter(c) = plog'.tail
              \/ CursorAfter(c) + NumAfter(c) = plog'.tail + N
<1>1. N \in Nat \ {0} /\ Slots = 0 .. N - 1
  BY ConstantsAssumption DEF Slots
<1>2. c \in Conns /\ cursor[c] \in Slots /\ num[c] \in 0 .. N
      /\ plog.tail \in Slots /\ plog.cnt \in 0 .. N
  BY RewoundCursor DEF IInv, TypeOK, Images
<1>3. /\ num[c] <= plog.cnt
      /\ cursor[c] + num[c] = plog.tail \/ cursor[c] + num[c] = plog.tail + N
      /\ NumAfter(c) = IF num[c] = N THEN N ELSE num[c] + 1
  BY RewoundCursor
<1>4. plog'.tail = Succ(plog.tail)
      /\ plog'.cnt = IF plog.cnt = N THEN N ELSE plog.cnt + 1
  BY EnqueueKeepsRing DEF IInv, RingsConsistent
<1>5. /\ Succ(plog.tail) = IF plog.tail + 1 = N THEN 0 ELSE plog.tail + 1
      /\ Succ(cursor[c]) = IF cursor[c] + 1 = N THEN 0 ELSE cursor[c] + 1
  BY <1>2, SuccSlot
<1>6. CASE num[c] = N
  <2>1. cursor[c] = plog.tail
    BY <1>1, <1>2, <1>3, <1>6
  <2> QED BY <1>1, <1>2, <1>3, <1>4, <1>6, <2>1, SuccSlot DEF CursorAfter
<1>7. CASE num[c] # N
  <2>1. CursorAfter(c) = cursor[c] /\ NumAfter(c) = num[c] + 1
    BY <1>3, <1>7 DEF CursorAfter
  <2>2. num[c] + 1 <= plog'.cnt
    BY <1>1, <1>2, <1>3, <1>4, <1>7
  <2> DEFINE h == cursor[c]
             t == plog.tail
             k == num[c]
  <2>3. h \in 0 .. N - 1 /\ t \in 0 .. N - 1 /\ k \in 0 .. N - 1
    BY <1>1, <1>2, <1>7
  <2>4. h + k = t \/ h + k = t + N
    BY <1>3
  <2>5. plog'.tail = IF t + 1 = N THEN 0 ELSE t + 1
    BY <1>4, <1>5
  <2> HIDE DEF h, t, k
  <2>6. LET u == IF t + 1 = N THEN 0 ELSE t + 1
        IN  h + (k + 1) = u \/ h + (k + 1) = u + N
    BY <1>1, <2>3, <2>4
  <2> QED BY <2>1, <2>2, <2>5, <2>6 DEF h, t, k
<1> QED BY <1>6, <1>7

(* Sending an entry from a cursor in step keeps it in step.                 *)
LEMMA EntryKeepsStep ==
    ASSUME IInv, NEW c \in rewound, num[c] # 0
    PROVE  /\ NumBefore(c) <= plog.cnt
           /\ \/ Succ(cursor[c]) + NumBefore(c) = plog.tail
              \/ Succ(cursor[c]) + NumBefore(c) = plog.tail + N
<1>1. N \in Nat \ {0} /\ Slots = 0 .. N - 1
  BY ConstantsAssumption DEF Slots
<1>2. c \in Conns /\ cursor[c] \in Slots /\ num[c] \in 0 .. N
      /\ plog.tail \in Slots /\ plog.cnt \in 0 .. N
  BY RewoundCursor DEF IInv, TypeOK, Images
<1>3. /\ num[c] <= plog.cnt
      /\ cursor[c] + num[c] = plog.tail \/ cursor[c] + num[c] = plog.tail + N
      /\ NumBefore(c) = num[c] - 1
  BY RewoundCursor
<1>4. Succ(cursor[c]) = IF cursor[c] + 1 = N THEN 0 ELSE cursor[c] + 1
  BY <1>2, SuccSlot
<1> QED BY <1>1, <1>2, <1>3, <1>4

(* A slot that is taken is not rewound, and nothing else of it counts.      *)
LEMMA TakenSlot ==
    ASSUME IInv, NEW c \in Conns, TakeSlot(c)
    PROVE  /\ conns' \subseteq Conns /\ enflag' \subseteq Conns /\ rewound' \subseteq Conns
           /\ rewound' = rewound \ {c} /\ rewinding' = rewinding
BY DEF TakeSlot, IInv, TypeOK

(* One round of the loop of send_logs keeps the sender well formed.        *)
LEMMA EntryFilledType ==
    ASSUME TypeOK, NEW c \in Conns, sender.at = "fill", sender.conn = c,
           NEW synced \in BOOLEAN, EntryFilled(c, synced),
           NEW i \in Slots, buf' = Append(buf, plog.entry[i])
    PROVE  /\ sender' \in Senders /\ buf' \in Seq(Events)
           /\ sender.left \in Nat \ {0}
           /\ sender'.at \in {"fill", "send"}
           /\ sender'.at = "fill" => sender'.conn = c /\ sender'.left = sender.left - 1
<1>1. SendMax \in Nat
  BY ConstantsAssumption
<1>2. sender \in [at : {"fill"}, conn : Conns, left : 1 .. SendMax]
  BY DEF TypeOK, Senders, Idle
<1>3. sender.left \in 1 .. SendMax
      /\ sender = [at |-> "fill", conn |-> c, left |-> sender.left]
  BY <1>2
<1>4. buf' \in Seq(Events)
  BY DEF TypeOK, Images
<1>5. CASE sender.left = 1
  <2>1. sender' = [at |-> "send", conn |-> c, synced |-> synced]
    BY <1>5 DEF EntryFilled
  <2> QED BY <1>3, <1>4, <2>1 DEF Senders
<1>6. CASE sender.left # 1
  <2>1. sender' = [at |-> "fill", conn |-> c, left |-> sender.left - 1]
    <3>1. sender' = [sender EXCEPT !.left = @ - 1]
      BY <1>6 DEF EntryFilled
    <3> QED BY <1>3, <3>1
  <2>2. sender.left - 1 \in 1 .. SendMax
    BY <1>1, <1>3, <1>6
  <2> QED BY <1>3, <1>4, <2>1, <2>2 DEF Senders
<1> QED BY <1>5, <1>6

(* ... and every step of log.c and of the connections preserves it.         *)
LEMMA NextIInv == IInv /\ [Next]_vars => IInv'
<1> SUFFICES ASSUME IInv, [Next]_vars PROVE IInv'
  OBVIOUS
<1>i. TypeOK /\ RingsConsistent /\ CursorsInStep /\ BufferEmpty
  BY DEF IInv
<1>q. TypeOK' /\ RingsConsistent' /\ CursorsInStep' /\ BufferEmpty' => IInv'
  BY DEF IInv
<1>n. N \in Nat \ {0} /\ Slots = 0 .. N - 1 /\ MaxEvent \in Nat /\ 0 \in 0 .. Width - 1
      /\ 0 \in Slots /\ Succ(0) \in Slots /\ Width - 1 \in 0 .. Width - 1
      /\ 0 .. N \subseteq 0 .. Width - 1
  <2>1. N \in Nat \ {0} /\ Slots = 0 .. N - 1 /\ MaxEvent \in Nat /\ Width \in Nat
        /\ Width > N + 1
    BY ConstantsAssumption DEF Slots
  <2>2. 0 \in Slots
    BY <2>1
  <2>3. Succ(0) \in Slots
    BY <2>1, <2>2, SuccSlot
  <2> QED BY <2>1, <2>2, <2>3
<1>t. /\ cursor \in [Conns -> Slots] /\ num \in [Conns -> 0 .. Width - 1]
      /\ plog \in Images /\ plog.cnt \in 0 .. N /\ plog.tail \in Slots
      /\ plog.head \in Slots
      /\ rewound \subseteq Conns
  BY <1>i DEF TypeOK, Images
<1>e. next <= MaxEvent => next \in Events /\ next + 1 \in 1 .. MaxEvent + 1
  BY <1>i, <1>n DEF TypeOK, Events
<1>1. CASE LogAdd
  <2>1. /\ plog' \in Images /\ RingOK(plog')
    BY <1>1, <1>i, <1>e, EnqueueKeepsRing DEF LogAdd, RingsConsistent
  <2>2. cursor' \in [Conns -> Slots] /\ num' \in [Conns -> 0 .. Width - 1]
    BY <1>1, <1>i, CursorAfterType DEF LogAdd
  <2>3. TypeOK'
    BY <1>1, <1>i, <1>e, <2>1, <2>2 DEF LogAdd, TypeOK, flashVars, connVars, sendVars
  <2>4. RingsConsistent'
    BY <1>1, <1>i, <2>1 DEF LogAdd, RingsConsistent, flashVars
  <2>5. CursorsInStep'
    BY <1>1, <1>t, <1>e, AddKeepsStep DEF LogAdd, CursorsInStep, connVars, sendVars, Unlocked
  <2> QED BY <1>1, <1>i, <1>q, <2>3, <2>4, <2>5 DEF LogAdd, BufferEmpty, sendVars
<1>2. CASE LogClear
  <2>1. /\ plog' \in Images /\ plog'.head = 0 /\ plog'.tail = 0 /\ plog'.cnt = 0
    BY <1>2, <1>t, ClearedImage DEF LogClear
  <2>2. cursor' \in [Conns -> Slots] /\ num' \in [Conns -> 0 .. Width - 1]
    BY <1>2, <1>n DEF LogClear
  <2>3. TypeOK'
    BY <1>2, <1>i, <2>1, <2>2 DEF LogClear, TypeOK, flashVars, connVars, sendVars
  <2>4. RingsConsistent'
    BY <1>2, <1>i, <2>1 DEF LogClear, RingsConsistent, RingOK, flashVars
  <2>5. CursorsInStep'
    BY <1>2, <1>t, <2>1 DEF LogClear, CursorsInStep, connVars, sendVars, Unlocked
  <2> QED BY <1>2, <1>i, <1>q, <2>3, <2>4, <2>5 DEF LogClear, BufferEmpty, sendVars
<1>3. CASE Snapshot
  BY <1>3, <1>i, <1>q DEF Snapshot, TypeOK, RingsConsistent, CursorsInStep, BufferEmpty,
                          connVars, sendVars
<1>4. CASE WriteFile \/ SaveTable
  BY <1>4, <1>i, <1>q DEF WriteFile, SaveTable, TypeOK, RingsConsistent, CursorsInStep,
                          BufferEmpty, connVars, sendVars
<1>5. ASSUME NEW c \in Conns, Connect(c) PROVE IInv'
  <2>1. TakeSlot(c)
    BY <1>5 DEF Connect
  <2>2. cursor' \in [Conns -> Slots] /\ num' \in [Conns -> 0 .. Width - 1]
    BY <1>5, <1>n, <1>t DEF Connect
  <2>3. TypeOK'
    BY <1>5, <1>i, <2>1, <2>2, TakenSlot DEF Connect, TypeOK, flashVars, sendVars
  <2>4. CursorsInStep'
    <3> SUFFICES ASSUME NEW d \in rewound'
                 PROVE  /\ num'[d] <= plog.cnt
                        /\ \/ cursor'[d] + num'[d] = plog.tail
                           \/ cursor'[d] + num'[d] = plog.tail + N
                        /\ sender.at = "fill" /\ sender.conn = d => sender.left <= num'[d]
      BY <1>5 DEF CursorsInStep, Connect, sendVars
    <3>1. d \in rewound /\ d # c
      BY <2>1, TakenSlot
    <3>2. cursor'[d] = cursor[d] /\ num'[d] = num[d]
      BY <1>5, <1>t, <3>1 DEF Connect
    <3> QED BY <1>i, <3>1, <3>2 DEF CursorsInStep
  <2> QED BY <1>5, <1>i, <1>q, <2>3, <2>4
             DEF Connect, RingsConsistent, BufferEmpty, flashVars, sendVars
<1>6. ASSUME NEW c \in Conns, ConnectDuringAdd(c) PROVE IInv'
  <2>0. TakeSlot(c)
    BY <1>6 DEF ConnectDuringAdd
  <2>1. /\ plog' \in Images /\ RingOK(plog')
    BY <1>6, <1>i, <1>e, EnqueueKeepsRing DEF ConnectDuringAdd, RingsConsistent
  <2>2. cursor' \in [Conns -> Slots] /\ num' \in [Conns -> 0 .. Width - 1]
    <3>1. PICK a \in IF num[c] = N THEN {CursorAfter(c), Succ(0)} ELSE {0} :
                cursor' = [d \in Conns |-> IF d = c THEN a ELSE CursorAfter(d)]
      BY <1>6 DEF ConnectDuringAdd
    <3>2. a \in Slots
      BY <1>i, <1>n, CursorAfterType
    <3> QED BY <1>6, <1>i, <1>n, <3>1, <3>2, CursorAfterType DEF ConnectDuringAdd
  <2>3. TypeOK'
    BY <1>6, <1>i, <1>e, <2>0, <2>1, <2>2, TakenSlot
       DEF ConnectDuringAdd, TypeOK, flashVars, sendVars
  <2>4. RingsConsistent'
    BY <1>6, <1>i, <2>1 DEF ConnectDuringAdd, RingsConsistent, flashVars
  <2>5. CursorsInStep'
    <3> SUFFICES ASSUME NEW d \in rewound'
                 PROVE  /\ num'[d] <= plog'.cnt
                        /\ \/ cursor'[d] + num'[d] = plog'.tail
                           \/ cursor'[d] + num'[d] = plog'.tail + N
      BY <1>6 DEF CursorsInStep, ConnectDuringAdd, Unlocked, sendVars
    <3>1. d \in rewound /\ d # c /\ d \in Conns
      BY <1>t, <2>0, TakenSlot
    <3>2. cursor'[d] = CursorAfter(d) /\ num'[d] = NumAfter(d)
      BY <1>6, <3>1 DEF ConnectDuringAdd
    <3> QED BY <1>6, <1>e, <3>1, <3>2, AddKeepsStep DEF ConnectDuringAdd
  <2> QED BY <1>6, <1>i, <1>q, <2>3, <2>4, <2>5 DEF ConnectDuringAdd, BufferEmpty, sendVars
<1>7. ASSUME NEW c \in Conns, Disconnect(c) \/ \E enable \in BOOLEAN : TransLog(c, enable)
      PROVE  IInv'
  BY <1>7, <1>i, <1>q DEF Disconnect, TransLog, TypeOK, RingsConsistent, CursorsInStep,
                          BufferEmpty, flashVars, sendVars
<1>8. ASSUME NEW c \in Conns, Rewind(c) PROVE IInv'
  <2>1. TypeOK'
    BY <1>8, <1>i, <1>n, <1>t DEF Rewind, TypeOK, flashVars, sendVars
  <2>2. RingsConsistent'
    BY <1>8, <1>i DEF Rewind, RingsConsistent, flashVars
  <2>3. CursorsInStep'
    BY <1>8, <1>i, <1>t DEF Rewind, CursorsInStep, RingsConsistent, RingOK, Unlocked, sendVars
  <2> QED BY <1>8, <1>i, <1>q, <2>1, <2>2, <2>3 DEF Rewind, BufferEmpty, sendVars
<1>9. ASSUME NEW c \in Conns, SendCheck(c) PROVE IInv'
  BY <1>9, <1>i, <1>q DEF SendCheck, TypeOK, Senders, Idle, RingsConsistent, CursorsInStep,
                          BufferEmpty, flashVars, connVars
<1>10. ASSUME NEW c \in Conns, SendBegin(c) PROVE IInv'
  <2>1. BatchSize(c) \in 0 .. SendMax /\ BatchSize(c) <= num[c]
    BY <1>i, BatchSizeBound
  <2>2. /\ sender' \in Senders
        /\ sender'.at = "fill" => sender'.conn = c /\ sender'.left = BatchSize(c)
    <3>1. CASE BatchSize(c) = 0
      BY <1>10, <3>1 DEF SendBegin, Senders, Idle
    <3>2. CASE BatchSize(c) # 0
      <4>1. BatchSize(c) \in 1 .. SendMax
        BY <2>1, <3>2
      <4> QED BY <1>10, <3>2, <4>1 DEF SendBegin, Senders
    <3> QED BY <3>1, <3>2
  <2>3. TypeOK'
    BY <1>10, <1>i, <2>2 DEF SendBegin, TypeOK, flashVars, connVars
  <2>4. CursorsInStep'
    <3> SUFFICES ASSUME NEW d \in rewound
                 PROVE  /\ num[d] <= plog.cnt
                        /\ \/ cursor[d] + num[d] = plog.tail
                           \/ cursor[d] + num[d] = plog.tail + N
                        /\ sender'.at = "fill" /\ sender'.conn = d => sender'.left <= num[d]
      BY <1>10 DEF CursorsInStep, SendBegin, connVars
    <3>1. /\ num[d] <= plog.cnt
          /\ cursor[d] + num[d] = plog.tail \/ cursor[d] + num[d] = plog.tail + N
      BY <1>i DEF CursorsInStep
    <3> QED BY <2>1, <2>2, <3>1
  <2>5. BufferEmpty'
    BY <1>10, <1>i DEF SendBegin, BufferEmpty
  <2> QED BY <1>10, <1>i, <1>q, <2>3, <2>4, <2>5 DEF SendBegin, RingsConsistent, flashVars
<1>11. ASSUME NEW c \in Conns, SendEntry(c) PROVE IInv'
  <2>1. cursor[c] \in Slots /\ Succ(cursor[c]) \in Slots /\ NumBefore(c) \in 0 .. Width - 1
    BY <1>i, <1>t, CursorAfterType
  <2>2. /\ sender' \in Senders /\ buf' \in Seq(Events)
        /\ sender.left \in Nat \ {0}
        /\ sender'.at \in {"fill", "send"}
        /\ sender'.at = "fill" => sender'.conn = c /\ sender'.left = sender.left - 1
    <3>1. /\ sender.at = "fill" /\ sender.conn = c /\ EntryFilled(c, c \in rewound)
          /\ buf' = Append(buf, plog.entry[cursor[c]])
      BY <1>11 DEF SendEntry
    <3>2. CASE c \in rewound
      <4>1. EntryFilled(c, TRUE)
        BY <3>1, <3>2
      <4> QED BY <1>i, <2>1, <3>1, <4>1, EntryFilledType
    <3>3. CASE c \notin rewound
      <4>1. EntryFilled(c, FALSE)
        <5>1. (c \in rewound) = FALSE
          BY <3>3
        <5> QED BY <3>1, <5>1, Zenon
      <4> QED BY <1>i, <2>1, <3>1, <4>1, EntryFilledType
    <3> QED BY <3>2, <3>3
  <2>3. cursor' \in [Conns -> Slots] /\ num' \in [Conns -> 0 .. Width - 1]
    BY <1>11, <1>t, <2>1 DEF SendEntry
  <2>4. TypeOK'
    BY <1>11, <1>i, <2>2, <2>3 DEF SendEntry, TypeOK, flashVars, connVars
  <2>5. CursorsInStep'
    <3> SUFFICES ASSUME NEW d \in rewound
                 PROVE  /\ num'[d] <= plog.cnt
                        /\ \/ cursor'[d] + num'[d] = plog.tail
                           \/ cursor'[d] + num'[d] = plog.tail + N
                        /\ sender'.at = "fill" /\ sender'.conn = d => sender'.left <= num'[d]
      BY <1>11 DEF CursorsInStep, SendEntry, connVars
    <3>1. CASE d # c
      <4>1. cursor'[d] = cursor[d] /\ num'[d] = num[d]
        BY <1>11, <1>t, <3>1 DEF SendEntry
      <4>2. ~(sender'.at = "fill" /\ sender'.conn = d)
        BY <2>2, <3>1
      <4> QED BY <1>i, <4>1, <4>2 DEF CursorsInStep
    <3>2. CASE d = c
      <4>1. sender.left <= num[c] /\ num[c] \in 0 .. N
        BY <1>11, <3>2, RewoundCursor DEF SendEntry, FillingFor
      <4>2. num[c] # 0 /\ NumBefore(c) = num[c] - 1
        BY <2>2, <3>2, <4>1, <1>n, RewoundCursor
      <4>3. cursor'[c] = Succ(cursor[c]) /\ num'[c] = NumBefore(c)
        BY <1>11, <1>t DEF SendEntry
      <4>4. sender'.at = "fill" => sender'.left <= num'[c]
        BY <1>n, <2>2, <4>1, <4>2, <4>3
      <4> QED BY <3>2, <4>2, <4>3, <4>4, EntryKeepsStep
    <3> QED BY <3>1, <3>2
  <2>6. BufferEmpty'
    BY <2>2 DEF BufferEmpty
  <2> QED BY <1>11, <1>i, <1>q, <2>4, <2>5, <2>6 DEF SendEntry, RingsConsistent, flashVars
<1>12. ASSUME NEW c \in Conns, ConnectDuringEntry(c) PROVE IInv'
  <2>0. TakeSlot(c)
    BY <1>12 DEF ConnectDuringEntry
  <2>1. cursor[c] \in Slots /\ Succ(cursor[c]) \in Slots /\ NumBefore(c) \in 0 .. Width - 1
    BY <1>i, <1>t, CursorAfterType
  <2>2. /\ sender' \in Senders /\ buf' \in Seq(Events)
        /\ sender'.at \in {"fill", "send"}
        /\ sender'.at = "fill" => sender'.conn = c
    <3>1. PICK i \in {cursor[c], 0} : buf' = Append(buf, plog.entry[i])
      BY <1>12 DEF ConnectDuringEntry
    <3>2. i \in Slots
      BY <1>n, <2>1
    <3>3. sender.at = "fill" /\ sender.conn = c /\ EntryFilled(c, FALSE)
      BY <1>12 DEF ConnectDuringEntry
    <3> QED BY <1>i, <3>1, <3>2, <3>3, EntryFilledType
  <2>3. cursor' \in [Conns -> Slots] /\ num' \in [Conns -> 0 .. Width - 1]
        /\ \A d \in Conns \ {c} : cursor'[d] = cursor[d] /\ num'[d] = num[d]
    <3>1. PICK a \in {Succ(0), Succ(cursor[c]), 0} : cursor' = [cursor EXCEPT ![c] = a]
      BY <1>12 DEF ConnectDuringEntry
    <3>2. PICK m \in {Width - 1, NumBefore(c), 0} : num' = [num EXCEPT ![c] = m]
      BY <1>12 DEF ConnectDuringEntry
    <3>3. a \in Slots /\ m \in 0 .. Width - 1
      BY <1>n, <2>1
    <3> QED BY <1>t, <3>1, <3>2, <3>3
  <2>4. TypeOK'
    BY <1>12, <1>i, <2>0, <2>2, <2>3, TakenSlot DEF ConnectDuringEntry, TypeOK, flashVars
  <2>5. CursorsInStep'
    <3> SUFFICES ASSUME NEW d \in rewound'
                 PROVE  /\ num'[d] <= plog.cnt
                        /\ \/ cursor'[d] + num'[d] = plog.tail
                           \/ cursor'[d] + num'[d] = plog.tail + N
                        /\ ~(sender'.at = "fill" /\ sender'.conn = d)
      BY <1>12 DEF CursorsInStep, ConnectDuringEntry
    <3>1. d \in rewound /\ d # c /\ d \in Conns
      BY <1>t, <2>0, TakenSlot
    <3> QED BY <1>i, <2>2, <2>3, <3>1 DEF CursorsInStep
  <2>6. BufferEmpty'
    BY <2>2 DEF BufferEmpty
  <2> QED BY <1>12, <1>i, <1>q, <2>4, <2>5, <2>6
             DEF ConnectDuringEntry, RingsConsistent, flashVars
<1>13. CASE SendDone
  BY <1>13, <1>i, <1>q DEF SendDone, TypeOK, Senders, Idle, RingsConsistent, CursorsInStep,
                           BufferEmpty, flashVars, connVars
<1>14. CASE Restart
  <2>1. plog' \in Images /\ RingOK(plog')
    <3>1. saved \in Images /\ RingOK(saved)
      BY <1>i DEF TypeOK, RingsConsistent
    <3> QED BY <1>14, <3>1, ClearedImage DEF Restart
  <2>2. TypeOK'
    <3>1. sender' \in Senders /\ buf' \in Seq(Events)
      BY <1>14 DEF Restart, Senders
    <3>2. cursor' \in [Conns -> Slots] /\ num' \in [Conns -> 0 .. Width - 1]
      BY <1>14, <1>n DEF Restart
    <3> QED BY <1>14, <1>i, <2>1, <3>1, <3>2 DEF Restart, TypeOK
  <2> QED BY <1>14, <1>i, <1>q, <2>1, <2>2 DEF Restart, RingsConsistent, CursorsInStep,
                                              BufferEmpty
<1>15. CASE UNCHANGED vars
  BY <1>15, <1>i, <1>q DEF vars, TypeOK, RingsConsistent, CursorsInStep, BufferEmpty
<1> QED BY <1>1, <1>2, <1>3, <1>4, <1>5, <1>6, <1>7, <1>8, <1>9, <1>10, <1>11, <1>12,
           <1>13, <1>14, <1>15 DEF Next

(* Hence it holds in every reachable state.                                *)
LEMMA Invariance == Spec => []IInv
BY InitIInv, NextIInv, PTL DEF Spec

(* Every reachable state of the log has its type: log_cnt never passes      *)
(* LOG_MAXNUM, and every index that send_logs reads the ring at is a slot,  *)
(* although a memset in the middle of its loop may leave sendlog_inf.num    *)
(* anywhere in its width.                                                  *)
THEOREM LogTypeCorrect == Spec => []TypeOK
BY Invariance, PTL DEF IInv

(* head, tail and cnt of log_add, log_clear and log_init agree for every    *)
(* size of the ring, in memory, in the snapshot and on flash.              *)
THEOREM RingsStayConsistent == Spec => []RingsConsistent
BY Invariance, PTL DEF IInv

(* The cursor that mbrs_translog sets stays in step with the ring, for any  *)
(* number of connections.                                                  *)
THEOREM CursorsStayInStep == Spec => []CursorsInStep
BY Invariance, PTL DEF IInv
-----------------------------------------------------------------------------
(* The order of the log.  A window of the ring is read without the         *)
(* modulus: its i-th entry is in the slot i - 1 after its first one.       *)
SlotFrom(h, i) == IF h + (i - 1) >= N THEN h + (i - 1) - N ELSE h + (i - 1)
EntryAt(image, i) == image.entry[SlotFrom(image.head, i)]

(* The entries of an image are numbered upwards and below n.               *)
InOrder(image, n) ==
    \A i \in 1 .. image.cnt :
        /\ 0 < EntryAt(image, i) /\ EntryAt(image, i) < n
        /\ i < image.cnt => EntryAt(image, i) < EntryAt(image, i + 1)

(* The ring, the snapshot and the files hold events that have happened, in   *)
(* their order.  The numbers of the events only grow, which is why this is  *)
(* inductive and LogInOrder is not.                                        *)
OrderInv == /\ InOrder(plog, next) /\ InOrder(temp, next)
            /\ InOrder(file, next) /\ InOrder(saved, next)

(* A window of at most N entries lies in the ring.                         *)
LEMMA SlotFromType ==
    ASSUME NEW h \in Slots, NEW i \in 1 .. N
    PROVE  SlotFrom(h, i) \in Slots /\ SlotFrom(h, i) = (h + i - 1) % N
<1>1. N \in Nat \ {0} /\ Slots = 0 .. N - 1
  BY ConstantsAssumption DEF Slots
<1>2. i - 1 \in 0 .. N /\ h + i - 1 = h + (i - 1)
  BY <1>1
<1>3. SlotFrom(h, i) = (h + i - 1) % N
  BY <1>2, AdvanceSlot DEF SlotFrom
<1> QED BY <1>1, <1>2, <1>3 DEF SlotFrom

(* The entries of an image are in its slots.                               *)
LEMMA EntryAtType ==
    ASSUME NEW image \in Images, NEW i \in 1 .. image.cnt
    PROVE  /\ EntryAt(image, i) \in Events
           /\ EntryAt(image, i) = Contents(image)[i]
<1>1. image.head \in Slots /\ image.cnt \in 0 .. N /\ image.entry \in [Slots -> Events]
      /\ i \in 1 .. N
  BY ConstantsAssumption DEF Images
<1>2. SlotFrom(image.head, i) \in Slots
      /\ SlotFrom(image.head, i) = (image.head + i - 1) % N
  BY <1>1, SlotFromType
<1> QED BY <1>1, <1>2 DEF EntryAt, Contents

(* An image in order has its contents in order.                            *)
LEMMA InOrderOrdered ==
    ASSUME NEW image \in Images, NEW n, InOrder(image, n)
    PROVE  Ordered(Contents(image))
<1> DEFINE s == Contents(image)
<1>1. image.cnt \in Nat
  BY ConstantsAssumption DEF Images
<1>2. \A i \in 1 .. image.cnt : s[i] = EntryAt(image, i)
  BY EntryAtType
<1>3. Len(s) = image.cnt
  BY <1>1 DEF Contents
<1> HIDE DEF s
<1>4. \A i \in 1 .. image.cnt - 1 : 0 < s[i] /\ s[i] < s[i + 1]
  BY <1>1, <1>2 DEF InOrder
<1>5. Ordered(s)
  BY <1>3, <1>4 DEF Ordered
<1> QED BY <1>5 DEF s

(* A window of k entries from h that ends before slot t, when e is written  *)
(* to t: e is its last entry, the others keep their order, and the first   *)
(* one is dropped when the window is the whole ring.                       *)
LEMMA WindowMoves ==
    ASSUME NEW entry \in [Slots -> Events], NEW h \in Slots, NEW t \in Slots,
           NEW k \in 0 .. N, h + k = t \/ h + k = t + N, NEW e \in Events,
           NEW g, g = IF k = N THEN Succ(h) ELSE h,
           NEW m, m = IF k = N THEN N ELSE k + 1,
           NEW i \in 1 .. m
    PROVE  [entry EXCEPT ![t] = e][SlotFrom(g, i)] =
               IF i = m THEN e
               ELSE IF k = N THEN entry[SlotFrom(h, i + 1)] ELSE entry[SlotFrom(h, i)]
<1>1. N \in Nat \ {0} /\ Slots = 0 .. N - 1
  BY ConstantsAssumption DEF Slots
<1>2. g = IF k = N THEN (IF h + 1 = N THEN 0 ELSE h + 1) ELSE h
  BY SuccSlot
<1> DEFINE j == SlotFrom(g, i)
<1>3. j = IF g + (i - 1) >= N THEN g + (i - 1) - N ELSE g + (i - 1)
  BY DEF SlotFrom
<1>4. /\ SlotFrom(h, i) = IF h + (i - 1) >= N THEN h + (i - 1) - N ELSE h + (i - 1)
      /\ SlotFrom(h, i + 1) = IF h + i >= N THEN h + i - N ELSE h + i
  <2>1. i + 1 - 1 = i
    BY <1>1
  <2> QED BY <2>1 DEF SlotFrom
<1> HIDE DEF j
<1>5. CASE i = m
  <2>1. j = t
    BY <1>1, <1>2, <1>3, <1>5
  <2> QED BY <1>5, <2>1 DEF j
<1>6. CASE i # m /\ k = N
  <2>1. j # t /\ j \in Slots /\ j = SlotFrom(h, i + 1)
    BY <1>1, <1>2, <1>3, <1>4, <1>6
  <2> QED BY <1>6, <2>1 DEF j
<1>7. CASE i # m /\ k # N
  <2>1. j # t /\ j \in Slots /\ j = SlotFrom(h, i)
    BY <1>1, <1>2, <1>3, <1>4, <1>7
  <2> QED BY <1>7, <2>1 DEF j
<1> QED BY <1>5, <1>6, <1>7

(* So log_add puts the new event at the end of the log.                    *)
LEMMA EnqueueAppends ==
    ASSUME TypeOK, RingOK(plog), NEW e \in Events, Enqueue(e),
           NEW i \in 1 .. plog'.cnt
    PROVE  EntryAt(plog', i) =
               IF i = plog'.cnt THEN e
               ELSE IF plog.cnt = N THEN EntryAt(plog, i + 1) ELSE EntryAt(plog, i)
<1>1. /\ plog.head \in Slots /\ plog.tail \in Slots /\ plog.cnt \in 0 .. N
      /\ plog.entry \in [Slots -> Events]
  BY DEF TypeOK, Images
<1>2. plog.head + plog.cnt = plog.tail \/ plog.head + plog.cnt = plog.tail + N
  BY DEF RingOK
<1>3. /\ plog'.entry = [plog.entry EXCEPT ![plog.tail] = e]
      /\ plog'.head = IF plog.cnt = N THEN Succ(plog.head) ELSE plog.head
      /\ plog'.cnt = IF plog.cnt = N THEN N ELSE plog.cnt + 1
  BY DEF Enqueue
<1> QED BY <1>1, <1>2, <1>3, WindowMoves DEF EntryAt

(* So logging the next event keeps the ring in order.                      *)
LEMMA EnqueueInOrder ==
    ASSUME TypeOK, RingOK(plog), InOrder(plog, next), next \in Events, Enqueue(next)
    PROVE  InOrder(plog', next + 1)
<1>1. N \in Nat \ {0} /\ next \in Nat /\ next > 0 /\ plog.cnt \in 0 .. N /\ MaxEvent \in Nat
  BY ConstantsAssumption DEF TypeOK, Images
<1>2. plog'.cnt = IF plog.cnt = N THEN N ELSE plog.cnt + 1
  BY DEF Enqueue
<1>3. \A i \in 1 .. plog.cnt : EntryAt(plog, i) \in Nat
  BY <1>1, EntryAtType DEF TypeOK, Events
<1> DEFINE m == plog'.cnt
           was(i) == IF plog.cnt = N THEN i + 1 ELSE i
<1>4. \A i \in 1 .. m : EntryAt(plog', i) = IF i = m THEN next ELSE EntryAt(plog, was(i))
  BY EnqueueAppends
<1>5. /\ m \in 1 .. N
      /\ \A i \in 1 .. m - 1 : was(i) \in 1 .. plog.cnt
      /\ \A i \in 1 .. m - 1 : i + 1 # m => was(i) < plog.cnt /\ was(i + 1) = was(i) + 1
  BY <1>1, <1>2
<1> HIDE DEF m, was
<1>6. SUFFICES ASSUME NEW i \in 1 .. m
               PROVE  /\ 0 < EntryAt(plog', i) /\ EntryAt(plog', i) < next + 1
                      /\ i < m => EntryAt(plog', i) < EntryAt(plog', i + 1)
  BY DEF InOrder, m
<1>7. CASE i = m
  BY <1>1, <1>4, <1>5, <1>7
<1>8. CASE i # m
  <2>1. i \in 1 .. m - 1 /\ i + 1 \in 1 .. m
    BY <1>5, <1>8
  <2>2. EntryAt(plog', i) = EntryAt(plog, was(i)) /\ was(i) \in 1 .. plog.cnt
    BY <1>4, <1>5, <1>8, <2>1
  <2>3. 0 < EntryAt(plog, was(i)) /\ EntryAt(plog, was(i)) < next
    BY <2>2 DEF InOrder
  <2>4. EntryAt(plog, was(i)) < EntryAt(plog', i + 1)
    <3>1. CASE i + 1 = m
      BY <1>4, <2>1, <2>3, <3>1
    <3>2. CASE i + 1 # m
      BY <1>4, <1>5, <2>1, <2>2, <3>2 DEF InOrder
    <3> QED BY <3>1, <3>2
  <2> QED BY <1>1, <1>3, <2>2, <2>3, <2>4
<1> QED BY <1>7, <1>8

(* What was in order stays in order when more events happen.               *)
LEMMA InOrderGrows ==
    ASSUME NEW image \in Images, NEW n \in Nat, InOrder(image, n)
    PROVE  InOrder(image, n + 1)
<1>1. \A i \in 1 .. image.cnt : EntryAt(image, i) \in Int
  BY EntryAtType, ConstantsAssumption DEF Events
<1> QED BY <1>1 DEF InOrder

(* An empty image is in order.                                             *)
LEMMA EmptyInOrder ==
    ASSUME NEW image, image.cnt = 0, NEW n
    PROVE  InOrder(image, n)
BY DEF InOrder

(* Every step keeps the order: images are copied whole, or take the next    *)
(* event at their end, or are emptied.                                     *)
LEMMA NextOrder == IInv /\ OrderInv /\ [Next]_vars => OrderInv'
<1> SUFFICES ASSUME IInv, OrderInv, [Next]_vars PROVE OrderInv'
  OBVIOUS
<1>1. TypeOK /\ RingOK(plog)
  BY DEF IInv, RingsConsistent
<1>2. plog \in Images /\ temp \in Images /\ file \in Images /\ saved \in Images
      /\ next \in Nat
  BY <1>1, ConstantsAssumption DEF TypeOK
<1>3. InOrder(plog, next) /\ InOrder(temp, next) /\ InOrder(file, next)
      /\ InOrder(saved, next)
  BY DEF OrderInv
<1>4. ASSUME next <= MaxEvent, Enqueue(next), next' = next + 1,
             temp' = temp, file' = file, saved' = saved
      PROVE  OrderInv'
  <2>1. next \in Events
    BY <1>1, <1>4, ConstantsAssumption DEF TypeOK, Events
  <2>2. InOrder(plog', next + 1)
    BY <1>1, <1>3, <1>4, <2>1, EnqueueInOrder
  <2>3. InOrder(temp, next + 1) /\ InOrder(file, next + 1) /\ InOrder(saved, next + 1)
    BY <1>2, <1>3, InOrderGrows
  <2> QED BY <1>4, <2>2, <2>3 DEF OrderInv
<1>5. CASE LogAdd
  BY <1>4, <1>5 DEF LogAdd, flashVars
<1>6. CASE LogClear
  <2>1. plog'.cnt = 0
    BY <1>2, <1>6 DEF LogClear, Images
  <2> QED BY <1>3, <1>6, <2>1, EmptyInOrder DEF LogClear, OrderInv, flashVars
<1>7. CASE Snapshot
  BY <1>3, <1>7 DEF Snapshot, OrderInv
<1>8. CASE WriteFile \/ SaveTable
  BY <1>3, <1>8 DEF WriteFile, SaveTable, OrderInv
<1>9. ASSUME NEW c \in Conns, ConnectDuringAdd(c) PROVE OrderInv'
  BY <1>4, <1>9 DEF ConnectDuringAdd, flashVars
<1>10. ASSUME NEW c \in Conns,
              \/ Connect(c) \/ Disconnect(c) \/ Rewind(c)
              \/ SendCheck(c) \/ SendBegin(c) \/ SendEntry(c) \/ ConnectDuringEntry(c)
              \/ \E enable \in BOOLEAN : TransLog(c, enable)
       PROVE  OrderInv'
  BY <1>3, <1>10 DEF Connect, Disconnect, Rewind, SendCheck, SendBegin, SendEntry,
                     ConnectDuringEntry, TransLog, OrderInv, flashVars
<1>11. CASE SendDone
  BY <1>3, <1>11 DEF SendDone, OrderInv, flashVars
<1>12. CASE Restart
  <2>1. CASE plog' = saved
    BY <1>3, <1>12, <2>1 DEF Restart, OrderInv
  <2>2. CASE plog' = [saved EXCEPT !.head = 0, !.tail = 0, !.cnt = 0]
    <3>1. plog'.cnt = 0
      BY <1>2, <2>2 DEF Images
    <3> QED BY <1>3, <1>12, <3>1, EmptyInOrder DEF Restart, OrderInv
  <2> QED BY <1>12, <2>1, <2>2 DEF Restart
<1>13. CASE UNCHANGED vars
  BY <1>3, <1>13 DEF vars, OrderInv
<1> QED BY <1>5, <1>6, <1>7, <1>8, <1>9, <1>10, <1>11, <1>12, <1>13 DEF Next

(* The log and the file that log_update_flash writes hold the events in the *)
(* order they happened, for any size of the ring, however often it wraps,   *)
(* is cleared, or is read back after a loss of power.                      *)
THEOREM LogStaysInOrder == Spec => []LogInOrder
<1>1. Init => OrderInv
  <2> SUFFICES ASSUME Init PROVE OrderInv
    OBVIOUS
  <2>1. plog.cnt = 0 /\ temp.cnt = 0 /\ file.cnt = 0 /\ saved.cnt = 0
    BY DEF Init, Blank
  <2> QED BY <2>1, EmptyInOrder DEF OrderInv
<1>2. IInv /\ OrderInv => LogInOrder
  BY InOrderOrdered DEF IInv, TypeOK, OrderInv, LogInOrder
<1> QED BY <1>1, <1>2, InitIInv, NextIInv, NextOrder, PTL DEF Spec
-----------------------------------------------------------------------------
(* The implementation of EventQueue.  The contents of an image, and what is *)
(* still to be sent to a connection, are windows of the ring as sequences.  *)
Window(entry, h, k) == [i \in 1 .. k |-> entry[(h + i - 1) % N]]

LEMMA WindowIsSeq ==
    ASSUME NEW entry \in [Slots -> Events], NEW h \in Slots, NEW k \in 0 .. N
    PROVE  /\ Window(entry, h, k) \in Seq(Events)
           /\ Len(Window(entry, h, k)) = k
           /\ \A i \in 1 .. k : Window(entry, h, k)[i] = entry[SlotFrom(h, i)]
<1>1. N \in Nat \ {0} /\ k \in Nat
  BY ConstantsAssumption
<1>2. \A i \in 1 .. k : /\ SlotFrom(h, i) \in Slots
                        /\ SlotFrom(h, i) = (h + i - 1) % N
  BY <1>1, SlotFromType
<1>3. \A i \in 1 .. k : entry[(h + i - 1) % N] \in Events
  BY <1>2
<1>4. Window(entry, h, k) \in Seq(Events) /\ Len(Window(entry, h, k)) = k
  BY <1>1, <1>3 DEF Window
<1>5. \A i \in 1 .. k : Window(entry, h, k)[i] = entry[SlotFrom(h, i)]
  BY <1>2 DEF Window
<1> QED BY <1>4, <1>5

(* The contents of an image, and what is pending, are such windows.        *)
LEMMA ContentsIsWindow ==
    ASSUME NEW image
    PROVE  Contents(image) = Window(image.entry, image.head, image.cnt)
BY DEF Contents, Window

LEMMA PendingIsWindow ==
    ASSUME NEW c
    PROVE  PendingOf(c) = Window(plog.entry, cursor[c], num[c])
BY DEF PendingOf, Window

(* log_add appends to a window that ends at the tail, and keeps the last N. *)
LEMMA WindowAppends ==
    ASSUME NEW entry \in [Slots -> Events], NEW h \in Slots, NEW t \in Slots,
           NEW k \in 0 .. N, h + k = t \/ h + k = t + N, NEW e \in Events,
           NEW g, g = IF k = N THEN Succ(h) ELSE h,
           NEW m, m = IF k = N THEN N ELSE k + 1
    PROVE  Window([entry EXCEPT ![t] = e], g, m)
               = Queue!LastOf(Append(Window(entry, h, k), e), N)
<1>1. N \in Nat \ {0} /\ k \in Nat /\ m \in 0 .. N
  BY ConstantsAssumption
<1>2. g \in Slots
  BY <1>1, SuccSlot DEF Slots
<1> DEFINE written == [entry EXCEPT ![t] = e]
           s == Window(entry, h, k)
           u == Window(written, g, m)
           a == Append(s, e)
<1>3. s \in Seq(Events) /\ Len(s) = k /\ \A i \in 1 .. k : s[i] = entry[SlotFrom(h, i)]
  BY WindowIsSeq
<1>4. written \in [Slots -> Events]
  OBVIOUS
<1>5. \A i \in 1 .. m :
          written[SlotFrom(g, i)] = IF i = m THEN e
                                    ELSE IF k = N THEN entry[SlotFrom(h, i + 1)]
                                    ELSE entry[SlotFrom(h, i)]
  <2> TAKE i \in 1 .. m
  <2> QED BY WindowMoves
<1> HIDE DEF written, s
<1>6. /\ u \in Seq(Events) /\ Len(u) = m
      /\ \A i \in 1 .. m : u[i] = written[SlotFrom(g, i)]
  BY <1>1, <1>2, <1>4, WindowIsSeq
<1> HIDE DEF u
<1>7. \A i \in 1 .. m : u[i] = IF i = m THEN e ELSE IF k = N THEN s[i + 1] ELSE s[i]
  <2> TAKE i \in 1 .. m
  <2>1. i # m => IF k = N THEN i + 1 \in 1 .. k ELSE i \in 1 .. k
    BY <1>1
  <2> QED BY <1>3, <1>5, <1>6, <2>1
<1>8. a \in Seq(Events) /\ Len(a) = k + 1
      /\ \A i \in 1 .. k + 1 : a[i] = IF i = k + 1 THEN e ELSE s[i]
  BY <1>1, <1>3
<1> HIDE DEF a
<1>9. CASE k = N
  <2> DEFINE v == SubSeq(a, 2, N + 1)
  <2>1. Queue!LastOf(a, N) = v
    <3>1. ~(Len(a) <= N) /\ Len(a) - N + 1 = 2
      BY <1>1, <1>8, <1>9
    <3> QED BY <1>8, <1>9, <3>1 DEF Queue!LastOf
  <2>2. \A i \in 2 .. N + 1 : a[i] \in Events
    BY <1>1, <1>8, <1>9, ElementOfSeq
  <2>3. v \in Seq(Events) /\ Len(v) = N /\ \A i \in 1 .. N : v[i] = a[i + 1]
    <3>1. /\ v \in Seq(Events)
          /\ Len(v) = IF 2 <= N + 1 THEN N + 1 - 2 + 1 ELSE 0
          /\ \A i \in 1 .. N + 1 - 2 + 1 : v[i] = a[2 + i - 1]
      BY <1>1, <2>2, SubSeqProperties
    <3> HIDE DEF v
    <3>2. \A i \in 1 .. N : 2 + i - 1 = i + 1
      BY <1>1
    <3> QED BY <1>1, <3>1, <3>2
  <2> HIDE DEF v
  <2>4. u = v
    <3>1. Len(u) = Len(v)
      BY <1>6, <1>9, <2>3
    <3>2. \A i \in 1 .. N : u[i] = v[i]
      BY <1>1, <1>7, <1>8, <1>9, <2>3
    <3> QED BY <1>6, <1>9, <2>3, <3>1, <3>2, SeqEqual
  <2> QED BY <2>1, <2>4 DEF u, a, s, written
<1>10. CASE k # N
  <2>1. Queue!LastOf(a, N) = a
    BY <1>1, <1>8, <1>10 DEF Queue!LastOf
  <2>2. u = a
    <3>1. m = k + 1 /\ Len(u) = Len(a)
      BY <1>6, <1>8, <1>10
    <3>2. \A i \in 1 .. m : u[i] = a[i]
      BY <1>1, <1>7, <1>8, <1>10, <3>1
    <3> QED BY <1>6, <1>8, <3>1, <3>2, SeqEqual
  <2> QED BY <2>1, <2>2 DEF u, a, s, written
<1> QED BY <1>9, <1>10

(* A window splits into its first n entries and the others.                 *)
LEMMA WindowSplits ==
    ASSUME NEW entry \in [Slots -> Events], NEW h \in Slots, NEW k \in 0 .. N,
           NEW n \in 0 .. k
    PROVE  /\ Window(entry, h, n) = SubSeq(Window(entry, h, k), 1, n)
           /\ Window(entry, (h + n) % N, k - n) = Queue!Without(Window(entry, h, k), n)
<1>1. N \in Nat \ {0} /\ k \in Nat /\ n \in 0 .. N /\ k - n \in 0 .. N
      /\ Slots = 0 .. N - 1
  BY ConstantsAssumption DEF Slots
<1> DEFINE s == Window(entry, h, k)
           g == (h + n) % N
           w == Window(entry, h, n)
           r == Window(entry, g, k - n)
<1>2. g \in Slots /\ g = IF h + n >= N THEN h + n - N ELSE h + n
  BY <1>1, AdvanceSlot, AdvanceSlotType
<1>3. s \in Seq(Events) /\ Len(s) = k /\ \A i \in 1 .. k : s[i] = entry[SlotFrom(h, i)]
  BY WindowIsSeq
<1>4. w \in Seq(Events) /\ Len(w) = n /\ \A i \in 1 .. n : w[i] = entry[SlotFrom(h, i)]
  BY <1>1, WindowIsSeq
<1> HIDE DEF g
<1>5. r \in Seq(Events) /\ Len(r) = k - n
      /\ \A i \in 1 .. k - n : r[i] = entry[SlotFrom(g, i)]
  BY <1>1, <1>2, WindowIsSeq
<1>6. \A i \in 1 .. k - n : SlotFrom(g, i) = SlotFrom(h, n + i)
  BY <1>1, <1>2 DEF SlotFrom
<1> HIDE DEF s, w, r
<1>7. \A i \in 1 .. k : s[i] \in Events
  BY <1>3, ElementOfSeq
<1>8. w = SubSeq(s, 1, n)
  <2> DEFINE v == SubSeq(s, 1, n)
  <2>1. /\ v \in Seq(Events)
        /\ Len(v) = IF 1 <= n THEN n - 1 + 1 ELSE 0
        /\ \A i \in 1 .. n - 1 + 1 : v[i] = s[1 + i - 1]
    BY <1>1, <1>7, SubSeqProperties
  <2> HIDE DEF v
  <2>2. Len(v) = n /\ \A i \in 1 .. n : v[i] = s[i]
    <3>1. n - 1 + 1 = n /\ \A i \in 1 .. n : 1 + i - 1 = i
      BY <1>1
    <3> QED BY <1>1, <2>1, <3>1
  <2>3. \A i \in 1 .. n : v[i] = w[i]
    BY <1>1, <1>3, <1>4, <2>2
  <2>4. v = w
    BY <1>4, <2>1, <2>2, <2>3, SeqEqual
  <2> QED BY <2>4 DEF v
<1>9. r = Queue!Without(s, n)
  <2> DEFINE v == SubSeq(s, n + 1, k)
  <2>1. /\ v \in Seq(Events)
        /\ Len(v) = IF n + 1 <= k THEN k - (n + 1) + 1 ELSE 0
        /\ \A i \in 1 .. k - (n + 1) + 1 : v[i] = s[n + 1 + i - 1]
    BY <1>1, <1>7, SubSeqProperties
  <2> HIDE DEF v
  <2>2. Len(v) = k - n /\ \A i \in 1 .. k - n : v[i] = s[n + i]
    <3>1. k - (n + 1) + 1 = k - n /\ \A i \in 1 .. k - n : n + 1 + i - 1 = n + i
      BY <1>1
    <3> QED BY <1>1, <2>1, <3>1
  <2>3. \A i \in 1 .. k - n : v[i] = r[i]
    BY <1>1, <1>3, <1>5, <1>6, <2>2
  <2>4. v = r
    BY <1>5, <2>1, <2>2, <2>3, SeqEqual
  <2> QED BY <1>3, <2>4 DEF v, Queue!Without
<1> QED BY <1>8, <1>9 DEF s, w, r, g

(* A window of no entries is the empty sequence.                           *)
LEMMA EmptyWindow ==
    ASSUME NEW entry, NEW h
    PROVE  Window(entry, h, 0) = << >>
<1>1. Window(entry, h, 0) \in Seq({}) /\ Len(Window(entry, h, 0)) = 0
  BY DEF Window
<1> QED BY <1>1, EmptySeq

(* An event is added to the log of EventQueue ...                          *)
LEMMA LogAppends ==
    ASSUME TypeOK, RingOK(plog), NEW e \in Events, Enqueue(e)
    PROVE  Contents(plog') = Queue!LastOf(Append(Contents(plog), e), N)
<1>1. /\ plog.head \in Slots /\ plog.tail \in Slots /\ plog.cnt \in 0 .. N
      /\ plog.entry \in [Slots -> Events]
  BY DEF TypeOK, Images
<1>2. plog.head + plog.cnt = plog.tail \/ plog.head + plog.cnt = plog.tail + N
  BY DEF RingOK
<1>3. /\ plog'.entry = [plog.entry EXCEPT ![plog.tail] = e]
      /\ plog'.head = IF plog.cnt = N THEN Succ(plog.head) ELSE plog.head
      /\ plog'.cnt = IF plog.cnt = N THEN N ELSE plog.cnt + 1
  BY DEF Enqueue
<1>4. Window(plog'.entry, plog'.head, plog'.cnt)
          = Queue!LastOf(Append(Window(plog.entry, plog.head, plog.cnt), e), N)
  BY <1>1, <1>2, <1>3, WindowAppends
<1> QED BY <1>4, ContentsIsWindow

(* ... and to what is pending for every client that follows it.            *)
LEMMA PendingAppends ==
    ASSUME IInv, NEW c \in rewound, NEW e \in Events, Enqueue(e)
    PROVE  Window(plog'.entry, CursorAfter(c), NumAfter(c))
               = Queue!LastOf(Append(PendingOf(c), e), N)
<1>1. /\ cursor[c] \in Slots /\ plog.tail \in Slots /\ num[c] \in 0 .. N
      /\ plog.entry \in [Slots -> Events]
  BY RewoundCursor DEF IInv, TypeOK, Images
<1>2. /\ cursor[c] + num[c] = plog.tail \/ cursor[c] + num[c] = plog.tail + N
      /\ NumAfter(c) = IF num[c] = N THEN N ELSE num[c] + 1
  BY RewoundCursor
<1>3. plog'.entry = [plog.entry EXCEPT ![plog.tail] = e]
  BY DEF Enqueue
<1>4. Window(plog'.entry, CursorAfter(c), NumAfter(c))
          = Queue!LastOf(Append(Window(plog.entry, cursor[c], num[c]), e), N)
  BY <1>1, <1>2, <1>3, WindowAppends DEF CursorAfter
<1> QED BY <1>4, PendingIsWindow

(* What is pending for a rewound slot, as a sequence.                       *)
LEMMA PendingIsSeq ==
    ASSUME IInv, NEW c \in rewound
    PROVE  PendingOf(c) \in Seq(Events) /\ Len(PendingOf(c)) = num[c] /\ num[c] \in 0 .. N
<1>1. cursor[c] \in Slots /\ num[c] \in 0 .. N /\ plog.entry \in [Slots -> Events]
  BY RewoundCursor DEF IInv, TypeOK, Images
<1> QED BY <1>1, PendingIsWindow, WindowIsSeq

(* The whole of a sequence, and its first part followed by the empty one.   *)
LEMMA WholeSeq ==
    ASSUME NEW S, NEW s \in Seq(S)
    PROVE  SubSeq(s, 1, Len(s)) = s /\ s \o SubSeq(s, 1, 0) = s
<1>1. \A i \in 1 .. Len(s) : s[i] \in S
  BY ElementOfSeq
<1> DEFINE v == SubSeq(s, 1, Len(s))
<1>2. /\ v \in Seq(S) /\ Len(v) = IF 1 <= Len(s) THEN Len(s) - 1 + 1 ELSE 0
      /\ \A i \in 1 .. Len(s) - 1 + 1 : v[i] = s[1 + i - 1]
  BY <1>1, LenProperties, SubSeqProperties
<1>3. Len(s) \in Nat
  BY LenProperties
<1> HIDE DEF v
<1>4. Len(v) = Len(s) /\ \A i \in 1 .. Len(s) : v[i] = s[i]
  <2>1. \A i \in 1 .. Len(s) : 1 + i - 1 = i /\ i \in 1 .. Len(s) - 1 + 1
    BY <1>3
  <2> QED BY <1>2, <1>3, <2>1
<1>5. v = s
  BY <1>2, <1>4, SeqEqual
<1>6. SubSeq(s, 1, 0) = << >>
  BY SubSeqProperties, EmptySeq
<1>7. s \o << >> = s
  BY ConcatEmptySeq
<1> QED BY <1>5, <1>6, <1>7 DEF v

(* SubSeqProperties for a sequence that has a name.                        *)
LEMMA PieceProperties ==
    ASSUME NEW S, NEW t, NEW i \in Int, NEW j \in Int, \A e \in i .. j : t[e] \in S,
           NEW x, x = SubSeq(t, i, j)
    PROVE  /\ x \in Seq(S)
           /\ Len(x) = IF i <= j THEN j - i + 1 ELSE 0
           /\ \A e \in 1 .. j - i + 1 : x[e] = t[i + e - 1]
<1>1. SubSeq(t, i, j) \in Seq(S)
  BY SubSeqProperties
<1>2. Len(SubSeq(t, i, j)) = IF i <= j THEN j - i + 1 ELSE 0
  BY SubSeqProperties
<1>3. \A e \in 1 .. j - i + 1 : SubSeq(t, i, j)[e] = t[i + e - 1]
  BY SubSeqProperties
<1>4. x \in Seq(S)
  BY <1>1
<1>5. Len(x) = IF i <= j THEN j - i + 1 ELSE 0
  BY <1>2
<1>6. \A e \in 1 .. j - i + 1 : x[e] = t[i + e - 1]
  BY <1>3
<1> QED BY <1>4, <1>5, <1>6

(* What is left of a sequence without its first element.                   *)
LEMMA RestProperties ==
    ASSUME NEW S, NEW s \in Seq(S), 1 <= Len(s), NEW r, r = SubSeq(s, 2, Len(s))
    PROVE  /\ r \in Seq(S) /\ Len(r) = Len(s) - 1
           /\ \A i \in 1 .. Len(s) - 1 : r[i] = s[i + 1]
<1> DEFINE k == Len(s)
<1>1. k \in Nat /\ k >= 1
  BY LenProperties
<1>2. \A i \in 2 .. k : s[i] \in S
  BY ElementOfSeq
<1> HIDE DEF k
<1>3. /\ SubSeq(s, 2, k) \in Seq(S) /\ Len(SubSeq(s, 2, k)) = IF 2 <= k THEN k - 2 + 1 ELSE 0
      /\ \A i \in 1 .. k - 2 + 1 : SubSeq(s, 2, k)[i] = s[2 + i - 1]
  BY <1>1, <1>2, SubSeqProperties
<1>4. k - 2 + 1 = k - 1 /\ \A i \in 1 .. k - 1 : 2 + i - 1 = i + 1
  BY <1>1
<1>5. /\ r \in Seq(S) /\ Len(r) = IF 2 <= k THEN k - 2 + 1 ELSE 0
      /\ \A i \in 1 .. k - 2 + 1 : r[i] = s[2 + i - 1]
  BY <1>3 DEF k
<1> QED BY <1>1, <1>4, <1>5 DEF k

(* Moving the first entry of what is left to the end of what is filled does *)
(* not change the message.                                                 *)
LEMMA FillOne ==
    ASSUME NEW S, NEW s \in Seq(S), NEW b \in Seq(S), NEW n \in 1 .. Len(s),
           NEW r \in Seq(S), Len(r) = Len(s) - 1,
           \A i \in 1 .. Len(s) - 1 : r[i] = s[i + 1]
    PROVE  /\ Append(b, s[1]) \o SubSeq(r, 1, n - 1) = b \o SubSeq(s, 1, n)
           /\ SubSeq(r, n, Len(s) - 1) = SubSeq(s, n + 1, Len(s))
<1> DEFINE k == Len(s)
           m == Len(b)
<1>1. k \in Nat /\ m \in Nat /\ n \in 1 .. k
  BY LenProperties
<1>2. /\ \A i \in 1 .. k : s[i] \in S
      /\ \A i \in 1 .. m : b[i] \in S
  BY ElementOfSeq
<1>3. r \in Seq(S) /\ Len(r) = k - 1 /\ \A i \in 1 .. k - 1 : r[i] = s[i + 1]
  OBVIOUS
<1>4. \A i \in 1 .. k - 1 : r[i] \in S
  BY <1>3, ElementOfSeq
<1> HIDE DEF k, m
<1> DEFINE p == SubSeq(s, 1, n)
           q == SubSeq(r, 1, n - 1)
           x == SubSeq(r, n, k - 1)
           y == SubSeq(s, n + 1, k)
           a == Append(b, s[1])
<1>5. p \in Seq(S) /\ Len(p) = n /\ \A i \in 1 .. n : p[i] = s[i]
  <2>1. /\ p \in Seq(S) /\ Len(p) = IF 1 <= n THEN n - 1 + 1 ELSE 0
        /\ \A i \in 1 .. n - 1 + 1 : p[i] = s[1 + i - 1]
    BY <1>1, <1>2, SubSeqProperties
  <2>2. n - 1 + 1 = n /\ \A i \in 1 .. n : 1 + i - 1 = i
    BY <1>1
  <2> QED BY <1>1, <2>1, <2>2
<1>6. q \in Seq(S) /\ Len(q) = n - 1 /\ \A i \in 1 .. n - 1 : q[i] = s[i + 1]
  <2>1. /\ q \in Seq(S) /\ Len(q) = IF 1 <= n - 1 THEN n - 1 - 1 + 1 ELSE 0
        /\ \A i \in 1 .. n - 1 - 1 + 1 : q[i] = r[1 + i - 1]
    BY <1>1, <1>4, SubSeqProperties
  <2>2. n - 1 - 1 + 1 = n - 1 /\ \A i \in 1 .. n - 1 : 1 + i - 1 = i /\ i \in 1 .. k - 1
    BY <1>1
  <2> QED BY <1>1, <1>3, <2>1, <2>2
<1>7. x \in Seq(S) /\ Len(x) = k - n /\ \A i \in 1 .. k - n : x[i] = s[n + i]
  <2>0. n \in Int /\ k - 1 \in Int /\ \A i \in n .. k - 1 : i \in 1 .. k - 1
    BY <1>1
  <2>1. /\ x \in Seq(S) /\ Len(x) = IF n <= k - 1 THEN k - 1 - n + 1 ELSE 0
        /\ \A i \in 1 .. k - 1 - n + 1 : x[i] = r[n + i - 1]
    <3>1. \A i \in n .. k - 1 : r[i] \in S
      BY <1>4, <2>0
    <3> DEFINE l == k - 1
    <3>2. l \in Int /\ n \in Int /\ (\A i \in n .. l : r[i] \in S) /\ x = SubSeq(r, n, l)
      BY <2>0, <3>1
    <3> HIDE DEF l, x
    <3>3. /\ x \in Seq(S)
          /\ Len(x) = IF n <= l THEN l - n + 1 ELSE 0
          /\ \A i \in 1 .. l - n + 1 : x[i] = r[n + i - 1]
      BY <3>2, PieceProperties
    <3> QED BY <3>3 DEF l
  <2>2. /\ k - 1 - n + 1 = k - n
        /\ \A i \in 1 .. k - n : n + i - 1 \in 1 .. k - 1 /\ n + i - 1 + 1 = n + i
    BY <1>1
  <2> QED BY <1>1, <1>3, <2>1, <2>2
<1>8. y \in Seq(S) /\ Len(y) = k - n /\ \A i \in 1 .. k - n : y[i] = s[n + i]
  <2>1. /\ y \in Seq(S) /\ Len(y) = IF n + 1 <= k THEN k - (n + 1) + 1 ELSE 0
        /\ \A i \in 1 .. k - (n + 1) + 1 : y[i] = s[n + 1 + i - 1]
    BY <1>1, <1>2, SubSeqProperties
  <2>2. k - (n + 1) + 1 = k - n /\ \A i \in 1 .. k - n : n + 1 + i - 1 = n + i
    BY <1>1
  <2> QED BY <1>1, <2>1, <2>2
<1>9. a \in Seq(S) /\ Len(a) = m + 1
      /\ \A i \in 1 .. m + 1 : a[i] = IF i = m + 1 THEN s[1] ELSE b[i]
  <2>1. /\ s[1] \in S /\ m = Len(b) /\ m \in Nat
    BY <1>1, <1>2 DEF m
  <2>2. /\ a \in Seq(S) /\ Len(a) = m + 1 /\ a[m + 1] = s[1]
        /\ \A i \in 1 .. m : a[i] = b[i]
    BY <2>1, AppendProperties
  <2> HIDE DEF a
  <2>3. \A i \in 1 .. m + 1 : i = m + 1 \/ i \in 1 .. m
    BY <2>1
  <2>4. m + 1 \notin 1 .. m
    BY <2>1
  <2> QED BY <2>2, <2>3, <2>4
<1> HIDE DEF p, q, x, y, a
<1>10. x = y
  BY <1>7, <1>8, SeqEqual
<1>11. a \o q = b \o p
  <2> DEFINE u == a \o q
             v == b \o p
  <2>1. /\ u \in Seq(S) /\ Len(u) = m + 1 + (n - 1)
        /\ \A i \in 1 .. m + 1 + (n - 1) :
              u[i] = IF i <= m + 1 THEN a[i] ELSE q[i - (m + 1)]
    <3>1. /\ a \in Seq(S) /\ q \in Seq(S) /\ Len(a) = m + 1 /\ Len(q) = n - 1
      BY <1>6, <1>9
    <3>2. /\ u \in Seq(S) /\ Len(u) = Len(a) + Len(q)
          /\ \A i \in 1 .. Len(a) + Len(q) :
                u[i] = IF i <= Len(a) THEN a[i] ELSE q[i - Len(a)]
      BY <3>1, ConcatProperties
    <3> QED BY <3>1, <3>2
  <2>2. /\ v \in Seq(S) /\ Len(v) = m + n
        /\ \A i \in 1 .. m + n : v[i] = IF i <= m THEN b[i] ELSE p[i - m]
    BY <1>5, ConcatProperties DEF m
  <2> HIDE DEF u, v
  <2>3. \A i \in 1 .. m + n : u[i] = v[i]
    <3> TAKE i \in 1 .. m + n
    <3>1. CASE i <= m
      BY <1>1, <1>9, <2>1, <2>2, <3>1
    <3>2. CASE i = m + 1
      <4>1. /\ i \in 1 .. m + 1 + (n - 1) /\ i \in 1 .. m + 1 /\ i <= m + 1
            /\ ~(i <= m) /\ i - m = 1 /\ 1 \in 1 .. n
        BY <1>1, <3>2
      <4>2. u[i] = s[1]
        BY <1>9, <2>1, <3>2, <4>1
      <4>3. v[i] = s[1]
        BY <1>5, <2>2, <4>1
      <4> QED BY <4>2, <4>3
    <3>3. CASE i > m + 1
      <4>1. /\ i - (m + 1) \in 1 .. n - 1 /\ i - m \in 1 .. n
            /\ i - (m + 1) + 1 = i - m /\ ~(i <= m + 1) /\ ~(i <= m)
            /\ i \in 1 .. m + 1 + (n - 1)
        BY <1>1, <3>3
      <4> QED BY <1>5, <1>6, <2>1, <2>2, <4>1
    <3> QED BY <1>1, <3>1, <3>2, <3>3
  <2>4. Len(u) = Len(v)
    BY <1>1, <2>1, <2>2
  <2>5. u = v
    BY <2>1, <2>2, <2>3, <2>4, SeqEqual
  <2> QED BY <2>5 DEF u, v
<1> QED BY <1>10, <1>11 DEF k, p, q, x, y, a

(* While log_sem is free no message is being filled, and everything that a  *)
(* rewound cursor has ahead of it is pending.                              *)
LEMMA UnlockedState ==
    ASSUME IInv, Unlocked
    PROVE  /\ \A c \in rewound : Pending[c] = PendingOf(c)
           /\ Pending = [c \in Conns |-> IF c \in rewound THEN PendingOf(c) ELSE << >>]
           /\ Batch = [c \in Conns |-> IF SentTo(c) THEN buf ELSE << >>]
<1>1. \A c \in Conns : ~FillingFor(c) /\ Left(c) = 0
  BY DEF Unlocked, FillingFor, Left
<1>2. rewound \subseteq Conns
  BY DEF IInv, TypeOK
<1>3. \A c \in rewound : SubSeq(PendingOf(c), Left(c) + 1, num[c]) = PendingOf(c)
  <2> TAKE c \in rewound
  <2>1. PendingOf(c) \in Seq(Events) /\ Len(PendingOf(c)) = num[c] /\ Left(c) + 1 = 1
    BY <1>1, <1>2, PendingIsSeq
  <2> QED BY <2>1, WholeSeq
<1> QED BY <1>1, <1>2, <1>3 DEF Pending, Batch

UnlockedPending ==
    IInv /\ Unlocked =>
        Pending = [c \in Conns |-> IF c \in rewound THEN PendingOf(c) ELSE << >>]

(* The part of it that is also used in the next state.                     *)
LEMMA UnlockedPendingHolds == UnlockedPending
BY UnlockedState DEF UnlockedPending

(* A step that leaves the sender and the slots alone leaves the messages.   *)
LEMMA BatchStays ==
    ASSUME IInv, Unlocked, sender' = sender, buf' = buf
    PROVE  Batch' = Batch
<1>1. \A c \in Conns : ~FillingFor(c)
  BY DEF Unlocked, FillingFor
<1>2. \A c \in Conns : ~FillingFor(c)' /\ SentTo(c)' = SentTo(c)
  BY DEF Unlocked, FillingFor, SentTo
<1> QED BY <1>1, <1>2 DEF Batch

(* Each step of the code is a step of EventQueue or changes nothing of it.  *)
LEMMA NextSimulated == IInv /\ [Next]_vars => [Queue!Next]_(Queue!qvars)
<1> SUFFICES ASSUME IInv, [Next]_vars PROVE [Queue!Next]_(Queue!qvars)
  OBVIOUS
<1>i. IInv'
  BY NextIInv
<1>a. TypeOK /\ RingOK(plog) /\ BufferEmpty
  BY DEF IInv, RingsConsistent
<1>b. next <= MaxEvent => next \in Events
  BY <1>a, ConstantsAssumption DEF TypeOK, Events
<1>c. rewound \subseteq Conns /\ rewound' \subseteq Conns
  BY <1>a, <1>i DEF IInv, TypeOK
<1>u. Unlocked => Pending = [c \in Conns |-> IF c \in rewound THEN PendingOf(c) ELSE << >>]
  BY UnlockedState
<1>v. Unlocked' => Pending' = [c \in Conns |-> IF c \in rewound' THEN PendingOf(c)' ELSE << >>]
  <2>1. UnlockedPending'
    BY UnlockedPendingHolds, PTL
  <2> QED BY <1>i, <2>1 DEF UnlockedPending
<1>1. CASE LogAdd
  <2>1. Contents(plog)' = Queue!LastOf(Append(Contents(plog), next), N)
    BY <1>1, <1>a, <1>b, LogAppends DEF LogAdd
  <2>2. \A c \in rewound : PendingOf(c)' = Queue!LastOf(Append(PendingOf(c), next), N)
    <3> TAKE c \in rewound
    <3>1. cursor'[c] = CursorAfter(c) /\ num'[c] = NumAfter(c)
      BY <1>1, <1>c DEF LogAdd
    <3>2. PendingOf(c)' = Window(plog'.entry, cursor'[c], num'[c])
      BY DEF PendingOf, Window
    <3> QED BY <1>1, <1>b, <3>1, <3>2, PendingAppends DEF LogAdd
  <2>3. Contents(temp)' = Contents(temp) /\ Contents(file)' = Contents(file)
        /\ Contents(saved)' = Contents(saved) /\ rewound' = rewound
    BY <1>1 DEF LogAdd, flashVars, connVars, Contents
  <2>4. Unlocked /\ Unlocked' /\ Batch' = Batch
    BY <1>1, BatchStays DEF LogAdd, sendVars, Unlocked
  <2>5. Pending' = [c \in Conns |->
                      IF c \in rewound THEN Queue!LastOf(Append(Pending[c], next), N)
                      ELSE << >>]
    BY <1>u, <1>v, <2>2, <2>3, <2>4
  <2>6. Queue!AddEvent
    BY <1>1, <2>1, <2>3, <2>4, <2>5 DEF Queue!AddEvent, Queue!flashVars, LogAdd
  <2> QED BY <2>6 DEF Queue!Next
<1>2. CASE LogClear
  <2>1. plog'.cnt = 0
    BY <1>2, <1>a DEF LogClear, TypeOK, Images
  <2>2. Contents(plog)' = << >>
    <3>1. Contents(plog)' = Window(plog'.entry, plog'.head, 0)
      BY <2>1 DEF Contents, Window
    <3> QED BY <3>1, EmptyWindow
  <2>3. \A c \in rewound : PendingOf(c)' = << >>
    <3> TAKE c \in rewound
    <3>1. num'[c] = 0
      BY <1>2, <1>c DEF LogClear
    <3>2. PendingOf(c)' = Window(plog'.entry, cursor'[c], 0)
      BY <3>1 DEF PendingOf, Window
    <3> QED BY <3>2, EmptyWindow
  <2>4. Contents(temp)' = Contents(temp) /\ Contents(file)' = Contents(file)
        /\ Contents(saved)' = Contents(saved) /\ rewound' = rewound
    BY <1>2 DEF LogClear, flashVars, connVars, Contents
  <2>5. Unlocked /\ Unlocked' /\ Batch' = Batch
    BY <1>2, BatchStays DEF LogClear, sendVars, Unlocked
  <2>6. Pending' = [c \in Conns |-> << >>]
    BY <1>v, <2>3, <2>4, <2>5
  <2>7. Queue!Clear
    BY <1>2, <2>2, <2>4, <2>5, <2>6 DEF Queue!Clear, Queue!flashVars, Queue!Nobody, LogClear
  <2> QED BY <2>7 DEF Queue!Next
<1>3. ASSUME UNCHANGED <<plog, next, cursor, num, rewound, sender, buf>>
      PROVE  /\ Contents(plog)' = Contents(plog) /\ next' = next /\ rewound' = rewound
             /\ Pending' = Pending /\ Batch' = Batch
  <2>1. \A c \in Conns : /\ PendingOf(c)' = PendingOf(c) /\ Left(c)' = Left(c)
                         /\ FillingFor(c)' = FillingFor(c) /\ SentTo(c)' = SentTo(c)
    BY <1>3 DEF PendingOf, Left, FillingFor, SentTo
  <2> QED BY <1>3, <2>1 DEF Pending, Batch, Contents
<1>4. CASE Snapshot
  <2>1. UNCHANGED <<plog, next, cursor, num, rewound, sender, buf>>
    BY <1>4 DEF Snapshot, connVars, sendVars
  <2>2. /\ Contents(temp)' = Contents(plog)
        /\ Contents(file)' = Contents(file) /\ Contents(saved)' = Contents(saved)
    BY <1>4 DEF Snapshot, Contents
  <2>3. Queue!Stage
    BY <1>3, <2>1, <2>2 DEF Queue!Stage, Queue!memoryVars
  <2> QED BY <2>3 DEF Queue!Next
<1>5. CASE WriteFile
  <2>1. UNCHANGED <<plog, next, cursor, num, rewound, sender, buf>>
    BY <1>5 DEF WriteFile, connVars, sendVars
  <2>2. /\ Contents(file)' = Contents(temp)
        /\ Contents(temp)' = Contents(temp) /\ Contents(saved)' = Contents(saved)
    BY <1>5 DEF WriteFile, Contents
  <2>3. Queue!Write
    BY <1>3, <2>1, <2>2 DEF Queue!Write, Queue!memoryVars
  <2> QED BY <2>3 DEF Queue!Next
<1>6. CASE SaveTable
  <2>1. UNCHANGED <<plog, next, cursor, num, rewound, sender, buf>>
    BY <1>6 DEF SaveTable, connVars, sendVars
  <2>2. /\ Contents(saved)' = Contents(file)
        /\ Contents(temp)' = Contents(temp) /\ Contents(file)' = Contents(file)
    BY <1>6 DEF SaveTable, Contents
  <2>3. Queue!Save
    BY <1>3, <2>1, <2>2 DEF Queue!Save, Queue!memoryVars
  <2> QED BY <2>3 DEF Queue!Next
\* A slot that is reset is not followed any more; the others are not affected.
<1>7. ASSUME NEW c \in Conns, TakeSlot(c), plog' = plog, UNCHANGED flashVars, next' = next,
             \A d \in Conns \ {c} : cursor'[d] = cursor[d] /\ num'[d] = num[d],
             (sender' = sender /\ buf' = buf) \/ (EntryFilled(c, FALSE) /\ FillingFor(c))
      PROVE  [Queue!Next]_(Queue!qvars)
  <2>1. Contents(plog)' = Contents(plog) /\ Contents(temp)' = Contents(temp)
        /\ Contents(file)' = Contents(file) /\ Contents(saved)' = Contents(saved)
    BY <1>7 DEF flashVars, Contents
  <2>2. rewound' = rewound \ {c}
    BY <1>7 DEF TakeSlot
  <2>3. \A d \in Conns \ {c} : PendingOf(d)' = PendingOf(d)
    BY <1>7 DEF PendingOf
  <2>4. \A d \in Conns \ {c} : /\ FillingFor(d)' = FillingFor(d) /\ Left(d)' = Left(d)
                               /\ SentTo(d)' = SentTo(d)
                               /\ FillingFor(d) \/ SentTo(d) => buf' = buf
    <3>1. CASE sender' = sender /\ buf' = buf
      BY <3>1 DEF FillingFor, Left, SentTo
    <3>2. CASE EntryFilled(c, FALSE) /\ FillingFor(c)
      <4>1. sender.at = "fill" /\ sender.conn = c
        BY <3>2 DEF FillingFor
      <4>2. sender'.at = "fill" => sender'.conn = c
        <5>1. CASE sender.left = 1
          BY <3>2, <5>1 DEF EntryFilled
        <5>2. CASE sender.left # 1
          <6>1. sender \in [at : {"fill"}, conn : Conns, left : 1 .. SendMax]
            BY <1>a, <4>1 DEF TypeOK, Senders, Idle
          <6> QED BY <3>2, <4>1, <5>2, <6>1 DEF EntryFilled
        <5> QED BY <5>1, <5>2
      <4>3. ~(sender'.at = "send" /\ sender'.conn # c)
        <5>1. CASE sender.left = 1
          BY <3>2, <5>1 DEF EntryFilled
        <5>2. CASE sender.left # 1
          <6>1. sender \in [at : {"fill"}, conn : Conns, left : 1 .. SendMax]
            BY <1>a, <4>1 DEF TypeOK, Senders, Idle
          <6> QED BY <3>2, <4>1, <5>2, <6>1 DEF EntryFilled
        <5> QED BY <5>1, <5>2
      <4> QED BY <4>1, <4>2, <4>3 DEF FillingFor, Left, SentTo
    <3> QED BY <1>7, <3>1, <3>2
  <2>5. Pending' = [Pending EXCEPT ![c] = << >>]
    BY <1>7, <2>2, <2>3, <2>4 DEF Pending
  <2>6. Batch'[c] \in {Batch[c], << >>}
    <3>1. CASE sender' = sender /\ buf' = buf
      <4>1. SentTo(c)' = SentTo(c)
        BY <3>1 DEF SentTo
      <4>2. SentTo(c) => ~FillingFor(c)
        BY DEF SentTo, FillingFor
      <4>3. c \notin rewound'
        BY <2>2
      <4> QED BY <3>1, <4>1, <4>2, <4>3 DEF Batch
    <3>2. CASE EntryFilled(c, FALSE) /\ FillingFor(c)
      <4>1. sender \in [at : {"fill"}, conn : Conns, left : 1 .. SendMax]
        BY <1>a, <3>2 DEF TypeOK, Senders, Idle, FillingFor
      <4>2. ~SentTo(c)'
        BY <3>2, <4>1 DEF EntryFilled, SentTo
      <4> QED BY <2>2, <4>2 DEF Batch
    <3> QED BY <1>7, <3>1, <3>2
  <2>7. Batch' \in {Batch, [Batch EXCEPT ![c] = << >>]}
    <3>1. \A d \in Conns \ {c} : Batch'[d] = Batch[d]
      BY <2>2, <2>3, <2>4 DEF Batch
    <3>2. Batch \in [Conns -> {Batch[d] : d \in Conns}] /\ Batch' = [d \in Conns |-> Batch'[d]]
          /\ Batch = [d \in Conns |-> Batch[d]]
      BY DEF Batch
    <3>3. CASE Batch'[c] = Batch[c]
      <4>1. \A d \in Conns : Batch'[d] = Batch[d]
        BY <3>1, <3>3
      <4> QED BY <3>2, <4>1
    <3>4. CASE Batch'[c] = << >>
      <4>1. \A d \in Conns : Batch'[d] = IF d = c THEN << >> ELSE Batch[d]
        BY <3>1, <3>4
      <4>2. [Batch EXCEPT ![c] = << >>] = [d \in Conns |-> IF d = c THEN << >> ELSE Batch[d]]
        BY <3>2
      <4> QED BY <3>2, <4>1, <4>2
    <3> QED BY <2>6, <3>3, <3>4
  <2>8. Queue!Unfollow(c)
    BY <1>7, <2>1, <2>2, <2>5, <2>7 DEF Queue!Unfollow, Queue!flashVars
  <2> QED BY <2>8 DEF Queue!Next
<1>8. ASSUME NEW c \in Conns, Connect(c) \/ ConnectDuringEntry(c)
      PROVE  [Queue!Next]_(Queue!qvars)
  <2>1. \A d \in Conns \ {c} : cursor'[d] = cursor[d] /\ num'[d] = num[d]
    BY <1>8, <1>a DEF Connect, ConnectDuringEntry, TypeOK
  <2>2. (sender' = sender /\ buf' = buf) \/ (EntryFilled(c, FALSE) /\ FillingFor(c))
    BY <1>8 DEF Connect, ConnectDuringEntry, sendVars, FillingFor
  <2>3. TakeSlot(c) /\ plog' = plog /\ UNCHANGED flashVars /\ next' = next
    BY <1>8 DEF Connect, ConnectDuringEntry
  <2> QED BY <1>7, <2>1, <2>2, <2>3
<1>9. ASSUME NEW c \in Conns, ConnectDuringAdd(c) PROVE [Queue!Next]_(Queue!qvars)
  <2>1. Contents(plog)' = Queue!LastOf(Append(Contents(plog), next), N)
    BY <1>9, <1>a, <1>b, LogAppends DEF ConnectDuringAdd
  <2>2. rewound' = rewound \ {c}
    BY <1>9 DEF ConnectDuringAdd, TakeSlot
  <2>3. \A d \in rewound' : PendingOf(d)' = Queue!LastOf(Append(PendingOf(d), next), N)
    <3> TAKE d \in rewound'
    <3>1. d \in rewound /\ cursor'[d] = CursorAfter(d) /\ num'[d] = NumAfter(d)
      BY <1>9, <1>c, <2>2 DEF ConnectDuringAdd
    <3>2. PendingOf(d)' = Window(plog'.entry, cursor'[d], num'[d])
      BY DEF PendingOf, Window
    <3> QED BY <1>9, <1>b, <3>1, <3>2, PendingAppends DEF ConnectDuringAdd
  <2>4. Contents(temp)' = Contents(temp) /\ Contents(file)' = Contents(file)
        /\ Contents(saved)' = Contents(saved)
    BY <1>9 DEF ConnectDuringAdd, flashVars, Contents
  <2>5. Unlocked /\ Unlocked' /\ Batch' = Batch
    BY <1>9, BatchStays DEF ConnectDuringAdd, sendVars, Unlocked
  <2>6. Pending' = [d \in Conns |->
                      IF d \in rewound' THEN Queue!LastOf(Append(Pending[d], next), N)
                      ELSE << >>]
    BY <1>u, <1>v, <2>2, <2>3, <2>5
  <2>7. Queue!AddAndUnfollow(c)
    BY <1>9, <2>1, <2>2, <2>4, <2>5, <2>6
       DEF Queue!AddAndUnfollow, Queue!flashVars, ConnectDuringAdd
  <2> QED BY <2>7 DEF Queue!Next
<1>10. ASSUME NEW c \in Conns, Disconnect(c) \/ \E enable \in BOOLEAN : TransLog(c, enable)
       PROVE  [Queue!Next]_(Queue!qvars)
  <2>1. UNCHANGED <<plog, next, cursor, num, rewound, sender, buf, temp, file, saved>>
    BY <1>10 DEF Disconnect, TransLog, flashVars, sendVars
  <2> QED BY <1>3, <2>1 DEF Queue!qvars, Contents
<1>11. ASSUME NEW c \in Conns, Rewind(c) PROVE [Queue!Next]_(Queue!qvars)
  <2>1. Contents(plog)' = Contents(plog) /\ Contents(temp)' = Contents(temp)
        /\ Contents(file)' = Contents(file) /\ Contents(saved)' = Contents(saved)
    BY <1>11 DEF Rewind, flashVars, Contents
  <2>2. rewound' = rewound \cup {c}
    BY <1>11 DEF Rewind
  <2>3. PendingOf(c)' = Contents(plog)
    <3>1. cursor'[c] = plog.head /\ num'[c] = plog.cnt /\ plog' = plog
      BY <1>11, <1>a DEF Rewind, TypeOK
    <3> QED BY <3>1 DEF PendingOf, Contents
  <2>4. \A d \in rewound \ {c} : PendingOf(d)' = PendingOf(d)
    <3> TAKE d \in rewound \ {c}
    <3>1. cursor'[d] = cursor[d] /\ num'[d] = num[d] /\ plog' = plog
      BY <1>11, <1>a, <1>c DEF Rewind, TypeOK
    <3> QED BY <3>1 DEF PendingOf
  <2>5. Unlocked /\ Unlocked' /\ Batch' = Batch
    BY <1>11, BatchStays DEF Rewind, sendVars, Unlocked
  <2>6. Pending' = [Pending EXCEPT ![c] = Contents(plog)]
    BY <1>u, <1>v, <2>2, <2>3, <2>4, <2>5
  <2>7. Queue!Follow(c)
    BY <1>11, <2>1, <2>2, <2>5, <2>6 DEF Queue!Follow, Queue!flashVars, Rewind
  <2> QED BY <2>7 DEF Queue!Next
<1>12. ASSUME NEW c \in Conns, SendCheck(c) PROVE [Queue!Next]_(Queue!qvars)
  <2>1. UNCHANGED <<plog, next, cursor, num, rewound, buf, temp, file, saved>>
    BY <1>12 DEF SendCheck, flashVars, connVars
  <2>2. \A d \in Conns : /\ ~FillingFor(d) /\ ~FillingFor(d)' /\ ~SentTo(d) /\ ~SentTo(d)'
                         /\ Left(d)' = Left(d) /\ PendingOf(d)' = PendingOf(d)
    BY <1>12, <2>1 DEF SendCheck, Idle, FillingFor, SentTo, Left, PendingOf
  <2>3. Pending' = Pending /\ Batch' = Batch
    BY <2>1, <2>2 DEF Pending, Batch
  <2> QED BY <2>1, <2>3 DEF Queue!qvars, Contents
<1>13. ASSUME NEW c \in Conns, SendBegin(c) PROVE [Queue!Next]_(Queue!qvars)
  <2> DEFINE n == BatchSize(c)
  <2>1. /\ UNCHANGED <<plog, next, cursor, num, rewound, buf, temp, file, saved>>
        /\ sender = [at |-> "locked", conn |-> c] /\ buf = << >>
        /\ sender' = IF n = 0 THEN Idle ELSE [at |-> "fill", conn |-> c, left |-> n]
    BY <1>13, <1>a DEF SendBegin, flashVars, connVars, BufferEmpty
  <2>2. n \in Nat /\ n <= num[c]
    BY <1>a, BatchSizeBound
  <2>3. Unlocked /\ \A d \in Conns : ~SentTo(d) /\ ~SentTo(d)' /\ PendingOf(d)' = PendingOf(d)
    BY <2>1 DEF Unlocked, SentTo, PendingOf, Idle
  <2>4. \A d \in Conns : FillingFor(d)' <=> (d = c /\ n # 0)
    BY <2>1 DEF FillingFor, Idle
  <2>5. Batch = [d \in Conns |-> << >>]
    BY <2>3, UnlockedState
  <2>6. Contents(plog)' = Contents(plog) /\ Contents(temp)' = Contents(temp)
        /\ Contents(file)' = Contents(file) /\ Contents(saved)' = Contents(saved)
    BY <2>1 DEF Contents
  <2>7. \A d \in Conns : Left(d)' = IF d = c THEN n ELSE 0
    <3>1. n # 0 => sender'.left = n
      BY <2>1
    <3> QED BY <2>4, <3>1 DEF Left
  <2> HIDE DEF n
  <2>8. CASE n = 0 \/ c \notin rewound
    <3>1. \A d \in rewound : Left(d)' = 0 /\ Left(d) = 0 /\ ~FillingFor(d)'
      BY <1>c, <2>3, <2>4, <2>7, <2>8 DEF Left, FillingFor, Unlocked
    <3>2. Pending' = Pending
      BY <2>1, <2>3, <3>1 DEF Pending
    <3>3. Batch' = Batch
      BY <2>1, <2>3, <2>5, <3>1 DEF Batch
    <3> QED BY <2>1, <2>6, <3>2, <3>3 DEF Queue!qvars
  <2>9. CASE n # 0 /\ c \in rewound
    <3> DEFINE p == PendingOf(c)
    <3>1. p \in Seq(Events) /\ Len(p) = num[c] /\ num[c] \in 0 .. N /\ n \in 1 .. Len(p)
          /\ n = IF Len(p) > SendMax THEN SendMax ELSE Len(p)
      <4>1. p \in Seq(Events) /\ Len(p) = num[c] /\ num[c] \in 0 .. N
        BY <2>9, PendingIsSeq
      <4>2. n \in 1 .. Len(p)
        BY <2>2, <2>9, <4>1
      <4>3. n = IF num[c] > SendMax THEN SendMax ELSE num[c]
        BY DEF n, BatchSize
      <4> QED BY <4>1, <4>2, <4>3
    <3>2. Pending[c] = p
      BY <2>3, <2>9, UnlockedState
    <3> HIDE DEF p
    <3>3. p # << >>
      BY <3>1
    <3>4. Batch' = [Batch EXCEPT ![c] = SubSeq(p, 1, n)]
      <4>1. << >> \o SubSeq(p, 1, n) = SubSeq(p, 1, n)
        <5>1. \A i \in 1 .. n : p[i] \in Events
          BY <3>1, ElementOfSeq
        <5>2. SubSeq(p, 1, n) \in Seq(Events)
          BY <3>1, <5>1, SubSeqProperties
        <5> QED BY <5>2, ConcatEmptySeq
      <4>2. Batch'[c] = SubSeq(p, 1, n)
        BY <2>1, <2>3, <2>4, <2>7, <2>9, <4>1 DEF Batch, p
      <4>3. \A d \in Conns \ {c} : Batch'[d] = << >>
        BY <2>1, <2>3, <2>4 DEF Batch
      <4>4. Batch' = [d \in Conns |-> Batch'[d]]
        BY DEF Batch
      <4> QED BY <2>5, <4>2, <4>3, <4>4
    <3>5. Pending' = [Pending EXCEPT ![c] = Queue!Without(p, n)]
      <4>1. Pending'[c] = SubSeq(p, n + 1, num[c])
        BY <2>1, <2>3, <2>7, <2>9 DEF Pending, p
      <4>2. \A d \in Conns \ {c} : Left(d)' = 0 /\ Left(d) = 0
        BY <2>3, <2>7 DEF Left, FillingFor, Unlocked
      <4>3. \A d \in Conns \ {c} : Pending'[d] = Pending[d]
        BY <2>1, <2>3, <4>2 DEF Pending
      <4>4. Pending' = [d \in Conns |-> Pending'[d]] /\ Pending = [d \in Conns |-> Pending[d]]
        BY DEF Pending
      <4> QED BY <3>1, <4>1, <4>3, <4>4 DEF Queue!Without
    <3>6. Queue!Take(c)
      BY <2>1, <2>5, <2>6, <2>9, <3>1, <3>2, <3>3, <3>4, <3>5
         DEF Queue!Take, Queue!Nobody, Queue!flashVars
    <3> QED BY <3>6 DEF Queue!Next
  <2> QED BY <2>8, <2>9
<1>14. ASSUME NEW c \in Conns, SendEntry(c) PROVE [Queue!Next]_(Queue!qvars)
  <2>1. /\ UNCHANGED <<plog, next, rewound, temp, file, saved>>
        /\ sender.at = "fill" /\ sender.conn = c
        /\ buf' = Append(buf, plog.entry[cursor[c]])
        /\ cursor'[c] = Succ(cursor[c]) /\ num'[c] = NumBefore(c)
        /\ \A d \in Conns \ {c} : cursor'[d] = cursor[d] /\ num'[d] = num[d]
        /\ EntryFilled(c, c \in rewound)
    BY <1>14, <1>a DEF SendEntry, flashVars, connVars, TypeOK
  <2>2. sender \in [at : {"fill"}, conn : Conns, left : 1 .. SendMax]
    BY <1>a, <2>1 DEF TypeOK, Senders, Idle
  <2>3. sender.left \in Nat \ {0}
    BY <2>2, ConstantsAssumption
  <2>4. sender' = IF sender.left = 1
                  THEN [at |-> "send", conn |-> c, synced |-> c \in rewound]
                  ELSE [at |-> "fill", conn |-> c, left |-> sender.left - 1]
    BY <2>1, <2>2 DEF EntryFilled
  <2>5. \A d \in Conns \ {c} : /\ ~FillingFor(d) /\ ~FillingFor(d)' /\ ~SentTo(d) /\ ~SentTo(d)'
                               /\ Left(d) = 0 /\ Left(d)' = 0
    BY <2>1, <2>4 DEF FillingFor, SentTo, Left
  <2>6. Contents(plog)' = Contents(plog) /\ Contents(temp)' = Contents(temp)
        /\ Contents(file)' = Contents(file) /\ Contents(saved)' = Contents(saved)
    BY <2>1 DEF Contents
  <2>7. \A d \in Conns \ {c} : Pending'[d] = Pending[d] /\ Batch'[d] = Batch[d]
    <3>1. \A d \in Conns \ {c} : PendingOf(d)' = PendingOf(d)
      BY <2>1 DEF PendingOf
    <3> QED BY <2>1, <2>5, <3>1 DEF Pending, Batch
  <2>8. Pending'[c] = Pending[c] /\ Batch'[c] = Batch[c]
    <3>1. CASE c \notin rewound
      <4>1. ~SentTo(c) /\ ~SentTo(c)'
        BY <2>1, <2>4, <3>1 DEF SentTo
      <4> QED BY <2>1, <3>1, <4>1 DEF Pending, Batch
    <3>2. CASE c \in rewound
      <4> DEFINE p == PendingOf(c)
                 n == sender.left
                 r == SubSeq(p, 2, Len(p))
      <4>1. FillingFor(c) /\ Left(c) = n /\ n <= num[c]
        BY <2>1, <3>2, RewoundCursor DEF FillingFor, Left
      <4>2. p \in Seq(Events) /\ Len(p) = num[c] /\ num[c] \in 0 .. N /\ n \in 1 .. Len(p)
        <5>1. p \in Seq(Events) /\ Len(p) = num[c] /\ num[c] \in 0 .. N
          BY <3>2, PendingIsSeq
        <5> QED BY <2>3, <4>1, <5>1
      <4>3. num'[c] = num[c] - 1
        <5>1. num[c] # 0
          BY <4>2
        <5> QED BY <2>1, <3>2, <5>1, RewoundCursor
      <4>4. p[1] = plog.entry[cursor[c]] /\ PendingOf(c)' = r
        <5>1. cursor[c] \in Slots /\ plog.entry \in [Slots -> Events] /\ 1 \in 0 .. num[c]
              /\ 1 \in 1 .. num[c]
          BY <1>a, <3>2, <4>2, RewoundCursor DEF TypeOK, Images
        <5>2. p = Window(plog.entry, cursor[c], num[c])
          BY PendingIsWindow
        <5>3. p[1] = plog.entry[SlotFrom(cursor[c], 1)]
          <6>1. \A i \in 1 .. num[c] : Window(plog.entry, cursor[c], num[c])[i]
                                         = plog.entry[SlotFrom(cursor[c], i)]
            BY <4>2, <5>1, WindowIsSeq
          <6> HIDE DEF p
          <6> QED BY <5>1, <5>2, <6>1
        <5>4. SlotFrom(cursor[c], 1) = cursor[c]
          BY <5>1, ConstantsAssumption DEF SlotFrom, Slots
        <5>5. PendingOf(c)' = Window(plog.entry, Succ(cursor[c]), num[c] - 1)
          BY <2>1, <4>3 DEF PendingOf, Window
        <5>6. Window(plog.entry, (cursor[c] + 1) % N, num[c] - 1) = Queue!Without(p, 1)
          BY <4>2, <5>1, <5>2, WindowSplits
        <5>7. Queue!Without(p, 1) = r
          BY DEF Queue!Without
        <5> QED BY <5>3, <5>4, <5>5, <5>6, <5>7 DEF Succ
      <4>5. buf \in Seq(Events)
        BY <1>a DEF TypeOK
      <4>6. /\ Append(buf, p[1]) \o SubSeq(r, 1, n - 1) = buf \o SubSeq(p, 1, n)
            /\ SubSeq(r, n, Len(p) - 1) = SubSeq(p, n + 1, Len(p))
            /\ r \in Seq(Events) /\ Len(r) = Len(p) - 1
        <5>1. r \in Seq(Events) /\ Len(r) = Len(p) - 1
              /\ \A i \in 1 .. Len(p) - 1 : r[i] = p[i + 1]
          <6>1. 1 <= Len(p)
            BY <4>2
          <6> QED BY <4>2, <6>1, RestProperties
        <5> HIDE DEF p, r
        <5> QED BY <4>2, <4>5, <5>1, FillOne
      <4>7. Left(c)' = n - 1 /\ Left(c)' + 1 = n
        <5>1. CASE n = 1
          BY <2>4, <5>1 DEF Left, FillingFor
        <5>2. CASE n # 1
          BY <2>3, <2>4, <5>2 DEF Left, FillingFor
        <5> QED BY <5>1, <5>2
      <4>8. Pending'[c] = Pending[c]
        <5>1. Pending'[c] = SubSeq(PendingOf(c)', Left(c)' + 1, num'[c])
          BY <2>1, <3>2 DEF Pending
        <5>2. Pending[c] = SubSeq(p, n + 1, num[c])
          BY <3>2, <4>1 DEF Pending
        <5> QED BY <4>2, <4>3, <4>4, <4>6, <4>7, <5>1, <5>2
      <4>9. Batch[c] = buf \o SubSeq(p, 1, n)
        BY <3>2, <4>1 DEF Batch
      <4>10. buf' = Append(buf, p[1])
        BY <2>1, <4>4
      <4>11. CASE n = 1
        <5>1. ~FillingFor(c)' /\ SentTo(c)'
          BY <2>4, <3>2, <4>11 DEF FillingFor, SentTo
        <5>2. Batch'[c] = buf'
          BY <5>1 DEF Batch
        <5>3. buf' \o SubSeq(r, 1, 0) = buf'
          <6>1. p[1] \in Events
            BY <4>2, ElementOfSeq
          <6>2. buf' \in Seq(Events)
            BY <4>5, <4>10, <6>1
          <6>3. SubSeq(r, 1, 0) = << >>
            BY SubSeqProperties, EmptySeq
          <6> QED BY <6>2, <6>3, ConcatEmptySeq
        <5> QED BY <4>6, <4>8, <4>9, <4>10, <4>11, <5>2, <5>3
      <4>12. CASE n # 1
        <5>1. FillingFor(c)'
          BY <2>4, <4>12 DEF FillingFor
        <5>2. Batch'[c] = buf' \o SubSeq(PendingOf(c)', 1, Left(c)')
          BY <2>1, <3>2, <5>1 DEF Batch
        <5> QED BY <4>4, <4>6, <4>7, <4>8, <4>9, <4>10, <5>2
      <4> QED BY <4>11, <4>12
    <3> QED BY <3>1, <3>2
  <2>9. Pending' = Pending /\ Batch' = Batch
    <3>1. /\ Pending' = [d \in Conns |-> Pending'[d]] /\ Pending = [d \in Conns |-> Pending[d]]
          /\ Batch' = [d \in Conns |-> Batch'[d]] /\ Batch = [d \in Conns |-> Batch[d]]
      BY DEF Pending, Batch
    <3>2. \A d \in Conns : Pending'[d] = Pending[d] /\ Batch'[d] = Batch[d]
      BY <2>7, <2>8
    <3> QED BY <3>1, <3>2
  <2> QED BY <2>1, <2>6, <2>9 DEF Queue!qvars
<1>15. CASE SendDone
  <2>1. /\ UNCHANGED <<plog, next, cursor, num, rewound, temp, file, saved>>
        /\ sender.at = "send" /\ sender' = Idle
    BY <1>15 DEF SendDone, flashVars, connVars
  <2>2. \A d \in Conns : /\ ~FillingFor(d) /\ ~FillingFor(d)' /\ ~SentTo(d)'
                         /\ Left(d)' = Left(d) /\ PendingOf(d)' = PendingOf(d)
    BY <2>1 DEF Idle, FillingFor, SentTo, Left, PendingOf
  <2>3. Pending' = Pending /\ Batch' = [c \in Conns |-> << >>]
    BY <2>1, <2>2 DEF Pending, Batch
  <2>4. Queue!Send
    BY <2>1, <2>3 DEF Queue!Send, Queue!Nobody, Queue!flashVars, Contents
  <2> QED BY <2>4 DEF Queue!Next
<1>16. CASE Restart
  <2>1. Contents(plog)' \in {Contents(saved), << >>}
    <3>1. CASE plog' = saved
      BY <3>1 DEF Contents
    <3>2. CASE plog' = [saved EXCEPT !.head = 0, !.tail = 0, !.cnt = 0]
      <4>1. plog'.cnt = 0
        BY <1>a, <3>2 DEF TypeOK, Images
      <4>2. Contents(plog)' = Window(plog'.entry, plog'.head, 0)
        BY <4>1 DEF Contents, Window
      <4> QED BY <4>2, EmptyWindow
    <3> QED BY <1>16, <3>1, <3>2 DEF Restart
  <2>2. /\ Contents(temp)' = Contents(saved) /\ Contents(file)' = Contents(saved)
        /\ Contents(saved)' = Contents(saved) /\ next' = next /\ rewound' = {}
        /\ sender' = Idle
    BY <1>16 DEF Restart, Contents
  <2>3. Pending' = [c \in Conns |-> << >>]
    BY <2>2 DEF Pending
  <2>4. Batch' = [c \in Conns |-> << >>]
    BY <2>2 DEF Batch, SentTo, FillingFor, Idle
  <2>5. Queue!Restart
    BY <2>1, <2>2, <2>3, <2>4 DEF Queue!Restart, Queue!Nobody
  <2> QED BY <2>5 DEF Queue!Next
<1>17. CASE UNCHANGED vars
  <2>1. UNCHANGED <<plog, next, cursor, num, rewound, sender, buf, temp, file, saved>>
    BY <1>17 DEF vars
  <2> QED BY <1>3, <2>1 DEF Queue!qvars, Contents
<1> QED BY <1>1, <1>2, <1>4, <1>5, <1>6, <1>8, <1>9, <1>10, <1>11, <1>12, <1>13, <1>14,
           <1>15, <1>16, <1>17 DEF Next

(* An empty log is the empty queue.                                        *)
LEMMA InitSimulated == Init => Queue!Init
<1> SUFFICES ASSUME Init PROVE Queue!Init
  OBVIOUS
<1>1. Contents(plog) = << >> /\ Contents(temp) = << >> /\ Contents(file) = << >>
      /\ Contents(saved) = << >>
  <2>1. plog.cnt = 0 /\ temp.cnt = 0 /\ file.cnt = 0 /\ saved.cnt = 0
    BY DEF Init, Blank
  <2> QED BY <2>1, ContentsIsWindow, EmptyWindow
<1>2. Pending = [c \in Conns |-> << >>] /\ Batch = [c \in Conns |-> << >>]
  BY DEF Init, Pending, Batch, SentTo, FillingFor, Idle
<1> QED BY <1>1, <1>2 DEF Init, Queue!Init, Queue!Nobody

(* The log of log.c, with its ring, its cursors and its snapshot, is the    *)
(* queue that EventQueue promises: for any size of the ring, of a message,  *)
(* and any number of connections, every client gets each event once and in  *)
(* order from the moment it asks, although send_logs fills its message      *)
(* entry by entry and a slot may be reset in the middle of that.           *)
THEOREM LogImplementsQueue == Spec => ImplementsQueue
<1>1. Init => Queue!Init
  BY InitSimulated
<1>2. IInv /\ [Next]_vars => [Queue!Next]_(Queue!qvars)
  BY NextSimulated
<1> QED BY <1>1, <1>2, Invariance, PTL DEF Spec, ImplementsQueue, Queue!Spec
=============================================================================
