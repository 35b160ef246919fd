-------------------------- MODULE StoredDataProofs --------------------------
(***************************************************************************)
(* The theorems about StoredData: its types, and that it implements a      *)
(* store whose one value is replaced as a whole.                           *)
(***************************************************************************)
EXTENDS StoredData, NandFileProofs, SequenceTheorems, TLAPS

\* The constants, as numbers.
LEMMA Sizes ==
    /\ RegionSize \in Nat /\ RegionSize >= 1 /\ AreaSize \in Nat /\ BlockSize \in Nat
    /\ BlockSize = 2 * RegionSize /\ AreaSize >= BlockSize
    /\ AreaSize % BlockSize = 0 /\ MaxLag \in Nat
BY NandFileAssumption, StoredAssumption

(***************************************************************************)
(* Regions.  A region is the first or the second half of a block.          *)
(***************************************************************************)
First(x) == x % BlockSize = 0
Second(x) == x >= RegionSize /\ First(x - RegionSize)

\* What is strictly inside of a block does not begin one.
LEMMA Inside ==
    ASSUME NEW x \in Nat, First(x), NEW y \in Nat, x < y, y < x + BlockSize
    PROVE  ~First(y)
BY AlignedApart, Sizes DEF First

\* A region that begins a block fits into it, and is not a second half.
LEMMA FirstHalf ==
    ASSUME NEW x \in Pages, First(x)
    PROVE  x + BlockSize <= AreaSize /\ ~Second(x)
<1>1. x \in Nat /\ x < AreaSize
  BY Sizes DEF Pages
<1>2. x + BlockSize <= AreaSize
  BY <1>1, AlignedApart, Sizes DEF First
<1>3. SUFFICES ASSUME Second(x) PROVE FALSE
  BY <1>2
<1>4. x - RegionSize \in Nat /\ First(x - RegionSize)
  BY <1>1, <1>3, Sizes DEF Second
<1>5. ~First(x)
  BY <1>1, <1>4, Inside, Sizes
<1>6. QED
  BY <1>5

\* A second half ends with its block.
LEMMA SecondHalf ==
    ASSUME NEW x \in Pages, Second(x)
    PROVE  x + RegionSize <= AreaSize /\ First(x + RegionSize)
<1>. DEFINE y == x - RegionSize
<1>1. x \in Nat /\ x < AreaSize /\ y \in Nat /\ First(y) /\ y < AreaSize
  BY Sizes DEF Pages, Second
<1>2. y + BlockSize <= AreaSize
  BY <1>1, AlignedApart, Sizes DEF First
<1>3. First(y + BlockSize)
  <2>1. BlockSize = BlockSize * 1 /\ BlockSize \in Nat
    BY Sizes
  <2>2. BlockSize % BlockSize = 0
    BY <2>1, MultipleIsAligned
  <2>3. QED
    BY <1>1, <2>1, <2>2, AlignedSum DEF First
<1>4. y + BlockSize = x + RegionSize
  BY <1>1, Sizes
<1>5. QED
  BY <1>2, <1>3, <1>4

\* The region after the one at x.
Following(x) == Wrap(x + RegionSize)

\* The halves alternate, and the last is followed by the first.
LEMMA FollowingRegion ==
    ASSUME NEW x \in Pages, First(x) \/ Second(x)
    PROVE  /\ Following(x) \in Pages /\ Following(x) + RegionSize <= AreaSize
           /\ First(x) => Second(Following(x)) /\ Following(x) = x + RegionSize
           /\ Second(x) => First(Following(x))
           /\ First(Following(x)) <=> Second(x)
           /\ x + RegionSize <= AreaSize
<1>1. x \in Nat /\ x < AreaSize
  BY Sizes DEF Pages
<1>2. CASE First(x)
  <2>1. x + BlockSize <= AreaSize /\ ~Second(x)
    BY <1>2, FirstHalf
  <2>2. Following(x) = x + RegionSize
    BY <1>1, <2>1, Sizes DEF Following, Wrap
  <2>3. Following(x) \in Pages /\ Second(Following(x)) /\ Following(x) + RegionSize <= AreaSize
    <3>1. (x + RegionSize) - RegionSize = x /\ x + RegionSize >= RegionSize
      BY <1>1, Sizes
    <3>2. Second(x + RegionSize)
      BY <1>2, <3>1 DEF Second
    <3>3. x + RegionSize \in Pages /\ x + RegionSize + RegionSize <= AreaSize
      BY <1>1, <2>1, Sizes DEF Pages
    <3>4. QED
      BY <2>2, <3>2, <3>3
  <2>4. ~First(Following(x))
    BY <2>3, FirstHalf
  <2>5. QED
    BY <1>1, <1>2, <2>1, <2>2, <2>3, <2>4, Sizes
<1>3. CASE Second(x)
  <2>1. x + RegionSize <= AreaSize /\ First(x + RegionSize) /\ ~First(x)
    BY <1>3, SecondHalf, FirstHalf
  <2>2. Following(x) = IF x + RegionSize = AreaSize THEN 0 ELSE x + RegionSize
    BY <1>1, <2>1, Sizes DEF Following, Wrap
  <2>3. First(0)
    <3>1. 0 = BlockSize * 0
      BY Sizes
    <3>2. QED
      BY <3>1, MultipleIsAligned DEF First
  <2>4. Following(x) \in Pages /\ First(Following(x))
    BY <1>1, <2>1, <2>2, <2>3, Sizes DEF Pages
  <2>5. Following(x) + RegionSize <= AreaSize
    BY <2>4, FirstHalf, Sizes DEF Pages
  <2>6. QED
    BY <1>3, <2>1, <2>4, <2>5
<1>4. QED
  BY <1>2, <1>3

(***************************************************************************)
(* Types.  The places of the two threads say who holds nand_sem, and with  *)
(* it who may finish one more file before the table is saved; the region   *)
(* that the saved table names lies as many regions behind as files have    *)
(* been finished since.  The count is that of a whole file only until the  *)
(* file is completed.                                                      *)
(***************************************************************************)
Regular ==
    /\ f.fsize = RegionSize /\ f.fwritennum <= RegionSize
    /\ First(f.fstartaddr) \/ Second(f.fstartaddr)
    /\ First(saved) \/ Second(saved)

Distance == lag * RegionSize
Behind == saved \in {f.fstartaddr - Distance, f.fstartaddr - Distance + AreaSize}

Held == \A t \in Threads : pc[t] \in Holding => nand_sem = t

\* A thread that has pages to write holds a place for them.
Timely == \A t \in Threads :
              pc[t] \in InWrite \cup {"write"} \/ (pc[t] = "test" /\ f.fwritennum # 0)
                  => lag < MaxLag

\* What the thread in fwrite_w has in its local, and the count in memory.
Locals ==
    /\ Writing({"program"}) => io \in Sectors
    /\ Writing({"count", "full"}) => io < RegionSize
    /\ IF Writing({"full"}) THEN f.fwritennum \in {0, io + 1} ELSE f.fwritennum < RegionSize

Pieces == hash \in [Threads -> Seq(Values)]

TypeInv == TypeOK /\ Regular /\ Behind /\ Held /\ Timely /\ Pieces /\ Locals

\* The holder of nand_sem is the only one in fwrite_w.
HolderPlace ==
    \A t \in Threads, S \in SUBSET Holding :
        Held /\ pc[t] \in Holding => (Writing(S) <=> pc[t] \in S)

LEMMA HolderIsAlone == HolderPlace
BY DEF HolderPlace, Held, Writing

\* The places in fwrite_w.
LEMMA Places ==
    /\ InWrite \subseteq Holding /\ {"write", "test"} \subseteq Holding
    /\ Outside \cap Holding = {}
    /\ \A S \in SUBSET InWrite : S \in SUBSET Holding
    /\ {"program"} \in SUBSET InWrite /\ {"count", "full"} \in SUBSET InWrite
    /\ {"full"} \in SUBSET InWrite /\ {"count"} \in SUBSET InWrite
    /\ {"address"} \in SUBSET InWrite /\ {"program", "address"} \in SUBSET InWrite
    /\ {"address", "count", "full"} \in SUBSET InWrite
BY DEF InWrite, Holding, Outside

\* The finished files between the two tables leave room for one more region,
\* and for two while another file may be finished.
LEMMA Distances ==
    ASSUME lag \in 0 .. MaxLag
    PROVE  /\ Distance \in Nat /\ Distance + 2 * RegionSize <= AreaSize
           /\ lag < MaxLag => Distance + 3 * RegionSize <= AreaSize
           /\ (lag + 1) * RegionSize = Distance + RegionSize
<1>1. lag \in Nat /\ MaxLag - lag \in Nat /\ RegionSize \in Nat /\ MaxLag \in Nat
  BY Sizes
<1>2. /\ Distance \in Nat /\ (MaxLag - lag) * RegionSize \in Nat
      /\ (lag + 1) * RegionSize = Distance + RegionSize
  BY <1>1, NatProduct, Distributes DEF Distance
<1>3. (MaxLag + 2) * RegionSize = Distance + (MaxLag - lag) * RegionSize + 2 * RegionSize
  BY <1>1, Distributes DEF Distance
<1>4. lag < MaxLag => (MaxLag - lag) * RegionSize >= RegionSize
  <2>1. SUFFICES ASSUME lag < MaxLag PROVE (MaxLag - lag) * RegionSize >= RegionSize
    OBVIOUS
  <2>2. MaxLag - lag - 1 \in Nat
    BY <1>1, <2>1
  <2>3. (MaxLag - lag - 1) * RegionSize \in Nat
    BY <1>1, <2>2, NatProduct
  <2>4. (MaxLag - lag) * RegionSize = (MaxLag - lag - 1) * RegionSize + RegionSize
    BY <1>1, Distributes
  <2>5. QED
    BY <1>1, <2>3, <2>4
<1>5. AreaSize >= (MaxLag + 2) * RegionSize
  BY StoredAssumption
<1>. DEFINE rest == (MaxLag - lag) * RegionSize
<1>6. /\ AreaSize >= Distance + rest + 2 * RegionSize /\ rest \in Nat
      /\ lag < MaxLag => rest >= RegionSize
  BY <1>2, <1>3, <1>4, <1>5
<1>. HIDE DEF rest
<1>7. Distance + 2 * RegionSize <= AreaSize
  BY <1>1, <1>2, <1>6, Sizes
<1>8. lag < MaxLag => Distance + 3 * RegionSize <= AreaSize
  BY <1>1, <1>2, <1>6, Sizes
<1>9. QED
  BY <1>2, <1>7, <1>8

\* The pages of the image are data.
LEMMA PageType ==
    ASSUME NEW p \in Sectors, NEW s \in Images, NEW im \in Images
    PROVE  Page(p, s, im) \in Data
BY StoredAssumption DEF FileData

\* The table as it is after a boot.
LEMMA FileType ==
    ASSUME NEW start \in Pages
    PROVE  /\ File(start) \in FileStructs
           /\ File(start).fsize = RegionSize /\ File(start).fwritennum = 0
           /\ File(start).fstartaddr = start
<1>1. RegionSize \in 1 .. AreaSize /\ 0 \in 0 .. AreaSize - 1 /\ start \in 0 .. AreaSize
  BY Sizes DEF Pages
<1>2. QED
  BY <1>1 DEF File, FileStructs

\* The types hold at first.
LEMMA InitTypeInv == Init => TypeInv
<1>1. SUFFICES ASSUME Init PROVE TypeInv
  OBVIOUS
<1>2. image \in Images /\ sum \in Images
  BY <1>1 DEF Init, Images
<1>3. 0 \in Pages /\ First(0)
  <2>1. 0 = BlockSize * 0
    BY Sizes
  <2>2. QED
    BY <2>1, Sizes, MultipleIsAligned DEF First, Pages
<1>4. /\ f \in FileStructs /\ f.fsize = RegionSize /\ f.fwritennum = 0
      /\ f.fstartaddr = 0 /\ saved = 0 /\ lag = 0
  BY <1>1, <1>3, FileType DEF Init
<1>5. area \in [Pages -> Contents]
  <2>1. \A a \in Pages : a < RegionSize => a + 1 \in Sectors
    BY Sizes DEF Pages, Sectors
  <2>2. \A a \in Pages : a < RegionSize => Page(a + 1, sum, image) \in Data
    BY <1>2, <2>1, PageType
  <2>3. QED
    BY <1>1, <2>2 DEF Init, Contents
<1>6. hash \in [Threads -> Seq(Values)] /\ \A t \in Threads : Len(hash[t]) <= RegionSize
  BY <1>1, Sizes DEF Init
<1>7. /\ \A t \in Threads : pc[t] \notin Holding
      /\ pc \in [Threads -> Outside \cup Holding]
      /\ \A S \in SUBSET Holding : ~Writing(S)
  BY <1>1 DEF Init, Holding, InWrite, Outside, Writing
<1>8. TypeOK
  <2>1. nand_sem = None /\ nand_sem \notin Threads
    BY <1>1, StoredAssumption DEF Init
  <2>2. /\ changes \in 0 .. MaxChanges /\ calls \in 0 .. MaxCalls /\ cuts \in 0 .. MaxCuts
        /\ lag \in 0 .. MaxLag /\ again \in BOOLEAN /\ undone \in BOOLEAN
        /\ dirty \in BOOLEAN /\ io \in 0 .. AreaSize
    <3>1. MaxChanges \in Nat /\ MaxCalls \in Nat /\ MaxCuts \in Nat /\ MaxLag \in Nat
      BY StoredAssumption
    <3>2. /\ changes = 0 /\ calls = 0 /\ cuts = 0 /\ lag = 0
          /\ again = FALSE /\ undone = FALSE /\ dirty = FALSE
      BY <1>1 DEF Init
    <3>3. /\ changes \in 0 .. MaxChanges /\ calls \in 0 .. MaxCalls /\ cuts \in 0 .. MaxCuts
          /\ lag \in 0 .. MaxLag
      BY <3>1, <3>2
    <3>4. again \in BOOLEAN /\ undone \in BOOLEAN /\ dirty \in BOOLEAN
      BY <3>2
    <3>5. io \in 0 .. AreaSize
      BY <1>1, Sizes DEF Init
    <3>6. QED
      BY <3>3, <3>4, <3>5
  <2>3. QED
    BY <1>2, <1>3, <1>4, <1>5, <1>6, <1>7, <2>1, <2>2 DEF TypeOK
<1>9. Regular /\ Behind
  BY <1>3, <1>4, Sizes DEF Regular, Behind, Distance
<1>10. Held /\ Timely /\ Pieces
  BY <1>6, <1>7, Places DEF Held, Timely, Pieces
<1>11. Locals
  BY <1>4, <1>7, Places, Sizes DEF Locals
<1>12. QED
  BY <1>8, <1>9, <1>10, <1>11 DEF TypeInv

\* A thread that moves outside of nand_sem.
LEMMA OutsideStep ==
    ASSUME TypeInv, NEW t \in Threads, NEW place \in Outside, pc[t] \notin Holding,
           Goes(t, place)
    PROVE  /\ pc' \in [Threads -> Outside \cup Holding]
           /\ nand_sem \in Threads => pc'[nand_sem] \in Holding
           /\ \A u \in Threads : pc'[u] \in Holding => pc'[u] = pc[u]
           /\ \A S \in SUBSET Holding : Writing(S)' <=> Writing(S)
<1>1. pc \in [Threads -> Outside \cup Holding]
      /\ (nand_sem \in Threads => pc[nand_sem] \in Holding)
  BY DEF TypeInv, TypeOK
<1>2. pc' = [pc EXCEPT ![t] = place]
  BY DEF Goes
<1>3. pc'[t] = place /\ place \notin Holding /\ \A u \in Threads \ {t} : pc'[u] = pc[u]
  BY <1>1, <1>2, Places
<1>4. pc' \in [Threads -> Outside \cup Holding]
  BY <1>1, <1>2
<1>5. \A S \in SUBSET Holding : Writing(S)' <=> Writing(S)
  BY <1>1, <1>3 DEF Writing
<1>6. QED
  BY <1>1, <1>3, <1>4, <1>5

\* A thread that moves within nand_sem.
LEMMA HoldingStep ==
    ASSUME TypeInv, NEW t \in Threads, NEW place \in Holding, pc[t] \in Holding,
           Goes(t, place), nand_sem' = nand_sem
    PROVE  /\ pc' \in [Threads -> Outside \cup Holding] /\ pc'[t] = place
           /\ nand_sem' = t /\ Held' /\ \A u \in Threads \ {t} : pc'[u] \notin Holding
           /\ \A S \in SUBSET Holding : /\ Writing(S) <=> pc[t] \in S
                                        /\ Writing(S)' <=> place \in S
<1>1. /\ pc \in [Threads -> Outside \cup Holding] /\ pc' = [pc EXCEPT ![t] = place]
      /\ nand_sem = t /\ \A u \in Threads \ {t} : pc[u] \notin Holding
  BY DEF TypeInv, TypeOK, Held, Goes
<1>2. /\ pc' \in [Threads -> Outside \cup Holding] /\ pc'[t] = place
      /\ \A u \in Threads \ {t} : pc'[u] \notin Holding
  BY <1>1
<1>3. \A S \in SUBSET Holding : Writing(S) <=> pc[t] \in S
  BY <1>1 DEF Writing
<1>4. \A S \in SUBSET Holding : Writing(S)' <=> place \in S
  BY <1>2 DEF Writing
<1>5. Held'
  BY <1>1, <1>2 DEF Held
<1>6. QED
  BY <1>1, <1>2, <1>3, <1>4, <1>5

\* Nobody holds nand_sem.
LEMMA Free ==
    ASSUME TypeInv, nand_sem \notin Threads
    PROVE  /\ \A u \in Threads : pc[u] \notin Holding
           /\ \A S \in SUBSET Holding : ~Writing(S)
BY DEF TypeInv, Held, Writing

\* The page that is programmed.
LEMMA ProgramKeepsTypes ==
    ASSUME TypeInv, NEW t \in Threads, ProgramPage(t)
    PROVE  /\ area' = Programmed(area, WriteAddress(f), Page(io, sum, image))
           /\ Page(io, sum, image) \in Data /\ area' \in [Pages -> Contents]
           /\ WriteAddress(f) \in Pages /\ io' \in 0 .. AreaSize
           /\ lag < MaxLag /\ f.fwritennum < RegionSize
<1>1. pc[t] = "program" /\ pc[t] \in InWrite /\ pc[t] \in Holding
  BY Places DEF ProgramPage, InWrite
<1>2. Writing({"program"}) /\ ~Writing({"full"})
  BY <1>1, HolderIsAlone, Places DEF HolderPlace, TypeInv
<1>3. io \in Sectors /\ f.fwritennum < RegionSize /\ lag < MaxLag
  BY <1>1, <1>2 DEF TypeInv, Locals, Timely
<1>4. /\ f \in FileStructs /\ area \in [Pages -> Contents]
      /\ image \in Images /\ sum \in Images
  BY DEF TypeInv, TypeOK
<1>5. WriteAddress(f) \in Pages /\ Page(io, sum, image) \in Data
  BY <1>3, <1>4, Addresses, PageType
<1>6. area' = Programmed(area, WriteAddress(f), Page(io, sum, image))
      /\ io' = WriteAddress(f) + 1
  BY DEF ProgramPage
<1>7. area' \in [Pages -> Contents] /\ io' \in 0 .. AreaSize
  <2>1. area' \in [Pages -> Contents]
    BY <1>4, <1>5, <1>6, ProgrammedPages
  <2>2. io' \in 0 .. AreaSize
    BY <1>5, <1>6, Sizes DEF Pages
  <2>3. QED
    BY <2>1, <2>2
<1>8. QED
  BY <1>3, <1>5, <1>6, <1>7

\* The end of a file: it comes after the last page.
LEMMA CompleteKeepsTypes ==
    ASSUME TypeInv, NEW t \in Threads, CompleteFile(t)
    PROVE  /\ f' \in FileStructs /\ Regular' /\ Behind' /\ f'.fwritennum < RegionSize
           /\ lag < MaxLag /\ lag' \in 0 .. MaxLag /\ dirty' \in BOOLEAN
           /\ \/ /\ io + 1 = RegionSize /\ f' = Replaced(f) /\ dirty' = TRUE
                 /\ f'.fwritennum = 0 /\ f'.fstartaddr = NewStart(f)
              \/ UNCHANGED <<f, dirty, lag>>
<1>. DEFINE s == f.fstartaddr
<1>1. /\ f \in FileStructs /\ saved \in Pages /\ dirty \in BOOLEAN /\ io \in Nat
      /\ f.fsize = RegionSize /\ f.fwritennum \in Nat
      /\ s \in Pages /\ (First(s) \/ Second(s)) /\ (First(saved) \/ Second(saved))
  BY Sizes DEF TypeInv, TypeOK, Regular, FileStructs
<1>2. pc[t] = "full" /\ pc[t] \in InWrite /\ pc[t] \in Holding
  BY Places DEF CompleteFile, InWrite
<1>3. Writing({"full"}) /\ Writing({"count", "full"})
  BY <1>2 DEF Writing
<1>4. /\ lag < MaxLag /\ lag \in 0 .. MaxLag
      /\ io < RegionSize /\ f.fwritennum \in {0, io + 1}
  BY <1>2, <1>3 DEF TypeInv, TypeOK, Timely, Locals
<1>5. saved' = saved
  BY DEF CompleteFile
<1>6. PICK n \in {f.fwritennum, io + 1} :
         IF n >= f.fsize THEN f' = Replaced(f) /\ dirty' = TRUE /\ lag' = lag + 1
         ELSE UNCHANGED <<f, dirty, lag>>
  BY DEF CompleteFile
<1>7. /\ NewStart(f) = Following(s) /\ NewStart(f) \in Pages
      /\ First(NewStart(f)) \/ Second(NewStart(f))
      /\ s + RegionSize <= AreaSize
  <2>1. NewStart(f) = Following(s)
    BY DEF NewStart, Following
  <2>2. QED
    BY <1>1, <2>1, FollowingRegion
<1>8. CASE n >= f.fsize
  <2>1. f' = Replaced(f) /\ dirty' = TRUE /\ lag' = lag + 1
    BY <1>6, <1>8
  <2>2. /\ f' \in FileStructs /\ f'.fsize = RegionSize /\ f'.fwritennum = 0
        /\ f'.fstartaddr = NewStart(f)
    BY <1>1, <2>1, ReplacedType
  <2>3. Regular' /\ f'.fwritennum < RegionSize
    BY <1>1, <1>5, <1>7, <2>2, Sizes DEF Regular
  <2>4. io + 1 = RegionSize
    BY <1>1, <1>4, <1>6, <1>8, Sizes
  <2>5. lag' \in 0 .. MaxLag
    BY <1>4, <2>1, Sizes
  <2>6. /\ Distance \in Nat /\ Distance + 3 * RegionSize <= AreaSize
        /\ Distance' = Distance + RegionSize
    BY <1>4, <2>1, Distances DEF Distance
  <2>7. NewStart(f) = IF s + RegionSize >= AreaSize THEN s + RegionSize - AreaSize
                      ELSE s + RegionSize
    <3>1. s \in Nat /\ s < AreaSize /\ RegionSize \in Nat /\ AreaSize \in Nat
      BY <1>1, Sizes DEF Pages
    <3>2. QED
      BY <3>1 DEF NewStart, Wrap
  <2>8. Behind'
    <3>. DEFINE d == Distance
                e == NewStart(f)
                v == saved
    <3>1. /\ v = s - d \/ v = s - d + AreaSize
          /\ v \in Nat /\ v < AreaSize /\ s \in Nat /\ s < AreaSize /\ d \in Nat
      BY <1>1, <2>6, Sizes DEF TypeInv, Behind, Pages
    <3>2. v = e - (d + RegionSize) \/ v = e - (d + RegionSize) + AreaSize
      <4>. HIDE DEF d, e, v, s
      <4>1. /\ d + 3 * RegionSize <= AreaSize /\ s + RegionSize <= AreaSize
            /\ e = IF s + RegionSize >= AreaSize THEN s + RegionSize - AreaSize
                   ELSE s + RegionSize
        BY <1>7, <2>6, <2>7 DEF d, e, s
      <4>2. CASE s + RegionSize >= AreaSize
        BY <3>1, <4>1, <4>2, Sizes
      <4>3. CASE ~(s + RegionSize >= AreaSize)
        BY <3>1, <4>1, <4>3, Sizes
      <4>4. QED
        BY <4>2, <4>3
    <3>3. QED
      BY <1>5, <2>2, <2>6, <3>2 DEF Behind
  <2>9. QED
    BY <1>4, <2>1, <2>2, <2>3, <2>4, <2>5, <2>8
<1>9. CASE ~(n >= f.fsize)
  <2>1. UNCHANGED <<f, dirty, lag>>
    BY <1>6, <1>9
  <2>2. f.fwritennum < RegionSize
    BY <1>1, <1>4, <1>6, <1>9, Sizes
  <2>3. Regular' /\ Behind'
    BY <1>5, <2>1 DEF TypeInv, Regular, Behind, Distance
  <2>4. QED
    BY <1>1, <1>4, <2>1, <2>2, <2>3
<1>10. QED
  BY <1>8, <1>9

\* Every step keeps the types.
LEMMA NextTypeInv == TypeInv /\ [Next]_vars => TypeInv'
<1>1. SUFFICES ASSUME TypeInv, [Next]_vars PROVE TypeInv'
  OBVIOUS
<1>. USE DEF TypeInv, imageVars, flashVars, boundVars, historyVars
\* What a thread does outside of nand_sem leaves what the holder has as it is.
<1>2. ASSUME NEW t \in Threads, NEW place \in Outside, pc[t] \in Outside,
             Goes(t, place), nand_sem' = nand_sem, io' = io, lag' = lag,
             f'.fwritennum \in {0, f.fwritennum}
      PROVE  /\ pc' \in [Threads -> Outside \cup Holding]
             /\ nand_sem \in Threads => pc'[nand_sem] \in Holding
             /\ Held' /\ Timely' /\ Locals'
  <2>1. /\ pc' \in [Threads -> Outside \cup Holding]
        /\ nand_sem \in Threads => pc'[nand_sem] \in Holding
        /\ \A u \in Threads : pc'[u] \in Holding => pc'[u] = pc[u]
        /\ \A S \in SUBSET Holding : Writing(S)' <=> Writing(S)
    BY <1>1, <1>2, OutsideStep, Places
  <2>2. Held'
    BY <1>1, <1>2, <2>1 DEF Held
  <2>3. Timely'
    <3>1. ASSUME NEW u \in Threads,
                 pc'[u] \in InWrite \cup {"write"} \/ (pc'[u] = "test" /\ f'.fwritennum # 0)
          PROVE  lag < MaxLag
      <4>1. pc'[u] = pc[u]
        BY <2>1, <3>1, Places
      <4>2. f'.fwritennum # 0 => f.fwritennum # 0
        BY <1>2
      <4>3. QED
        BY <1>1, <3>1, <4>1, <4>2 DEF Timely
    <3>2. QED
      BY <1>2, <3>1 DEF Timely
  <2>4. Locals'
    <3>1. Writing({"program"})' => io' \in Sectors
      BY <1>1, <1>2, <2>1, Places DEF Locals
    <3>2. Writing({"count", "full"})' => io' < RegionSize
      BY <1>1, <1>2, <2>1, Places DEF Locals
    <3>3. IF Writing({"full"})' THEN f'.fwritennum \in {0, io' + 1}
          ELSE f'.fwritennum < RegionSize
      <4>1. Writing({"full"})' <=> Writing({"full"})
        BY <2>1, Places
      <4>2. 0 < RegionSize
        BY Sizes
      <4>3. QED
        BY <1>1, <1>2, <4>1, <4>2 DEF Locals
    <3>4. QED
      BY <3>1, <3>2, <3>3 DEF Locals
  <2>5. QED
    BY <2>1, <2>2, <2>3, <2>4
\* What leaves the threads where they are.
<1>3. ASSUME UNCHANGED <<pc, nand_sem, io, lag, f>>
      PROVE  Held' /\ Timely' /\ Locals'
  BY <1>1, <1>3 DEF Held, Timely, Locals, Writing
<1>4. ASSUME NEW p \in Sectors, NEW v \in Values, Change(p, v) PROVE TypeInv'
  <2>1. image' \in Images /\ changes' \in 0 .. MaxChanges /\ undone' \in BOOLEAN
    BY <1>1, <1>4, StoredAssumption DEF Change, TypeOK, Images, Hides
  <2>2. Held' /\ Timely' /\ Locals'
    BY <1>3, <1>4 DEF Change
  <2>3. QED
    BY <1>1, <1>4, <2>1, <2>2 DEF Change, TypeOK, Regular, Behind, Distance, Pieces
<1>5. CASE Call
  <2>1. calls' \in 0 .. MaxCalls
    BY <1>1, <1>5, StoredAssumption DEF Call, TypeOK
  <2>2. /\ pc' \in [Threads -> Outside \cup Holding]
        /\ nand_sem \in Threads => pc'[nand_sem] \in Holding
        /\ Held' /\ Timely' /\ Locals'
    <3>1. "saver" \in Threads /\ "hash" \in Outside /\ pc["saver"] \in Outside
      BY <1>5 DEF Call, Threads, Outside
    <3>2. Goes("saver", "hash") /\ UNCHANGED <<nand_sem, io, lag, f>>
      BY <1>5 DEF Call
    <3>3. QED
      BY <1>2, <3>1, <3>2
  <2>3. QED
    BY <1>1, <1>5, <2>1, <2>2 DEF Call, TypeOK, Regular, Behind, Distance, Pieces
<1>6. ASSUME NEW t \in Threads, HashPiece(t) PROVE TypeInv'
  <2>1. image[Len(hash[t]) + 1] \in Values /\ hash[t] \in Seq(Values)
    BY <1>1, <1>6, Sizes, LenProperties DEF HashPiece, TypeOK, Pieces, Images, Sectors
  <2>2. /\ hash' \in [Threads -> Seq(Values)] /\ Len(hash'[t]) <= RegionSize
        /\ \A u \in Threads \ {t} : hash'[u] = hash[u]
    BY <1>1, <1>6, <2>1, Sizes, AppendProperties, LenProperties DEF HashPiece, Pieces
  <2>3. Held' /\ Timely' /\ Locals'
    BY <1>3, <1>6 DEF HashPiece
  <2>4. QED
    BY <1>1, <1>6, <2>2, <2>3 DEF HashPiece, TypeOK, Regular, Behind, Distance, Pieces
<1>7. ASSUME NEW t \in Threads, hash' = [hash EXCEPT ![t] = << >>]
      PROVE  /\ hash' \in [Threads -> Seq(Values)]
             /\ \A u \in Threads : Len(hash'[u]) <= RegionSize
  <2>1. << >> \in Seq(Values) /\ Len(<< >>) = 0
    OBVIOUS
  <2>2. /\ hash' \in [Threads -> Seq(Values)] /\ hash'[t] = << >>
        /\ \A u \in Threads \ {t} : hash'[u] = hash[u]
    BY <1>1, <1>7, <2>1 DEF Pieces
  <2>3. 0 <= RegionSize /\ \A u \in Threads : Len(hash[u]) <= RegionSize
    BY <1>1, Sizes DEF TypeOK
  <2>4. QED
    BY <2>1, <2>2, <2>3
<1>8. CASE Unchanged
  <2>1. Held' /\ Timely' /\ Locals'
    BY <1>3, <1>8 DEF Unchanged
  <2>2. QED
    BY <1>1, <1>7, <1>8, <2>1 DEF Unchanged, Threads, TypeOK, Regular, Behind, Distance, Pieces
<1>9. ASSUME NEW t \in Threads, StoreSum(t) PROVE TypeInv'
  <2>1. sum' \in Images
    <3>1. hash[t] \in Seq(Values) /\ Len(hash[t]) = RegionSize
      BY <1>1, <1>9 DEF StoreSum, Hashed, Pieces
    <3>2. QED
      BY <1>9, <3>1, LenProperties DEF StoreSum, Images, Sectors
  <2>2. /\ pc' \in [Threads -> Outside \cup Holding]
        /\ nand_sem \in Threads => pc'[nand_sem] \in Holding
        /\ Held' /\ Timely' /\ Locals'
    <3>1. pc[t] \in Outside /\ "set" \in Outside /\ Goes(t, "set")
          /\ UNCHANGED <<nand_sem, io, lag, f>>
      BY <1>9 DEF StoreSum, Hashed, Outside
    <3>2. QED
      BY <1>2, <3>1
  <2>3. Pieces' /\ \A u \in Threads : Len(hash'[u]) <= RegionSize
    BY <1>7, <1>9 DEF StoreSum, Pieces
  <2>4. TypeOK'
    BY <1>1, <1>9, <2>1, <2>2, <2>3 DEF StoreSum, TypeOK, Pieces
  <2>5. QED
    BY <1>1, <1>9, <2>2, <2>3, <2>4 DEF StoreSum, Regular, Behind, Distance
<1>10. ASSUME NEW t \in Threads, SetCount(t) \/ SetAddress(t) PROVE TypeInv'
  <2>1. /\ f' \in FileStructs /\ f'.fsize = f.fsize /\ f'.fstartaddr = f.fstartaddr
        /\ f'.fwritennum \in {0, f.fwritennum}
    <3>1. f.fstartaddr \in 0 .. AreaSize /\ 0 \in 0 .. AreaSize - 1
      BY <1>1, Sizes DEF TypeOK, FileStructs, Pages
    <3>2. QED
      BY <1>1, <1>10, <3>1 DEF SetCount, SetAddress, TypeOK, FileStructs
  <2>2. /\ pc' \in [Threads -> Outside \cup Holding]
        /\ nand_sem \in Threads => pc'[nand_sem] \in Holding
        /\ Held' /\ Timely' /\ Locals'
    <3>1. PICK place \in Outside : pc[t] \in Outside /\ Goes(t, place)
                                   /\ UNCHANGED <<nand_sem, io, lag>>
      BY <1>10 DEF SetCount, SetAddress, Outside
    <3>2. QED
      BY <1>2, <2>1, <3>1
  <2>3. Regular'
    BY <1>1, <1>10, <2>1, Sizes DEF SetCount, SetAddress, Regular
  <2>4. again' \in BOOLEAN
    BY <1>1, <1>10 DEF SetCount, SetAddress, TypeOK
  <2>5. QED
    BY <1>1, <1>10, <2>1, <2>2, <2>3, <2>4 DEF SetCount, SetAddress, TypeOK, Behind, Distance,
                                        Pieces
<1>11. ASSUME NEW t \in Threads, Take(t) PROVE TypeInv'
  <2>1. /\ pc' = [pc EXCEPT ![t] = "write"] /\ nand_sem' = t /\ nand_sem = None /\ lag < MaxLag
        /\ UNCHANGED <<imageVars, flashVars, hash, io, boundVars, historyVars>>
    BY <1>11 DEF Take, Goes
  <2>2. /\ \A u \in Threads : pc[u] \notin Holding
        /\ \A S \in SUBSET Holding : ~Writing(S)
    BY <1>1, <2>1, Free, StoredAssumption
  <2>3. /\ pc' \in [Threads -> Outside \cup Holding]
        /\ pc'[t] = "write" /\ \A u \in Threads \ {t} : pc'[u] \notin Holding
    BY <1>1, <2>1, <2>2, Places DEF TypeOK
  <2>4. Held' /\ Timely'
    BY <2>1, <2>3, Places DEF Held, Timely
  <2>5. Locals'
    <3>1. "write" \notin InWrite
      BY DEF InWrite
    <3>2. \A S \in SUBSET InWrite : ~Writing(S)'
      BY <2>3, <3>1, Places DEF Writing
    <3>3. f'.fwritennum < RegionSize
      BY <1>1, <2>1, <2>2, Places DEF Locals
    <3>4. QED
      BY <3>2, <3>3, Places DEF Locals
  <2>6. nand_sem' \in Threads => pc'[nand_sem'] \in Holding
    BY <2>1, <2>3, Places
  <2>7. QED
    BY <1>1, <2>1, <2>3, <2>4, <2>5, <2>6 DEF TypeOK, Regular, Behind, Distance, Pieces
\* The steps of fwrite_w.
<1>12. ASSUME NEW t \in Threads, FetchPage(t) PROVE TypeInv'
  <2>1. pc[t] = "write" /\ Goes(t, "program") /\ nand_sem' = nand_sem /\ io' = f.fwritennum + 1
        /\ UNCHANGED <<f, lag>>
    BY <1>12 DEF FetchPage
  <2>2. pc[t] \in Holding /\ "program" \in InWrite /\ "program" \in Holding
    BY <2>1, Places DEF InWrite
  <2>3. /\ pc' \in [Threads -> Outside \cup Holding] /\ pc'[t] = "program"
        /\ nand_sem' = t /\ Held' /\ \A u \in Threads \ {t} : pc'[u] \notin Holding
        /\ \A S \in SUBSET Holding : /\ Writing(S) <=> pc[t] \in S
                                     /\ Writing(S)' <=> "program" \in S
    BY <1>1, <2>1, <2>2, HoldingStep
  <2>4. f.fwritennum \in Nat /\ f.fwritennum < RegionSize
    BY <1>1, <2>1, <2>3, Places DEF Locals, TypeOK, FileStructs
  <2>5. io' \in Sectors /\ io' \in 0 .. AreaSize
    BY <2>1, <2>4, Sizes DEF Sectors
  <2>6. Locals'
    <3>1. ~Writing({"count", "full"})' /\ ~Writing({"full"})'
      BY <2>3, Places
    <3>2. QED
      BY <2>1, <2>4, <2>5, <3>1 DEF Locals
  <2>7. Timely'
    <3>1. lag < MaxLag
      BY <1>1, <2>1 DEF Timely
    <3>2. QED
      BY <2>1, <3>1 DEF Timely
  <2>8. QED
    BY <1>1, <1>12, <2>2, <2>3, <2>5, <2>6, <2>7 DEF FetchPage, TypeOK, Regular, Behind,
                                             Distance, Pieces
<1>13. ASSUME NEW t \in Threads, ProgramPage(t) PROVE TypeInv'
  <2>1. pc[t] = "program" /\ Goes(t, "address") /\ nand_sem' = nand_sem /\ UNCHANGED <<f, lag>>
    BY <1>13 DEF ProgramPage
  <2>2. pc[t] \in Holding /\ "address" \in InWrite /\ "address" \in Holding
    BY <2>1, Places DEF InWrite
  <2>3. /\ pc' \in [Threads -> Outside \cup Holding] /\ pc'[t] = "address"
        /\ nand_sem' = t /\ Held' /\ \A u \in Threads \ {t} : pc'[u] \notin Holding
        /\ \A S \in SUBSET Holding : /\ Writing(S) <=> pc[t] \in S
                                     /\ Writing(S)' <=> "address" \in S
    BY <1>1, <2>1, <2>2, HoldingStep
  <2>4. /\ area' \in [Pages -> Contents] /\ io' \in 0 .. AreaSize
        /\ lag < MaxLag /\ f.fwritennum < RegionSize
    BY <1>1, <1>13, ProgramKeepsTypes
  <2>5. Locals'
    <3>1. ~Writing({"program"})' /\ ~Writing({"count", "full"})' /\ ~Writing({"full"})'
      BY <2>3, Places
    <3>2. QED
      BY <2>1, <2>4, <3>1 DEF Locals
  <2>6. Timely'
    BY <2>1, <2>4 DEF Timely
  <2>7. QED
    BY <1>1, <1>13, <2>2, <2>3, <2>4, <2>5, <2>6 DEF ProgramPage, TypeOK, Regular, Behind,
                                             Distance, Pieces
<1>14. ASSUME NEW t \in Threads, AdvanceAddress(t) PROVE TypeInv'
  <2>1. /\ pc[t] = "address" /\ Goes(t, "count") /\ nand_sem' = nand_sem /\ lag' = lag
        /\ f' = [f EXCEPT !.fcuraddr = io] /\ io' = f.fwritennum
    BY <1>14 DEF AdvanceAddress
  <2>2. /\ pc[t] \in InWrite /\ pc[t] \in Holding
        /\ "count" \in InWrite /\ "count" \in Holding
    BY <2>1, Places DEF InWrite
  <2>3. /\ pc' \in [Threads -> Outside \cup Holding] /\ pc'[t] = "count"
        /\ nand_sem' = t /\ Held' /\ \A u \in Threads \ {t} : pc'[u] \notin Holding
        /\ \A S \in SUBSET Holding : /\ Writing(S) <=> pc[t] \in S
                                     /\ Writing(S)' <=> "count" \in S
    BY <1>1, <2>1, <2>2, HoldingStep
  <2>4. /\ f \in FileStructs /\ io \in 0 .. AreaSize /\ f.fwritennum \in Nat
        /\ f.fwritennum < RegionSize
    BY <1>1, <2>1, <2>3, Places DEF TypeOK, FileStructs, Locals
  <2>5. /\ f' \in FileStructs /\ f'.fwritennum = f.fwritennum /\ f'.fsize = f.fsize
        /\ f'.fstartaddr = f.fstartaddr
    BY <2>1, <2>4 DEF FileStructs
  <2>6. io' \in 0 .. AreaSize /\ io' < RegionSize
    BY <2>1, <2>4, Sizes
  <2>7. Locals'
    <3>1. ~Writing({"program"})' /\ ~Writing({"full"})'
      BY <2>3, Places
    <3>2. QED
      BY <2>4, <2>5, <2>6, <3>1 DEF Locals
  <2>8. Timely'
    <3>1. lag < MaxLag
      BY <1>1, <2>2 DEF Timely
    <3>2. QED
      BY <2>1, <3>1 DEF Timely
  <2>9. QED
    BY <1>1, <1>14, <2>2, <2>3, <2>5, <2>6, <2>7, <2>8
       DEF AdvanceAddress, TypeOK, Regular, Behind, Distance, Pieces
<1>15. ASSUME NEW t \in Threads, AdvanceCount(t) PROVE TypeInv'
  <2>1. /\ pc[t] = "count" /\ Goes(t, "full") /\ nand_sem' = nand_sem /\ UNCHANGED <<io, lag>>
        /\ f' = [f EXCEPT !.fwritennum = io + 1]
    BY <1>15 DEF AdvanceCount
  <2>2. /\ pc[t] \in InWrite /\ pc[t] \in Holding
        /\ "full" \in InWrite /\ "full" \in Holding
    BY <2>1, Places DEF InWrite
  <2>3. /\ pc' \in [Threads -> Outside \cup Holding] /\ pc'[t] = "full"
        /\ nand_sem' = t /\ Held' /\ \A u \in Threads \ {t} : pc'[u] \notin Holding
        /\ \A S \in SUBSET Holding : /\ Writing(S) <=> pc[t] \in S
                                     /\ Writing(S)' <=> "full" \in S
    BY <1>1, <2>1, <2>2, HoldingStep
  <2>4. io \in Nat /\ io < RegionSize /\ f \in FileStructs
    BY <1>1, <2>1, <2>3, Sizes, Places DEF TypeOK, Locals
  <2>5. /\ f' \in FileStructs /\ f'.fwritennum = io + 1 /\ f'.fsize = f.fsize
        /\ f'.fstartaddr = f.fstartaddr
    <3>1. io + 1 \in 0 .. AreaSize - 1
      BY <2>4, Sizes
    <3>2. QED
      BY <2>1, <2>4, <3>1 DEF FileStructs
  <2>6. Locals'
    <3>1. ~Writing({"program"})' /\ Writing({"full"})'
      BY <2>3, Places
    <3>2. QED
      BY <2>1, <2>4, <2>5, <3>1 DEF Locals
  <2>7. Timely'
    <3>1. lag < MaxLag
      BY <1>1, <2>2 DEF Timely
    <3>2. QED
      BY <2>1, <3>1 DEF Timely
  <2>8. Regular'
    BY <1>1, <1>15, <2>4, <2>5, Sizes DEF AdvanceCount, Regular
  <2>9. QED
    BY <1>1, <1>15, <2>2, <2>3, <2>5, <2>6, <2>7, <2>8
       DEF AdvanceCount, TypeOK, Behind, Distance, Pieces
<1>16. ASSUME NEW t \in Threads, CompleteFile(t) PROVE TypeInv'
  <2>1. pc[t] = "full" /\ Goes(t, "test") /\ nand_sem' = nand_sem /\ io' = 0
    BY <1>16 DEF CompleteFile
  <2>2. pc[t] \in Holding /\ "test" \in Holding /\ "test" \notin InWrite
    BY <2>1, Places DEF InWrite
  <2>3. /\ pc' \in [Threads -> Outside \cup Holding] /\ pc'[t] = "test"
        /\ nand_sem' = t /\ Held' /\ \A u \in Threads \ {t} : pc'[u] \notin Holding
        /\ \A S \in SUBSET Holding : /\ Writing(S) <=> pc[t] \in S
                                     /\ Writing(S)' <=> "test" \in S
    BY <1>1, <2>1, <2>2, HoldingStep
  <2>4. /\ f' \in FileStructs /\ Regular' /\ Behind' /\ f'.fwritennum < RegionSize
        /\ lag < MaxLag /\ lag' \in 0 .. MaxLag /\ dirty' \in BOOLEAN
        /\ f'.fwritennum = 0 \/ lag' = lag
    BY <1>1, <1>16, CompleteKeepsTypes
  <2>5. Locals'
    <3>1. ~Writing({"program"})' /\ ~Writing({"count", "full"})' /\ ~Writing({"full"})'
      BY <2>3, Places
    <3>2. QED
      BY <2>4, <3>1 DEF Locals
  <2>6. Timely'
    BY <2>2, <2>3, <2>4, Places DEF Timely
  <2>7. io' \in 0 .. AreaSize
    BY <2>1, Sizes
  <2>8. QED
    BY <1>1, <1>16, <2>2, <2>3, <2>4, <2>5, <2>6, <2>7 DEF CompleteFile, TypeOK, Pieces
<1>17. ASSUME NEW t \in Threads, Test(t) PROVE TypeInv'
  <2>1. /\ pc[t] = "test" /\ pc[t] \in Holding /\ pc[t] \notin InWrite
        /\ nand_sem = t /\ \A u \in Threads \ {t} : pc[u] \notin Holding
    BY <1>1, <1>17, Places DEF Held, Test, InWrite
  <2>2. PICK place \in {"write", "hash", "idle"} :
           /\ pc' = [pc EXCEPT ![t] = place]
           /\ place = "write" => f.fwritennum # 0 /\ nand_sem' = t
           /\ place # "write" => nand_sem' = None
    BY <1>17, <2>1 DEF Test, Goes
  <2>3. /\ pc' \in [Threads -> Outside \cup Holding]
        /\ pc'[t] = place /\ \A u \in Threads \ {t} : pc'[u] \notin Holding
    BY <1>1, <2>1, <2>2 DEF TypeOK, Outside, Holding
  <2>4. place = "write" => lag < MaxLag
    BY <1>1, <2>1, <2>2 DEF Timely
  <2>5. place \notin InWrite /\ place # "test" /\ (place \in Holding => place = "write")
    BY DEF InWrite, Holding
  <2>6. Held' /\ Timely'
    <3>1. lag' = lag
      BY <1>17 DEF Test
    <3>2. Held'
      BY <2>2, <2>3, <2>5 DEF Held
    <3>3. Timely'
      BY <2>3, <2>4, <2>5, <3>1, Places DEF Timely
    <3>4. QED
      BY <3>2, <3>3
  <2>7. nand_sem' \in Threads => pc'[nand_sem'] \in Holding
    BY <2>2, <2>3, StoredAssumption, Places
  <2>8. Locals'
    <3>1. \A S \in SUBSET InWrite : ~Writing(S)'
      BY <2>3, <2>5, Places DEF Writing
    <3>2. ~Writing({"full"})
      BY <2>1, Places DEF Writing
    <3>3. f'.fwritennum < RegionSize
      BY <1>1, <1>17, <3>2 DEF Test, Locals
    <3>4. QED
      BY <3>1, <3>3, Places DEF Locals
  <2>9. QED
    BY <1>1, <1>17, <2>2, <2>3, <2>6, <2>7, <2>8 DEF Test, TypeOK, Regular, Behind, Distance,
                                             Pieces
<1>18. CASE Attend
  <2>1. /\ \A u \in Threads : pc[u] \notin Holding
        /\ nand_sem' \notin Threads
    BY <1>1, <1>18, Free, StoredAssumption DEF Attend, Threads
  <2>2. Held' /\ Timely' /\ Locals'
    BY <1>1, <1>18, <2>1, Places DEF Attend, Held, Timely, Locals, Writing
  <2>3. QED
    BY <1>1, <1>18, <2>1, <2>2 DEF Attend, TypeOK, Regular, Behind, Distance, Pieces
<1>19. CASE SaveTable
  <2>1. \A u \in Threads : pc[u] \notin Holding
    BY <1>1, <1>19, Free DEF SaveTable, Threads
  <2>2. lag' = 0 /\ Distance' = 0 /\ saved' = f.fstartaddr /\ f' = f /\ nand_sem' = None
    BY <1>19, Sizes DEF SaveTable, Distance
  <2>3. f.fstartaddr \in Pages /\ f.fstartaddr \in Int
    BY <1>1, Sizes DEF TypeOK, FileStructs, Pages
  <2>4. Behind' /\ Regular'
    BY <1>1, <2>2, <2>3, Sizes DEF Behind, Regular
  <2>5. 0 \in 0 .. MaxLag
    BY Sizes
  <2>6. Held' /\ Timely' /\ Locals'
    <3>1. pc' = pc /\ io' = io
      BY <1>19 DEF SaveTable
    <3>2. QED
      BY <1>1, <2>1, <2>2, <3>1, Places DEF Held, Timely, Locals, Writing
  <2>7. QED
    BY <1>1, <1>19, <2>2, <2>3, <2>4, <2>5, <2>6, StoredAssumption
       DEF SaveTable, TypeOK, Pieces
<1>20. CASE PowerCut
  <2>1. /\ f' = File(saved) /\ saved' = saved /\ lag' = 0 /\ nand_sem' = None /\ io' = 0
        /\ hash' = [t \in Threads |-> << >>]
        /\ pc' = [t \in Threads |-> IF t = "task" THEN "hash" ELSE "idle"]
        /\ sum' \in Images /\ image' \in Images /\ dirty' = FALSE
        /\ UNCHANGED <<area, changes, calls, undone>>
    BY <1>20 DEF PowerCut
  <2>2. saved \in Pages /\ saved \in Int
    BY <1>1, Sizes DEF TypeOK, Pages
  <2>3. /\ f' \in FileStructs /\ f'.fsize = RegionSize /\ f'.fwritennum = 0
        /\ f'.fstartaddr = saved
    BY <2>1, <2>2, FileType
  <2>4. Distance' = 0
    BY <2>1, Sizes DEF Distance
  <2>5. Regular' /\ Behind'
    BY <1>1, <2>1, <2>2, <2>3, <2>4, Sizes DEF Regular, Behind
  <2>6. /\ pc' \in [Threads -> Outside \cup Holding]
        /\ \A t \in Threads : pc'[t] \notin Holding
    BY <2>1 DEF Outside, Holding, InWrite
  <2>7. Held' /\ Timely' /\ Locals'
    BY <2>3, <2>6, Sizes, Places DEF Held, Timely, Locals, Writing
  <2>8. hash' \in [Threads -> Seq(Values)] /\ \A t \in Threads : Len(hash'[t]) <= RegionSize
    BY <2>1, Sizes
  <2>9. cuts' \in 0 .. MaxCuts /\ again' \in BOOLEAN /\ lag' \in 0 .. MaxLag
        /\ nand_sem' \notin Threads /\ io' \in 0 .. AreaSize
    BY <1>1, <1>20, <2>1, Sizes, StoredAssumption DEF PowerCut, TypeOK
  <2>10. TypeOK'
    BY <1>1, <2>1, <2>2, <2>3, <2>6, <2>8, <2>9 DEF TypeOK
  <2>11. QED
    BY <2>5, <2>7, <2>8, <2>10 DEF Pieces
<1>21. CASE UNCHANGED vars
  <2>1. Held' /\ Timely' /\ Locals'
    BY <1>3, <1>21 DEF vars
  <2>2. QED
    BY <1>1, <1>21, <2>1 DEF vars, TypeOK, Regular, Behind, Distance, Pieces
<1>22. QED
  BY <1>1, <1>4, <1>5, <1>6, <1>8, <1>9, <1>10, <1>11, <1>12, <1>13, <1>14, <1>15, <1>16,
     <1>17, <1>18, <1>19, <1>20, <1>21 DEF Next, Step

\* The stored image and its file stay within their types, whatever the threads
\* do to the place of the writer and wherever power is cut.
THEOREM StoreTypeCorrect == Spec => []TypeOK
<1>1. TypeInv => TypeOK
  BY DEF TypeInv
<1>2. QED
  BY <1>1, InitTypeInv, NextTypeInv, PTL DEF Spec

(***************************************************************************)
(* The pages.  Until a region is begun twice or a writer's place is moved, *)
(* the pages written so far hold data, and those that follow them in the   *)
(* block are erased.  A page is written before it is counted, and the      *)
(* count that is read is not that in memory any more when the other thread *)
(* has set it back in the meantime.                                        *)
(***************************************************************************)
Start == NewStart(f)

\* The pages of the next region that are programmed.
Filled == IF Writing({"address"}) THEN f.fwritennum + 1
          ELSE IF Writing({"count", "full"}) THEN io + 1 ELSE f.fwritennum

\* The place of the next page.
Placed ==
    /\ IF Writing({"count"}) THEN f.fcuraddr = Start + (io + 1)
       ELSE f.fwritennum # 0 => f.fcuraddr = Start + f.fwritennum
    /\ Writing({"address"}) => io = Start + (f.fwritennum + 1)
    /\ Writing({"full"}) /\ Second(Start) => f.fwritennum # 0

Begun ==
    /\ Placed
    /\ \A i \in 0 .. Filled - 1 : area[Start + i] \in Data
    /\ Second(Start) =>
          \A i \in Filled .. RegionSize - 1 : area[Start + i] = Erased
    /\ First(Start) /\ Filled # 0 =>
          \A i \in Filled .. BlockSize - 1 : area[Start + i] = Erased
Intact == ~again => Begun

\* The next region, in numbers.
LEMMA StartPlace ==
    ASSUME TypeInv
    PROVE  /\ Start \in Pages /\ Start \in Nat /\ Start + RegionSize <= AreaSize
           /\ First(Start) \/ Second(Start)
           /\ First(Start) => Start + BlockSize <= AreaSize /\ ~Second(Start)
           /\ First(Start) <=> Second(f.fstartaddr)
           /\ f.fwritennum \in Nat /\ f.fwritennum <= RegionSize
           /\ f.fstartaddr \in Nat /\ f.fstartaddr + RegionSize <= AreaSize
           /\ saved \in Nat /\ saved + RegionSize <= AreaSize
           /\ Start = IF f.fstartaddr + RegionSize >= AreaSize
                      THEN f.fstartaddr + RegionSize - AreaSize ELSE f.fstartaddr + RegionSize
<1>1. /\ f.fstartaddr \in Pages /\ saved \in Pages
      /\ First(f.fstartaddr) \/ Second(f.fstartaddr)
      /\ First(saved) \/ Second(saved)
      /\ f.fwritennum \in Nat /\ f.fwritennum <= RegionSize
  BY DEF TypeInv, TypeOK, Regular, FileStructs
<1>2. Start = Following(f.fstartaddr)
  BY DEF Start, NewStart, Following
<1>3. /\ Start \in Pages /\ Start + RegionSize <= AreaSize
      /\ First(Start) \/ Second(Start)
      /\ First(Start) <=> Second(f.fstartaddr)
      /\ f.fstartaddr + RegionSize <= AreaSize /\ saved + RegionSize <= AreaSize
  BY <1>1, <1>2, FollowingRegion
<1>4. First(Start) => Start + BlockSize <= AreaSize /\ ~Second(Start)
  BY <1>3, FirstHalf
<1>5. Start \in Nat /\ f.fstartaddr \in Nat /\ saved \in Nat
  BY <1>1, <1>3, Sizes DEF Pages
<1>6. Start = IF f.fstartaddr + RegionSize >= AreaSize
              THEN f.fstartaddr + RegionSize - AreaSize ELSE f.fstartaddr + RegionSize
  BY <1>5, Sizes DEF Start, NewStart, Wrap
<1>7. QED
  BY <1>1, <1>3, <1>4, <1>5, <1>6

\* Neither the current region nor the one that the saved table names is
\* written to, nor in a block that is erased.
LEMMA Clear ==
    ASSUME TypeInv, lag < MaxLag, NEW x \in {f.fstartaddr, saved}, NEW p \in Sectors
    PROVE  LET q == x + p - 1
           IN  /\ q \in Pages
               /\ q < Start \/ q >= Start + RegionSize
               /\ First(Start) => q < Start \/ q >= Start + BlockSize
<1>. DEFINE q == x + p - 1
            s == f.fstartaddr
            v == saved
            d == Distance
            t == Start
<1>1. /\ s \in Nat /\ s + RegionSize <= AreaSize /\ v \in Nat /\ v + RegionSize <= AreaSize
      /\ t \in Nat /\ t + RegionSize <= AreaSize
      /\ First(t) => t + BlockSize <= AreaSize
      /\ t = IF s + RegionSize >= AreaSize THEN s + RegionSize - AreaSize
             ELSE s + RegionSize
  BY StartPlace
<1>2. d \in Nat /\ d + 3 * RegionSize <= AreaSize
  BY Distances DEF TypeInv, TypeOK
<1>3. v = s - d \/ v = s - d + AreaSize
  BY DEF TypeInv, Behind
<1>4. p \in Nat /\ p >= 1 /\ p <= RegionSize /\ (x = s \/ x = v)
  BY Sizes DEF Sectors
<1>. HIDE DEF s, v, d, t
<1>5. q \in Nat /\ q >= x /\ q < x + RegionSize /\ q < AreaSize
  <2>1. x \in Nat /\ x + RegionSize <= AreaSize
    BY <1>1, <1>4
  <2>. HIDE DEF q
  <2>2. q = x + p - 1
    BY DEF q
  <2>3. QED
    BY <1>4, <2>1, <2>2, Sizes
<1>. HIDE DEF q
<1>6. x < t => x + RegionSize <= t
  <2>1. CASE x = s
    BY <1>1, <1>2, <2>1, Sizes
  <2>2. CASE x = v /\ s + RegionSize >= AreaSize
    BY <1>1, <2>2, Sizes
  <2>3. CASE x = v /\ ~(s + RegionSize >= AreaSize)
    BY <1>1, <1>2, <1>3, <2>3, Sizes
  <2>4. QED
    BY <1>4, <2>1, <2>2, <2>3
<1>7. x >= t => x >= t + BlockSize
  <2>1. CASE s + RegionSize >= AreaSize
    BY <1>1, <1>2, <1>3, <1>4, <2>1, Sizes
  <2>2. CASE ~(s + RegionSize >= AreaSize)
    BY <1>1, <1>2, <1>3, <1>4, <2>2, Sizes
  <2>3. QED
    BY <2>1, <2>2
<1>8. q < t \/ q >= t + BlockSize
  BY <1>1, <1>4, <1>5, <1>6, <1>7, Sizes
<1>9. q \in Pages
  BY <1>5, Sizes DEF Pages
<1>10. QED
  BY <1>1, <1>5, <1>8, <1>9, Sizes DEF q, t

\* What programming one more page does to the pages.
LEMMA PageWritten ==
    ASSUME TypeInv, Begun, NEW u \in Threads, ProgramPage(u)
    PROVE  /\ WriteAddress(f) = Start + f.fwritennum /\ f.fwritennum < RegionSize
           /\ Filled = f.fwritennum
           /\ area'[Start + f.fwritennum] \in Data
           /\ \A p \in Pages \ {Start + f.fwritennum} :
                 area'[p] = IF f.fwritennum = 0 /\ First(Start)
                               /\ Start <= p /\ p < Start + BlockSize
                            THEN Erased ELSE area[p]
<1>. DEFINE n == f.fwritennum
            t == Start
            a == t + n
            c == Page(io, sum, image)
<1>1. /\ t \in Pages /\ t \in Nat /\ t + RegionSize <= AreaSize
      /\ First(t) \/ Second(t)
      /\ First(t) => ~Second(t)
      /\ n \in Nat /\ n < RegionSize
  BY StartPlace, ProgramKeepsTypes
<1>0. Filled = n /\ ~Writing({"count"})
  <2>1. pc[u] = "program" /\ pc[u] \in Holding
    BY Places DEF ProgramPage, InWrite
  <2>2. ~Writing({"address"}) /\ ~Writing({"count", "full"}) /\ ~Writing({"count"})
    BY <2>1, HolderIsAlone, Places DEF HolderPlace, TypeInv
  <2>3. QED
    BY <2>2 DEF Filled
<1>2. a \in Pages /\ a \in Nat
  BY <1>1, Sizes DEF Pages
<1>3. WriteAddress(f) = a
  <2>1. CASE n = 0
    BY <1>1, <2>1 DEF WriteAddress, Start
  <2>2. CASE n # 0
    <3>1. f.fcuraddr = a
      BY <1>0, <2>2 DEF Begun, Placed
    <3>2. a < AreaSize
      BY <1>1, Sizes
    <3>3. QED
      BY <1>2, <2>2, <3>1, <3>2, Sizes DEF WriteAddress, Wrap
  <2>3. QED
    BY <2>1, <2>2
<1>4. area' = Programmed(area, a, c) /\ c \in Data /\ area \in [Pages -> Contents]
  BY <1>3, ProgramKeepsTypes DEF TypeInv, TypeOK
<1>5. First(a) <=> n = 0 /\ First(t)
  <2>1. CASE n = 0
    BY <1>1, <2>1
  <2>2. CASE n # 0 /\ First(t)
    BY <1>1, <1>2, <2>2, Inside, Sizes
  <2>3. CASE n # 0 /\ Second(t)
    <3>1. t - RegionSize \in Nat /\ First(t - RegionSize)
      BY <1>1, <2>3, Sizes DEF Second
    <3>2. a > t - RegionSize /\ a < t - RegionSize + BlockSize
      BY <1>1, <3>1, Sizes
    <3>3. ~First(a)
      BY <1>2, <3>1, <3>2, Inside
    <3>4. QED
      BY <2>3, <3>3
  <2>4. QED
    BY <1>1, <2>1, <2>2, <2>3
<1>. HIDE DEF c
<1>6. area'[a] \in Data
  <2>1. First(a) \/ area[a] = Erased
    <3>1. CASE Second(t)
      <4>1. n \in n .. RegionSize - 1
        BY <1>1, Sizes
      <4>2. QED
        BY <1>0, <3>1, <4>1 DEF Begun
    <3>2. CASE First(t) /\ n # 0
      <4>1. n \in n .. BlockSize - 1
        BY <1>1, Sizes
      <4>2. QED
        BY <1>0, <3>2, <4>1 DEF Begun
    <3>3. QED
      BY <1>1, <1>5, <3>1, <3>2
  <2>2. area'[a] = c
    BY <1>2, <1>4, <2>1, ProgrammedPages DEF First
  <2>3. QED
    BY <1>4, <2>2
<1>7. ASSUME NEW p \in Pages \ {a}
      PROVE  area'[p] = IF n = 0 /\ First(t) /\ t <= p /\ p < t + BlockSize
                        THEN Erased ELSE area[p]
  <2>1. area'[p] = IF First(a) /\ p \in BlockOf(a) THEN Erased ELSE area[p]
    BY <1>2, <1>4, <1>7, ProgrammedPages DEF First
  <2>2. First(a) => (p \in BlockOf(a) <=> a <= p /\ p < a + BlockSize)
    BY <1>2, <1>7, BlockPages DEF First
  <2>3. n = 0 => a = t
    BY <1>1
  <2>4. QED
    BY <1>5, <2>1, <2>2, <2>3
<1>8. QED
  BY <1>0, <1>1, <1>3, <1>6, <1>7

\* The next region is erased at first.
LEMMA InitIntact == Init => Intact
<1>1. SUFFICES ASSUME Init PROVE Begun
  BY DEF Intact
<1>2. TypeInv
  BY <1>1, InitTypeInv
<1>3. 0 \in Pages /\ f = File(0)
  BY <1>1, Sizes DEF Init, Pages
<1>4. f.fwritennum = 0 /\ f.fstartaddr = 0
  BY <1>3, FileType
<1>5. Start = RegionSize /\ Start + RegionSize <= AreaSize
  BY <1>2, <1>4, StartPlace, Sizes
<1>6. ASSUME NEW i \in 0 .. RegionSize - 1
      PROVE  area[Start + i] = Erased
  <2>1. Start + i \in Pages /\ ~(Start + i < RegionSize)
    BY <1>5, Sizes DEF Pages
  <2>2. QED
    BY <1>1, <2>1 DEF Init
<1>7. \A i \in 0 .. 0 - 1 : FALSE
  OBVIOUS
<1>8. \A S \in SUBSET InWrite : ~Writing(S)
  BY <1>1 DEF Init, Writing, InWrite
<1>9. Filled = 0 /\ Placed
  BY <1>4, <1>8, Places DEF Filled, Placed
<1>10. QED
  BY <1>6, <1>7, <1>9 DEF Begun

\* What touches neither the file nor the thread in fwrite_w leaves it so.
LEMMA BegunFrame ==
    ASSUME Begun, UNCHANGED <<f, area>>,
           io' = io \/ ~(Writing({"address"}) \/ Writing({"count", "full"})),
           \A S \in SUBSET {"address", "count", "full"} : Writing(S)' <=> Writing(S)
    PROVE  Begun'
<1>1. /\ Writing({"address"})' <=> Writing({"address"})
      /\ Writing({"count", "full"})' <=> Writing({"count", "full"})
      /\ Writing({"count"})' <=> Writing({"count"})
      /\ Writing({"full"})' <=> Writing({"full"})
      /\ Writing({"count"}) => Writing({"count", "full"})
  <2>1. Writing({"count"}) => Writing({"count", "full"})
    BY DEF Writing
  <2>2. QED
    BY <2>1
<1>2. Start' = Start
  BY DEF Start
<1>3. Filled' = Filled
  BY <1>1 DEF Filled
<1>4. Placed'
  BY <1>1, <1>2 DEF Begun, Placed
<1>5. QED
  BY <1>2, <1>3, <1>4 DEF Begun

\* A page of the current file or of the file that the saved table names.
LEMMA Kept ==
    ASSUME TypeInv, Begun, NEW u \in Threads, ProgramPage(u),
           NEW x \in {f.fstartaddr, saved}, NEW p \in Sectors
    PROVE  area'[x + p - 1] = area[x + p - 1]
<1>1. lag < MaxLag
  BY ProgramKeepsTypes
<1>. DEFINE q == x + p - 1
<1>2. /\ q \in Pages
      /\ q < Start \/ q >= Start + RegionSize
      /\ First(Start) => q < Start \/ q >= Start + BlockSize
  BY <1>1, Clear
<1>3. Start \in Nat /\ f.fwritennum \in Nat /\ f.fwritennum < RegionSize
  BY StartPlace, ProgramKeepsTypes
<1>4. q \in Nat
  BY <1>2, Sizes DEF Pages
<1>. HIDE DEF q
<1>5. q # Start + f.fwritennum
  BY <1>2, <1>3, <1>4, Sizes
<1>6. ~(First(Start) /\ Start <= q /\ q < Start + BlockSize)
  BY <1>2, <1>3, <1>4, Sizes
<1>7. area'[q] = area[q]
  BY <1>2, <1>5, <1>6, PageWritten
<1>8. QED
  BY <1>7 DEF q

\* Programming a page keeps what is written data, and what follows erased.
LEMMA ProgramIntact ==
    ASSUME TypeInv, TypeInv', Begun, NEW u \in Threads, ProgramPage(u)
    PROVE  Begun'
<1>. DEFINE n == f.fwritennum
            t == Start
<1>1. /\ t \in Pages /\ t \in Nat /\ t + RegionSize <= AreaSize
      /\ First(t) \/ Second(t)
      /\ First(t) => t + BlockSize <= AreaSize /\ ~Second(t)
      /\ n \in Nat
  BY StartPlace
<1>2. /\ WriteAddress(f) = t + n /\ n < RegionSize /\ Filled = n
      /\ area'[t + n] \in Data
      /\ \A p \in Pages \ {t + n} :
            area'[p] = IF n = 0 /\ First(t) /\ t <= p /\ p < t + BlockSize
                       THEN Erased ELSE area[p]
  BY PageWritten
\* What lies behind the page just written.
<1>3. ASSUME Second(t), NEW i \in n + 1 .. RegionSize - 1
      PROVE  area'[t + i] = Erased
  <2>1. i \in n .. RegionSize - 1 /\ t + i \in Pages \ {t + n}
    BY <1>1, <1>2, Sizes DEF Pages
  <2>2. area[t + i] = Erased
    BY <1>2, <1>3, <2>1 DEF Begun
  <2>3. First(t) => ~Second(t)
    BY <1>1
  <2>4. QED
    BY <1>2, <1>3, <2>1, <2>2, <2>3
<1>4. ASSUME First(t), NEW i \in n + 1 .. BlockSize - 1
      PROVE  area'[t + i] = Erased
  <2>1. t + BlockSize <= AreaSize
    BY <1>1, <1>4
  <2>2. i \in n .. BlockSize - 1 /\ t + i \in Pages \ {t + n} /\ t <= t + i
        /\ t + i < t + BlockSize
    BY <1>1, <2>1, Sizes DEF Pages
  <2>3. n # 0 => area[t + i] = Erased
    BY <1>2, <1>4, <2>2 DEF Begun
  <2>4. QED
    BY <1>2, <1>4, <2>2, <2>3
<1>5. ASSUME NEW i \in 0 .. n
      PROVE  area'[t + i] \in Data
  <2>1. CASE i = n
    BY <1>2, <2>1
  <2>2. CASE i # n
    <3>1. i \in 0 .. n - 1 /\ t + i \in Pages \ {t + n} /\ n # 0
      BY <1>1, <1>2, <2>2, Sizes DEF Pages
    <3>2. area[t + i] \in Data
      BY <1>2, <3>1 DEF Begun
    <3>3. QED
      BY <1>2, <3>1, <3>2
  <2>3. QED
    BY <2>1, <2>2
<1>6. /\ Writing({"address"})' /\ ~Writing({"count"})' /\ ~Writing({"full"})'
      /\ ~Writing({"count"})
  <2>1. /\ pc[u] = "program" /\ Goes(u, "address") /\ nand_sem' = nand_sem
        /\ pc[u] \in Holding /\ "address" \in Holding
    BY Places DEF ProgramPage, InWrite
  <2>2. \A S \in SUBSET Holding : /\ Writing(S) <=> pc[u] \in S
                                  /\ Writing(S)' <=> "address" \in S
    BY <2>1, HoldingStep
  <2>3. QED
    BY <2>1, <2>2, Places
<1>7. f' = f /\ Start' = t /\ io' = t + n + 1
  BY <1>2 DEF ProgramPage, Start
<1>8. /\ Filled' = n + 1 /\ Filled' - 1 = n /\ n + 1 # 0
      /\ io' = t + (n + 1)
  <2>1. Filled' = n + 1
    BY <1>6, <1>7 DEF Filled
  <2>2. QED
    BY <1>1, <1>7, <2>1
<1>9. Placed'
  BY <1>6, <1>7, <1>8 DEF Placed, Begun
<1>10. \A i \in 0 .. Filled' - 1 : area'[Start' + i] \in Data
  <2>1. ASSUME NEW i \in 0 .. Filled' - 1 PROVE area'[Start' + i] \in Data
    BY <1>5, <1>7, <1>8, <2>1
  <2>2. QED
    BY <2>1
<1>11. Second(Start') => \A i \in Filled' .. RegionSize - 1 : area'[Start' + i] = Erased
  BY <1>3, <1>7, <1>8
<1>12. First(Start') => \A i \in Filled' .. BlockSize - 1 : area'[Start' + i] = Erased
  BY <1>4, <1>7, <1>8
<1>13. QED
  BY <1>9, <1>10, <1>11, <1>12 DEF Begun

\* Moving the place behind the page, and counting it, keep it so.
LEMMA AdvanceIntact ==
    ASSUME TypeInv, Begun, NEW u \in Threads, AdvanceAddress(u) \/ AdvanceCount(u)
    PROVE  Begun'
<1>. DEFINE n == f.fwritennum
<1>1. f \in FileStructs /\ n \in Nat /\ io \in Nat
  BY Sizes DEF TypeInv, TypeOK, FileStructs
<1>2. SUFFICES /\ Start' = Start /\ Filled' = Filled /\ Placed' /\ area' = area
  BY <1>2 DEF Begun
<1>3. CASE AdvanceAddress(u)
  <2>1. /\ pc[u] = "address" /\ Goes(u, "count") /\ nand_sem' = nand_sem
        /\ pc[u] \in Holding /\ "count" \in Holding
        /\ f' = [f EXCEPT !.fcuraddr = io] /\ io' = n /\ area' = area
    BY <1>3, Places DEF AdvanceAddress, InWrite
  <2>2. \A S \in SUBSET Holding : /\ Writing(S) <=> pc[u] \in S
                                  /\ Writing(S)' <=> "count" \in S
    BY <2>1, HoldingStep
  <2>3. /\ Writing({"address"}) /\ ~Writing({"address"})' /\ Writing({"count", "full"})'
        /\ Writing({"count"})' /\ ~Writing({"full"})'
    BY <2>1, <2>2, Places
  <2>4. f'.fstartaddr = f.fstartaddr /\ f'.fwritennum = n /\ f'.fcuraddr = io
    BY <1>1, <2>1 DEF FileStructs
  <2>5. Start' = Start
    BY <2>4 DEF Start, NewStart, Wrap
  <2>6. Filled' = n + 1 /\ Filled = n + 1
    BY <2>1, <2>3 DEF Filled
  <2>7. io = Start + (n + 1)
    BY <2>3 DEF Begun, Placed
  <2>8. Placed'
    BY <2>1, <2>3, <2>4, <2>5, <2>7 DEF Placed
  <2>9. QED
    BY <2>1, <2>5, <2>6, <2>8
<1>4. CASE AdvanceCount(u)
  <2>1. /\ pc[u] = "count" /\ Goes(u, "full") /\ nand_sem' = nand_sem
        /\ pc[u] \in Holding /\ "full" \in Holding
        /\ f' = [f EXCEPT !.fwritennum = io + 1] /\ io' = io /\ area' = area
    BY <1>4, Places DEF AdvanceCount, InWrite
  <2>2. \A S \in SUBSET Holding : /\ Writing(S) <=> pc[u] \in S
                                  /\ Writing(S)' <=> "full" \in S
    BY <2>1, HoldingStep
  <2>3. /\ ~Writing({"address"}) /\ ~Writing({"address"})' /\ Writing({"count", "full"})'
        /\ Writing({"count"}) /\ ~Writing({"count"})' /\ Writing({"count", "full"})
    BY <2>1, <2>2, Places
  <2>4. f'.fstartaddr = f.fstartaddr /\ f'.fwritennum = io + 1 /\ f'.fcuraddr = f.fcuraddr
    BY <1>1, <2>1 DEF FileStructs
  <2>5. Start' = Start
    BY <2>4 DEF Start, NewStart, Wrap
  <2>6. Filled' = io + 1 /\ Filled = io + 1
    BY <2>1, <2>3 DEF Filled
  <2>7. f.fcuraddr = Start + (io + 1) /\ io + 1 # 0
    BY <1>1, <2>3 DEF Begun, Placed
  <2>8. Placed'
    BY <2>1, <2>3, <2>4, <2>5, <2>7 DEF Placed
  <2>9. QED
    BY <2>1, <2>5, <2>6, <2>8
<1>5. QED
  BY <1>3, <1>4

\* So does the end of a file: the region behind it is erased if it shares the block.
LEMMA CompleteIntact ==
    ASSUME TypeInv, Begun, NEW u \in Threads, CompleteFile(u)
    PROVE  /\ Begun' /\ area' = area /\ saved' = saved
           /\ \/ /\ f'.fstartaddr = Start /\ dirty' = TRUE
                 /\ \A i \in 0 .. RegionSize - 1 : area[Start + i] \in Data
              \/ UNCHANGED <<f, dirty>>
<1>. DEFINE n == f.fwritennum
            t == Start
<1>1. /\ t \in Pages /\ t \in Nat /\ t + RegionSize <= AreaSize
      /\ First(t) \/ Second(t)
      /\ First(t) => t + BlockSize <= AreaSize /\ ~Second(t)
      /\ n \in Nat /\ io \in Nat
  BY StartPlace, Sizes DEF TypeInv, TypeOK
<1>2. /\ pc[u] = "full" /\ Goes(u, "test") /\ nand_sem' = nand_sem
      /\ pc[u] \in Holding /\ "test" \in Holding
      /\ area' = area /\ saved' = saved
  BY Places DEF CompleteFile, InWrite
<1>3. \A S \in SUBSET Holding : /\ Writing(S) <=> pc[u] \in S
                                /\ Writing(S)' <=> "test" \in S
  BY <1>2, HoldingStep
<1>4. /\ ~Writing({"address"}) /\ Writing({"count", "full"}) /\ Writing({"full"})
      /\ ~Writing({"count"})
      /\ \A S \in SUBSET InWrite : ~Writing(S)'
  <2>1. "test" \notin InWrite
    BY DEF InWrite
  <2>2. \A S \in SUBSET InWrite : ~Writing(S)'
    BY <1>3, <2>1, Places
  <2>3. QED
    BY <1>2, <1>3, <2>2, Places
<1>5. /\ Filled = io + 1 /\ Filled' = f'.fwritennum
      /\ n \in {0, io + 1} /\ (Second(t) => n = io + 1)
      /\ n # 0 => f.fcuraddr = t + n
  <2>1. Filled = io + 1 /\ Filled' = f'.fwritennum
    BY <1>4, Places DEF Filled
  <2>2. n \in {0, io + 1}
    BY <1>4 DEF TypeInv, Locals
  <2>3. Second(t) => n # 0
    BY <1>4 DEF Begun, Placed
  <2>4. n # 0 => f.fcuraddr = t + n
    BY <1>4 DEF Begun, Placed
  <2>5. QED
    BY <2>1, <2>2, <2>3, <2>4
<1>6. CASE UNCHANGED <<f, dirty>>
  <2>1. Start' = t /\ Filled' = n
    BY <1>5, <1>6 DEF Start
  <2>2. Placed'
    BY <1>4, <1>5, <1>6, <2>1, Places DEF Placed
  <2>3. CASE n = io + 1
    <3>1. Filled' = Filled /\ Start' = Start
      BY <1>5, <2>1, <2>3
    <3>2. area' = area
      BY <1>2
    <3>3. Begun'
      BY <2>2, <3>1, <3>2 DEF Begun
    <3>4. QED
      BY <1>2, <1>6, <3>3
  <2>4. CASE n = 0
    <3>1. ~Second(t) /\ \A i \in 0 .. 0 - 1 : FALSE
      BY <1>1, <1>5, <2>4
    <3>2. QED
      BY <1>6, <2>1, <2>2, <2>4, <3>1, <1>2 DEF Begun
  <2>5. QED
    BY <1>2, <1>5, <1>6, <2>3, <2>4
<1>7. CASE /\ io + 1 = RegionSize /\ f'.fwritennum = 0 /\ f'.fstartaddr = t
           /\ dirty' = TRUE
  <2>1. Filled = RegionSize /\ Filled' = 0
    BY <1>5, <1>7
  <2>2. Start' = Following(t)
    BY <1>7 DEF Start, NewStart, Following, Wrap
  <2>3. Second(Start') => First(t)
    BY <1>1, <2>2, FollowingRegion, FirstHalf
  <2>4. First(t) => Start' = t + RegionSize
    BY <1>1, <2>2, FollowingRegion
  <2>5. ASSUME Second(Start'), NEW i \in 0 .. RegionSize - 1
        PROVE  area'[Start' + i] = Erased
    <3>1. Start' = t + RegionSize /\ First(t)
      BY <2>3, <2>4, <2>5
    <3>2. RegionSize + i \in RegionSize .. BlockSize - 1 /\ RegionSize # 0
      BY <1>1, <2>1, Sizes
    <3>3. area[t + (RegionSize + i)] = Erased
      BY <2>1, <3>1, <3>2 DEF Begun
    <3>4. t + (RegionSize + i) = Start' + i
      BY <1>1, <3>1, Sizes
    <3>5. QED
      BY <1>2, <3>3, <3>4
  <2>6. Placed'
    BY <1>4, <1>7, Places DEF Placed
  <2>7. \A i \in 0 .. 0 - 1 : FALSE
    OBVIOUS
  <2>8. Begun'
    BY <2>1, <2>5, <2>6, <2>7 DEF Begun
  <2>9. \A i \in 0 .. RegionSize - 1 : area[t + i] \in Data
    BY <2>1 DEF Begun
  <2>10. QED
    BY <1>2, <1>7, <2>8, <2>9
<1>8. QED
  BY <1>6, <1>7, CompleteKeepsTypes DEF Start

\* Every step keeps it so, until a region is begun twice or a place is moved.
LEMMA NextIntact == TypeInv /\ Intact /\ [Next]_vars => Intact'
<1>1. SUFFICES ASSUME TypeInv, Intact, [Next]_vars, ~again'
               PROVE  Begun'
  BY DEF Intact
<1>2. TypeInv'
  BY <1>1, NextTypeInv
<1>. DEFINE Ends == {"address", "count", "full"}
<1>3. ASSUME UNCHANGED <<f, area, again>>,
             io' = io \/ ~(Writing({"address"}) \/ Writing({"count", "full"})),
             \A S \in SUBSET Ends : Writing(S)' <=> Writing(S)
      PROVE  Begun'
  BY <1>1, <1>3, BegunFrame DEF Intact
<1>4. ASSUME UNCHANGED <<f, area, again, io, pc>>
      PROVE  Begun'
  BY <1>3, <1>4 DEF Writing
<1>5. ASSUME NEW t \in Threads, NEW place \in Outside, pc[t] \in Outside, Goes(t, place)
      PROVE  \A S \in SUBSET Ends : S \in SUBSET Holding /\ (Writing(S)' <=> Writing(S))
  BY <1>1, <1>5, OutsideStep, Places
<1>6. ASSUME NEW t \in Threads, HashPiece(t) PROVE Begun'
  BY <1>4, <1>6 DEF HashPiece, flashVars, historyVars
<1>7. ASSUME NEW t \in Threads, StoreSum(t) PROVE Begun'
  <2>1. pc[t] \in Outside /\ "set" \in Outside /\ Goes(t, "set")
        /\ UNCHANGED <<f, area, again, io>>
    BY <1>7 DEF StoreSum, Hashed, Outside, flashVars, historyVars
  <2>2. QED
    BY <1>3, <1>5, <2>1
<1>8. ASSUME NEW t \in Threads, SetCount(t) PROVE Begun'
  <2>1. /\ pc[t] \in Outside /\ "cur" \in Outside /\ Goes(t, "cur")
        /\ again' = (again \/ (f.fwritennum # 0 /\ (Sharing \/ Writing({"address"}))))
        /\ f' = [f EXCEPT !.fwritennum = 0] /\ UNCHANGED <<area, io>>
    BY <1>8 DEF SetCount, Outside
  <2>2. Begun /\ (f.fwritennum = 0 \/ (First(Start) /\ ~Writing({"address"})))
    BY <1>1, <2>1 DEF Intact, Sharing, First, Start
  <2>3. f \in FileStructs
    BY <1>1 DEF TypeInv, TypeOK
  <2>4. f'.fwritennum = 0 /\ f'.fcuraddr = f.fcuraddr /\ Start' = Start
    BY <2>1, <2>3 DEF FileStructs, Start, NewStart, Wrap
  <2>5. \A S \in SUBSET Ends : Writing(S)' <=> Writing(S)
    BY <1>5, <2>1
  <2>6. /\ Writing({"address"})' <=> Writing({"address"})
        /\ Writing({"count", "full"})' <=> Writing({"count", "full"})
        /\ Writing({"count"})' <=> Writing({"count"})
        /\ Writing({"full"})' <=> Writing({"full"})
    BY <2>5
  <2>7. CASE f.fwritennum = 0
    <3>1. Filled' = Filled /\ Placed'
      BY <2>1, <2>2, <2>4, <2>6, <2>7 DEF Filled, Placed, Begun
    <3>2. QED
      BY <2>1, <2>2, <2>4, <3>1 DEF Begun
  <2>8. CASE First(Start) /\ ~Writing({"address"})
    <3>1. ~Second(Start)
      BY <1>1, <2>8, StartPlace
    <3>2. Placed'
      BY <2>1, <2>2, <2>4, <2>6, <2>8, <3>1 DEF Placed, Begun
    <3>3. CASE Writing({"count", "full"})
      <4>1. Filled' = Filled
        BY <2>1, <2>6, <2>8, <3>3 DEF Filled
      <4>2. QED
        BY <2>1, <2>2, <2>4, <3>2, <4>1 DEF Begun
    <3>4. CASE ~Writing({"count", "full"})
      <4>1. Filled' = 0 /\ \A i \in 0 .. 0 - 1 : FALSE
        BY <2>4, <2>6, <2>8, <3>4 DEF Filled
      <4>2. QED
        BY <2>4, <3>1, <3>2, <4>1 DEF Begun
    <3>5. QED
      BY <3>3, <3>4
  <2>9. QED
    BY <2>2, <2>7, <2>8
<1>9. ASSUME NEW t \in Threads, SetAddress(t) PROVE Begun'
  <2>1. /\ pc[t] \in Outside /\ "wait" \in Outside /\ Goes(t, "wait")
        /\ again' = (again \/ f.fwritennum # 0 \/ Writing({"count"}))
        /\ f' = [f EXCEPT !.fcuraddr = f.fstartaddr] /\ UNCHANGED <<area, io>>
    BY <1>9 DEF SetAddress, Outside
  <2>2. Begun /\ f.fwritennum = 0 /\ ~Writing({"count"})
    BY <1>1, <2>1 DEF Intact
  <2>3. f \in FileStructs
    BY <1>1 DEF TypeInv, TypeOK
  <2>4. f'.fwritennum = 0 /\ Start' = Start
    BY <2>1, <2>2, <2>3 DEF FileStructs, Start, NewStart, Wrap
  <2>5. \A S \in SUBSET Ends : Writing(S)' <=> Writing(S)
    BY <1>5, <2>1
  <2>6. /\ Writing({"address"})' <=> Writing({"address"})
        /\ Writing({"count", "full"})' <=> Writing({"count", "full"})
        /\ Writing({"count"})' <=> Writing({"count"})
        /\ Writing({"full"})' <=> Writing({"full"})
    BY <2>5
  <2>7. Filled' = Filled /\ Placed'
    BY <2>1, <2>2, <2>4, <2>6 DEF Filled, Placed, Begun
  <2>8. QED
    BY <2>1, <2>2, <2>4, <2>7 DEF Begun
<1>10. ASSUME NEW t \in Threads, Take(t) PROVE Begun'
  <2>1. /\ pc' = [pc EXCEPT ![t] = "write"] /\ nand_sem = None
        /\ UNCHANGED <<f, area, again, io>>
    BY <1>10 DEF Take, Goes, flashVars, historyVars
  <2>2. \A S \in SUBSET Holding : ~Writing(S)
    BY <1>1, <2>1, Free, StoredAssumption
  <2>3. \A S \in SUBSET Ends : ~Writing(S) /\ ~Writing(S)'
    <3>1. pc \in [Threads -> Outside \cup Holding]
      BY <1>1 DEF TypeInv, TypeOK
    <3>2. \A S \in SUBSET Ends : S \in SUBSET Holding /\ "write" \notin S
      BY DEF Holding, InWrite
    <3>3. QED
      BY <2>1, <2>2, <3>1, <3>2 DEF Writing
  <2>4. QED
    BY <1>3, <2>1, <2>3
<1>11. ASSUME NEW t \in Threads, FetchPage(t) PROVE Begun'
  <2>1. /\ pc[t] = "write" /\ Goes(t, "program") /\ nand_sem' = nand_sem
        /\ pc[t] \in Holding /\ "program" \in Holding
        /\ UNCHANGED <<f, area, again>>
    BY <1>11, Places DEF FetchPage, InWrite, flashVars, historyVars
  <2>2. \A S \in SUBSET Holding : /\ Writing(S) <=> pc[t] \in S
                                  /\ Writing(S)' <=> "program" \in S
    BY <1>1, <2>1, HoldingStep
  <2>3. \A S \in SUBSET Ends : ~Writing(S) /\ ~Writing(S)'
    BY <2>1, <2>2 DEF Holding, InWrite
  <2>4. QED
    BY <1>3, <2>1, <2>3
<1>12. ASSUME NEW t \in Threads, ProgramPage(t) PROVE Begun'
  <2>1. Begun
    BY <1>1, <1>12 DEF ProgramPage, historyVars, Intact
  <2>2. QED
    BY <1>1, <1>2, <1>12, <2>1, ProgramIntact
<1>13. ASSUME NEW t \in Threads, AdvanceAddress(t) \/ AdvanceCount(t) PROVE Begun'
  <2>1. Begun
    BY <1>1, <1>13 DEF AdvanceAddress, AdvanceCount, historyVars, Intact
  <2>2. QED
    BY <1>1, <1>13, <2>1, AdvanceIntact
<1>14. ASSUME NEW t \in Threads, CompleteFile(t) PROVE Begun'
  <2>1. Begun
    BY <1>1, <1>14 DEF CompleteFile, historyVars, Intact
  <2>2. QED
    BY <1>1, <1>14, <2>1, CompleteIntact
<1>15. ASSUME NEW t \in Threads, Test(t) PROVE Begun'
  <2>1. /\ pc[t] = "test" /\ pc[t] \in Holding /\ UNCHANGED <<f, area, again, io>>
    BY <1>15, Places DEF Test, flashVars, historyVars
  <2>2. PICK place \in {"write", "hash", "idle"} : pc' = [pc EXCEPT ![t] = place]
    BY <1>15 DEF Test, Goes
  <2>3. \A S \in SUBSET Ends : ~Writing(S) /\ ~Writing(S)'
    <3>1. /\ pc \in [Threads -> Outside \cup Holding]
          /\ \A u \in Threads \ {t} : pc[u] \notin Holding
      BY <1>1, <2>1 DEF TypeInv, TypeOK, Held
    <3>2. \A S \in SUBSET Ends : S \in SUBSET Holding
                                 /\ S \cap {"write", "hash", "idle", "test"} = {}
      BY DEF Holding, InWrite
    <3>3. pc'[t] = place /\ \A u \in Threads \ {t} : pc'[u] = pc[u]
      BY <2>2, <3>1
    <3>4. QED
      BY <2>1, <3>1, <3>2, <3>3 DEF Writing
  <2>4. QED
    BY <1>3, <2>1, <2>3
<1>16. CASE PowerCut
  <2>1. /\ f' = File(saved) /\ area' = area /\ saved \in Pages
        /\ again' = (again \/ /\ \/ f.fwritennum # 0 \/ saved # f.fstartaddr
                                 \/ Writing(Ends)
                              /\ NewStart(File(saved)) % BlockSize # 0)
        /\ pc' = [t \in Threads |-> IF t = "task" THEN "hash" ELSE "idle"]
    BY <1>1, <1>16 DEF PowerCut, TypeInv, TypeOK
  <2>2. f'.fwritennum = 0 /\ f'.fstartaddr = saved
    BY <2>1, FileType
  <2>3. Start' = NewStart(File(saved))
    BY <2>1 DEF Start, NewStart, Wrap
  <2>4. Begun /\ ((f.fwritennum = 0 /\ saved = f.fstartaddr /\ ~Writing(Ends)) \/ First(Start'))
    BY <1>1, <2>1, <2>3 DEF Intact, First
  <2>5. \A S \in SUBSET Ends : ~Writing(S)'
    BY <2>1 DEF Writing
  <2>6. Filled' = 0 /\ Placed' /\ \A i \in 0 .. 0 - 1 : FALSE
    BY <2>2, <2>5 DEF Filled, Placed
  <2>7. CASE First(Start')
    <3>1. Start' \in Pages
      BY <1>1, <2>1, <2>2, FollowingRegion DEF TypeInv, Regular, Start, NewStart, Following, Wrap
    <3>2. ~Second(Start')
      BY <2>7, <3>1, FirstHalf
    <3>3. QED
      BY <2>6, <3>2 DEF Begun
  <2>8. CASE f.fwritennum = 0 /\ saved = f.fstartaddr /\ ~Writing(Ends)
    <3>1. Start' = Start
      BY <2>2, <2>8 DEF Start, NewStart, Wrap
    <3>2. ~Writing({"address"}) /\ ~Writing({"count", "full"})
      BY <2>8 DEF Writing
    <3>3. Filled = 0
      BY <2>8, <3>2 DEF Filled
    <3>4. QED
      BY <2>1, <2>4, <2>6, <3>1, <3>3 DEF Begun
  <2>9. QED
    BY <2>4, <2>7, <2>8
<1>17. CASE \E p \in Sectors, v \in Values : Change(p, v)
  BY <1>4, <1>17 DEF Change, flashVars
<1>18. CASE Call
  <2>1. /\ "saver" \in Threads /\ pc["saver"] \in Outside /\ "hash" \in Outside
        /\ Goes("saver", "hash") /\ UNCHANGED <<f, area, again, io>>
    BY <1>18 DEF Call, Threads, Outside, flashVars, historyVars
  <2>2. QED
    BY <1>3, <1>5, <2>1
<1>19. CASE Unchanged \/ Attend \/ SaveTable
  BY <1>4, <1>19 DEF Unchanged, Attend, SaveTable, flashVars, historyVars
<1>20. CASE UNCHANGED vars
  BY <1>4, <1>20 DEF vars, flashVars, historyVars
<1>21. QED
  BY <1>1, <1>6, <1>7, <1>8, <1>9, <1>10, <1>11, <1>12, <1>13, <1>14, <1>15, <1>16, <1>17,
     <1>18, <1>19, <1>20 DEF Next, Step

(***************************************************************************)
(* The store.  What Store sees is the current file, the file that the      *)
(* saved table names, and file_update.                                     *)
(***************************************************************************)

\* A step that leaves all three as they are is a stutter of the store.
LEMMA StoreStutter ==
    ASSUME UNCHANGED <<f, area, saved, dirty>>
    PROVE  UNCHANGED Store!vars
BY DEF Store!vars, FileAt

\* Programming a page is no step of the store.
LEMMA ProgramStore ==
    ASSUME TypeInv, Begun, NEW u \in Threads, ProgramPage(u)
    PROVE  UNCHANGED Store!vars
<1>1. UNCHANGED <<f, saved, dirty>>
  BY DEF ProgramPage
<1>2. /\ \A p \in Sectors : area'[saved + p - 1] = area[saved + p - 1]
      /\ \A p \in Sectors : area'[f.fstartaddr + p - 1] = area[f.fstartaddr + p - 1]
  BY Kept
<1>3. QED
  BY <1>1, <1>2 DEF Store!vars, FileAt

\* The end of a file changes the one value.
LEMMA CompleteStore ==
    ASSUME TypeInv, Begun, NEW u \in Threads, CompleteFile(u)
    PROVE  Store!Change \/ UNCHANGED Store!vars
<1>1. area' = area /\ saved' = saved
  BY CompleteIntact
<1>2. CASE UNCHANGED <<f, dirty>>
  BY <1>1, <1>2, StoreStutter
<1>3. CASE /\ f'.fstartaddr = Start /\ dirty' = TRUE
           /\ \A i \in 0 .. RegionSize - 1 : area[Start + i] \in Data
  <2>1. Start \in Nat
    BY StartPlace
  <2>2. ASSUME NEW p \in Sectors PROVE area'[Start + p - 1] \in Data
    <3>1. p - 1 \in 0 .. RegionSize - 1 /\ Start + (p - 1) = Start + p - 1
      BY <2>1, Sizes DEF Sectors
    <3>2. QED
      BY <1>1, <1>3, <3>1
  <2>3. FileAt(f.fstartaddr)' \in [Sectors -> Data]
    BY <1>3, <2>2 DEF FileAt
  <2>4. FileAt(saved)' = FileAt(saved)
    BY <1>1 DEF FileAt
  <2>5. QED
    BY <1>3, <2>3, <2>4 DEF Store!Change
<1>4. QED
  BY <1>2, <1>3, CompleteIntact

\* Every step that neither begins a region twice nor moves a writer's place is
\* a step of the store or leaves it as it is.
LEMMA StepStore ==
    TypeInv /\ Intact /\ [Next]_vars => (~again' => [Store!Next]_(Store!vars))
<1>1. SUFFICES ASSUME TypeInv, Intact, [Next]_vars, ~again'
               PROVE  Store!Next \/ UNCHANGED Store!vars
  OBVIOUS
<1>2. ASSUME NEW u \in Threads, SetCount(u) PROVE UNCHANGED Store!vars
  <2>1. f' = [f EXCEPT !.fwritennum = 0] /\ UNCHANGED <<area, saved, dirty>>
    BY <1>2 DEF SetCount
  <2>2. f'.fstartaddr = f.fstartaddr
    BY <1>1, <2>1 DEF TypeInv, TypeOK, FileStructs
  <2>3. QED
    BY <2>1, <2>2 DEF Store!vars, FileAt
<1>3. ASSUME NEW u \in Threads, SetAddress(u) \/ AdvanceAddress(u) \/ AdvanceCount(u)
      PROVE  UNCHANGED Store!vars
  <2>1. /\ f' = [f EXCEPT !.fcuraddr = f.fstartaddr] \/ f' = [f EXCEPT !.fcuraddr = io]
           \/ f' = [f EXCEPT !.fwritennum = io + 1]
        /\ UNCHANGED <<area, saved, dirty>>
    BY <1>3 DEF SetAddress, AdvanceAddress, AdvanceCount
  <2>2. f'.fstartaddr = f.fstartaddr
    BY <1>1, <2>1 DEF TypeInv, TypeOK, FileStructs
  <2>3. QED
    BY <2>1, <2>2 DEF Store!vars, FileAt
<1>4. ASSUME NEW u \in Threads, ProgramPage(u) \/ CompleteFile(u)
      PROVE  Store!Change \/ UNCHANGED Store!vars
  <2>1. Begun
    BY <1>1, <1>4 DEF ProgramPage, CompleteFile, historyVars, Intact
  <2>2. QED
    BY <1>1, <1>4, <2>1, ProgramStore, CompleteStore
<1>5. CASE Attend
  <2>1. dirty /\ dirty' = FALSE /\ UNCHANGED <<f, area, saved>>
    BY <1>5 DEF Attend
  <2>2. UNCHANGED <<FileAt(f.fstartaddr), FileAt(saved)>>
    BY <2>1 DEF FileAt
  <2>3. QED
    BY <2>1, <2>2 DEF Store!Next, Store!Attend
<1>6. CASE SaveTable
  <2>1. saved' = f.fstartaddr /\ UNCHANGED <<f, area, dirty>>
    BY <1>6 DEF SaveTable
  <2>2. FileAt(f.fstartaddr)' = FileAt(f.fstartaddr) /\ FileAt(saved)' = FileAt(f.fstartaddr)
    BY <2>1 DEF FileAt
  <2>3. QED
    BY <2>1, <2>2 DEF Store!Next, Store!Save
<1>7. CASE PowerCut
  <2>1. /\ f' = File(saved) /\ saved \in Pages /\ UNCHANGED <<area, saved>>
        /\ dirty' = FALSE
    BY <1>1, <1>7 DEF PowerCut, TypeInv, TypeOK
  <2>2. f'.fstartaddr = saved
    BY <2>1, FileType
  <2>3. FileAt(f.fstartaddr)' = FileAt(saved) /\ FileAt(saved)' = FileAt(saved)
    BY <2>1, <2>2 DEF FileAt
  <2>4. QED
    BY <2>1, <2>3 DEF Store!Next, Store!PowerCut
<1>8. CASE \E p \in Sectors, v \in Values : Change(p, v)
  BY <1>8, StoreStutter DEF Change, flashVars
<1>9. CASE \E u \in Threads : \/ HashPiece(u) \/ StoreSum(u) \/ Take(u)
                              \/ FetchPage(u) \/ Test(u)
  BY <1>9, StoreStutter DEF HashPiece, StoreSum, Take, FetchPage, Test, flashVars
<1>10. CASE Call \/ Unchanged
  BY <1>10, StoreStutter DEF Call, Unchanged, flashVars
<1>11. CASE UNCHANGED vars
  BY <1>11, StoreStutter DEF vars, flashVars
<1>12. QED
  BY <1>1, <1>2, <1>3, <1>4, <1>5, <1>6, <1>7, <1>8, <1>9, <1>10, <1>11
     DEF Next, Step, Store!Next

\* The stored data implements a store whose one value is replaced as a whole:
\* no page that a thread writes changes the current file before it is complete,
\* or the file that the table on flash names, and a power cut brings that one
\* back as it was; except where a region that shares its block was begun twice
\* or the place of a write under way was moved.
THEOREM StoreReplacedAsWhole == Spec => ImplementsStore
<1>1. Init => TypeInv /\ Intact
  BY InitTypeInv, InitIntact
<1>2. TypeInv /\ Intact /\ [Next]_vars => TypeInv' /\ Intact'
  BY NextTypeInv, NextIntact
<1>3. TypeInv /\ Intact /\ [Next]_vars => [~again' => [Store!Next]_(Store!vars)]_vars
  BY StepStore
<1>4. QED
  BY <1>1, <1>2, <1>3, PTL DEF Spec, ImplementsStore
=============================================================================
