--------------------------- MODULE NandDirProofs ---------------------------
(***************************************************************************)
(* Proofs about NandDir: while no block has gone bad, the place nand_task  *)
(* keeps in memory and the marks in the flash agree, so that no page is    *)
(* programmed twice between two erases.                                    *)
(*                                                                         *)
(* The invariant follows each copy through nand_task's steps.  A copy that *)
(* is at rest has its next page just after its last mark.  The one being   *)
(* written has every page marked and starts over (erase), has its next     *)
(* page unmarked (mark), or has it marked and still blank (page).          *)
(*                                                                         *)
(* The second part proves the types with blocks that do go bad, the third  *)
(* that the two copies act as one table that is replaced as a whole.       *)
(***************************************************************************)
EXTENDS NandDir, FiniteSetTheorems, WellFoundedInduction, TLAPS

\* The state is well typed (TypeOK without the part that needs spare blocks).
Typed ==
    /\ marks \in [Blocks -> 0 .. Pages]
    /\ page \in [Blocks -> [Slots -> Versions]]
    /\ at = [c \in Copies |-> IF c = "a" THEN 0 ELSE 1]
    /\ cur \in [Copies -> Slots]
    /\ new \in [Copies -> Slots]
    /\ use \in [Copies -> Uses]
    /\ dir \in Dirs \cup {Corrupt}
    /\ fileUpdate \in BOOLEAN
    /\ pc \in {"idle", "erase", "mark", "page"}
    /\ target \in Copies

\* Nothing is programmed above the last mark.
BlankAbove == \A b \in Blocks : \A p \in Slots : p > marks[b] => page[b][p] = Blank

AtRest == \A c \in Copies : pc = "idle" \/ c # target => new[c] = NextSlot(at[c])

Written ==
    /\ pc = "erase" => marks[at[target]] = Pages /\ new[target] = 1
    /\ pc = "mark" => marks[at[target]] < Pages /\ new[target] = marks[at[target]] + 1
    /\ pc = "page" => /\ marks[at[target]] = new[target]
                      /\ page[at[target]][new[target]] = Blank

Agree == Typed /\ BlankAbove /\ AtRest /\ Written

IInv == bad = {} => Agree

---------------------------------------------------------------------------
\* With no block bad, get_filedat_block returns the block it is asked about.
LEMMA GoodFromSelf ==
    ASSUME bad = {}, NEW b \in Blocks
    PROVE  GoodFrom(b) = b
<1>. USE DirAssumption
<1>1. b \in b .. LastBlock /\ b \notin bad /\ \A h \in b .. b - 1 : h \in bad
  BY DEF Blocks
<1>2. \A g \in b .. LastBlock :
         (g \notin bad /\ \A h \in b .. g - 1 : h \in bad) => g = b
  BY DEF Blocks
<1>3. QED
  BY <1>1, <1>2 DEF GoodFrom

\* With no block bad, the copies are found in the first two blocks.
LEMMA BootBlockFirst ==
    ASSUME bad = {}
    PROVE  BootBlock = [c \in Copies |-> IF c = "a" THEN 0 ELSE 1]
<1>1. 0 \in Blocks /\ 1 \in Blocks /\ 0 + 1 = 1
  BY DirAssumption DEF Blocks
<1>2. GoodFrom(0) = 0 /\ GoodFrom(1) = 1
  BY <1>1, GoodFromSelf
<1>3. QED
  BY <1>1, <1>2 DEF BootBlock

\* The next page is a page of the block.
LEMMA NextSlotType ==
    ASSUME marks \in [Blocks -> 0 .. Pages], NEW b \in Blocks
    PROVE  /\ NextSlot(b) \in Slots
           /\ MarkedSlot(b) \in Slots
BY DirAssumption DEF NextSlot, MarkedSlot, SlotAfter, Slots

\* A formatted flash satisfies the invariant.
LEMMA InitAgrees == Init => IInv
<1>1. SUFFICES ASSUME Init PROVE Agree
  BY DEF IInv
<1>. USE DirAssumption
<1>2. Blank \in Versions
  BY DEF Blank, Versions, Uses
<1>3. Typed
  <2>1. marks \in [Blocks -> 0 .. Pages] /\ page \in [Blocks -> [Slots -> Versions]]
    BY <1>1, <1>2 DEF Init
  <2>2. cur \in [Copies -> Slots] /\ new \in [Copies -> Slots]
    BY <1>1 DEF Init, Slots
  <2>3. use \in [Copies -> Uses]
    BY <1>1 DEF Init, Uses
  <2>4. QED
    BY <1>1, <2>1, <2>2, <2>3 DEF Init, Typed, Copies
<1>4. BlankAbove
  BY <1>1 DEF Init, BlankAbove
<1>5. AtRest /\ Written
  BY <1>1 DEF Init, AtRest, Written, NextSlot, Copies, Blocks
<1>6. QED
  BY <1>3, <1>4, <1>5 DEF Agree

---------------------------------------------------------------------------
\* A finished file touches neither the copies nor their blocks.
LEMMA FileWrittenAgrees ==
    ASSUME Agree, NEW d \in Dirs, FileWritten(d) PROVE Agree'
<1>1. Typed'
  BY DEF Agree, Typed, FileWritten, flash, memory
<1>2. BlankAbove' /\ AtRest' /\ Written'
  BY DEF Agree, BlankAbove, AtRest, Written, NextSlot, SlotAfter, FileWritten, flash, memory
<1>3. QED
  BY <1>1, <1>2 DEF Agree

\* Looking the target's place up again finds what memory already says.
LEMMA BeginAgrees ==
    ASSUME Agree, bad = {}, Begin PROVE Agree'
<1>. USE DirAssumption
<1>. DEFINE c == Other(Newest(use))
            moved == <<at[c], MarkedSlot(at[c])>> # <<at[c], cur[c]>>
<1>1. c \in Copies
  BY DEF Other, Newest, Copies
<1>2. at[c] \in Blocks /\ GoodFrom(at[c]) = at[c]
  BY <1>1, GoodFromSelf DEF Agree, Typed, Copies, Blocks
<1>3. /\ target' = c
      /\ at' = [at EXCEPT ![c] = at[c]]
      /\ cur' = [cur EXCEPT ![c] = MarkedSlot(at[c])]
      /\ new' = [new EXCEPT ![c] = IF moved THEN NextSlot(at[c]) ELSE @]
      /\ use' = [use EXCEPT ![c] = IF moved /\ marks[at[c]] = 0 THEN Fresh ELSE @]
      /\ pc' = IF marks[at[c]] = Pages THEN "erase" ELSE "mark"
      /\ pc = "idle" /\ fileUpdate' = FALSE
      /\ marks' = marks /\ page' = page /\ dir' = dir
  BY <1>2 DEF Begin, flash
<1>4. new[c] = NextSlot(at[c])
  BY <1>1, <1>3 DEF Agree, AtRest
<1>5. at' = at /\ new' = new
  BY <1>1, <1>3, <1>4 DEF Agree, Typed
<1>6. MarkedSlot(at[c]) \in Slots
  BY <1>2, NextSlotType DEF Agree, Typed
<1>7. Fresh \in Uses
  BY DEF Uses
<1>8. Typed'
  BY <1>1, <1>3, <1>5, <1>6, <1>7 DEF Agree, Typed
<1>9. BlankAbove' /\ AtRest'
  BY <1>3, <1>5 DEF Agree, BlankAbove, AtRest, NextSlot, SlotAfter
<1>10. Written'
  <2>1. marks[at[c]] \in 0 .. Pages
    BY <1>2 DEF Agree, Typed
  <2>2. QED
    BY <1>3, <1>4, <1>5, <2>1 DEF Written, NextSlot, SlotAfter
<1>11. QED
  BY <1>8, <1>9, <1>10 DEF Agree

\* Erasing the target's block leaves the copy at rest as it is.
LEMMA EraseAgrees ==
    ASSUME Agree, Erase PROVE Agree'
<1>. USE DirAssumption
<1>1. target \in Copies /\ at[target] \in Blocks
  BY DEF Agree, Typed, Copies, Blocks
<1>2. Blank \in Versions
  BY DEF Blank, Versions, Uses
<1>3. Typed'
  BY <1>1, <1>2 DEF Agree, Typed, Erase, memory
<1>4. BlankAbove'
  BY <1>1 DEF Agree, Typed, BlankAbove, Erase
<1>5. AtRest'
  <2>1. \A c \in Copies : c # target => at[c] # at[target]
    BY <1>1 DEF Agree, Typed, Copies
  <2>2. QED
    BY <1>1, <2>1 DEF Agree, Typed, AtRest, Erase, memory, NextSlot, SlotAfter
<1>6. Written'
  BY <1>1 DEF Agree, Typed, Written, Erase, memory
<1>7. QED
  BY <1>3, <1>4, <1>5, <1>6 DEF Agree

\* The mark moves on to the page that is programmed next.
LEMMA SetMarkAgrees ==
    ASSUME Agree, SetMark PROVE Agree'
<1>. USE DirAssumption
<1>. DEFINE t == at[target]
<1>1. target \in Copies /\ t \in Blocks /\ Other(target) \in Copies
  BY DEF Agree, Typed, Copies, Blocks, Other
<1>2. /\ marks[t] \in 0 .. Pages - 1
      /\ new[target] = marks[t] + 1
      /\ marks' = [marks EXCEPT ![t] = @ + 1]
      /\ page' = [page EXCEPT ![t] = [p \in Slots |-> IF p <= marks[t] THEN Old ELSE @[p]]]
      /\ use' = [use EXCEPT ![target] = NumberAfter(use[Other(target)])]
      /\ pc' = "page"
      /\ at' = at /\ cur' = cur /\ new' = new
      /\ dir' = dir /\ fileUpdate' = fileUpdate /\ target' = target
  BY <1>1 DEF Agree, Typed, Written, SetMark
<1>3. Old \in Versions
  BY DEF Old, Versions, Uses
<1>4. NumberAfter(use[Other(target)]) \in Uses
  BY <1>1 DEF Agree, Typed, NumberAfter, Uses, Numbers, Last, Fresh, Erased, AllBad
<1>5. Typed'
  <2>1. marks' \in [Blocks -> 0 .. Pages]
    BY <1>1, <1>2 DEF Agree, Typed
  <2>2. page' \in [Blocks -> [Slots -> Versions]]
    BY <1>1, <1>2, <1>3 DEF Agree, Typed
  <2>3. use' \in [Copies -> Uses]
    BY <1>1, <1>2, <1>4 DEF Agree, Typed
  <2>4. QED
    BY <1>2, <2>1, <2>2, <2>3 DEF Agree, Typed
<1>6. BlankAbove'
  <2>1. SUFFICES ASSUME NEW b \in Blocks, NEW p \in Slots, p > marks'[b]
                 PROVE  page'[b][p] = Blank
    BY DEF BlankAbove
  <2>2. p > marks[b] /\ (b = t => ~(p <= marks[b]))
    BY <1>1, <1>2, <2>1 DEF Agree, Typed, Slots
  <2>3. QED
    BY <1>1, <1>2, <2>2 DEF Agree, Typed, BlankAbove
<1>7. AtRest'
  <2>1. \A c \in Copies : c # target => at[c] # t /\ at[c] \in Blocks
    BY <1>1 DEF Agree, Typed, Copies, Blocks
  <2>2. QED
    BY <1>1, <1>2, <2>1 DEF Agree, Typed, AtRest, NextSlot, SlotAfter
<1>8. Written'
  <2>1. new[target] \in Slots /\ new[target] > marks[t] /\ ~(new[target] <= marks[t])
    BY <1>1, <1>2 DEF Agree, Typed, Slots
  <2>2. page[t][new[target]] = Blank
    BY <1>1, <2>1 DEF Agree, BlankAbove
  <2>3. page'[t][new[target]] = Blank
    BY <1>1, <1>2, <2>1, <2>2 DEF Agree, Typed
  <2>4. marks'[t] = new[target]
    BY <1>1, <1>2 DEF Agree, Typed
  <2>5. QED
    BY <1>2, <2>3, <2>4 DEF Written
<1>9. QED
  BY <1>5, <1>6, <1>7, <1>8 DEF Agree

\* The marked page is blank, so it takes exactly the table in memory.
LEMMA WritePageAgrees ==
    ASSUME Agree, bad = {}, bad' = {}, WritePage PROVE Agree'
<1>. USE DirAssumption
<1>. DEFINE t == at[target]
            p == new[target]
            v == [a |-> use["a"], b |-> use["b"], dir |-> dir]
<1>1. target \in Copies /\ t \in Blocks /\ p \in Slots
  BY DEF Agree, Typed, Copies, Blocks
<1>2. page[t][p] = Blank /\ marks[t] = p
  BY DEF Agree, Written, WritePage
<1>3. /\ page' = [page EXCEPT ![t][p] = v]
      /\ cur' = [cur EXCEPT ![target] = p]
      /\ new' = [new EXCEPT ![target] = SlotAfter(p)]
      /\ use' = [use EXCEPT ![target] = @]
      /\ pc' = "idle"
      /\ marks' = marks /\ at' = at /\ dir' = dir
      /\ fileUpdate' = fileUpdate /\ target' = target
  BY <1>2 DEF WritePage
<1>4. use' = use
  BY <1>1, <1>3 DEF Agree, Typed
<1>5. v \in Versions
  BY DEF Agree, Typed, Versions, Copies
<1>6. SlotAfter(p) \in Slots
  BY <1>1 DEF SlotAfter, Slots
<1>7. Typed'
  <2>1. page' \in [Blocks -> [Slots -> Versions]]
    BY <1>1, <1>3, <1>5 DEF Agree, Typed
  <2>2. QED
    BY <1>1, <1>3, <1>4, <1>6, <2>1 DEF Agree, Typed
<1>8. BlankAbove'
  <2>1. SUFFICES ASSUME NEW b \in Blocks, NEW q \in Slots, q > marks[b]
                 PROVE  page'[b][q] = Blank
    BY <1>3 DEF BlankAbove
  <2>2. b = t => q # p
    BY <1>1, <1>2, <2>1 DEF Slots
  <2>3. QED
    BY <1>1, <1>3, <2>1, <2>2 DEF Agree, Typed, BlankAbove
<1>9. AtRest'
  <2>1. NextSlot(t) = SlotAfter(p)
    BY <1>1, <1>2 DEF NextSlot, Slots
  <2>2. QED
    BY <1>1, <1>3, <2>1 DEF Agree, Typed, AtRest, NextSlot, SlotAfter
<1>10. Written'
  BY <1>3 DEF Written
<1>11. QED
  BY <1>7, <1>8, <1>9, <1>10 DEF Agree

\* A reboot finds both copies at rest in their own blocks.
LEMMA PowerCutAgrees ==
    ASSUME Agree, bad = {}, PowerCut PROVE Agree'
<1>. USE DirAssumption
<1>1. BootBlock = [c \in Copies |-> IF c = "a" THEN 0 ELSE 1]
  BY BootBlockFirst
<1>2. \A c \in Copies : BootBlock[c] \in Blocks
  BY <1>1 DEF Copies, Blocks
<1>3. /\ at' = BootBlock
      /\ cur' = [c \in Copies |-> MarkedSlot(BootBlock[c])]
      /\ new' = [c \in Copies |-> NextSlot(BootBlock[c])]
      /\ use' = BootUse /\ dir' = Recovered /\ fileUpdate' = FALSE
      /\ pc' = "idle" /\ marks' = marks /\ page' = page /\ target' = target
  BY DEF PowerCut, flash
<1>4. \A b \in Blocks : NextSlot(b) \in Slots /\ MarkedSlot(b) \in Slots
  BY NextSlotType DEF Agree, Typed
<1>5. \A b \in Blocks : Stored(b) \in Versions
  BY <1>4 DEF Stored, Agree, Typed
<1>6. use' \in [Copies -> Uses]
  <2>1. \A c \in Copies : NumberIn(BootBlock[c], c) \in Uses
    BY <1>2, <1>5 DEF NumberIn, Versions, Copies, Uses
  <2>2. QED
    BY <1>3, <2>1 DEF BootUse
<1>7. dir' \in Dirs \cup {Corrupt}
  <2>1. Newest(BootUse) \in Copies
    BY DEF Newest, Copies
  <2>2. QED
    BY <1>2, <1>3, <1>5, <2>1 DEF Recovered, Versions
<1>8. Typed'
  BY <1>1, <1>2, <1>3, <1>4, <1>6, <1>7 DEF Agree, Typed
<1>9. BlankAbove' /\ AtRest' /\ Written'
  BY <1>3 DEF Agree, BlankAbove, AtRest, Written, NextSlot, SlotAfter
<1>10. QED
  BY <1>8, <1>9 DEF Agree

---------------------------------------------------------------------------
\* Every step keeps the invariant; a block that is bad stays bad.
LEMMA NextAgrees == IInv /\ [Next]_vars => IInv'
<1>1. SUFFICES ASSUME IInv, [Next]_vars, bad' = {} PROVE Agree'
  BY DEF IInv
<1>2. bad = {}
  BY <1>1 DEF Next, FileWritten, Begin, Erase, SetMark, WritePage, PowerCut, flash, vars
<1>3. Agree
  BY <1>1, <1>2 DEF IInv
<1>4. ASSUME NEW d \in Dirs, FileWritten(d) PROVE Agree'
  BY <1>3, <1>4, FileWrittenAgrees
<1>5. CASE Begin
  BY <1>2, <1>3, <1>5, BeginAgrees
<1>6. CASE Erase
  BY <1>3, <1>6, EraseAgrees
<1>7. CASE SetMark
  BY <1>3, <1>7, SetMarkAgrees
<1>8. CASE WritePage
  BY <1>1, <1>2, <1>3, <1>8, WritePageAgrees
<1>9. CASE PowerCut
  BY <1>2, <1>3, <1>9, PowerCutAgrees
<1>10. CASE UNCHANGED vars
  BY <1>3, <1>10 DEF vars, Agree, Typed, BlankAbove, AtRest, Written, NextSlot, SlotAfter
<1>11. QED
  BY <1>1, <1>4, <1>5, <1>6, <1>7, <1>8, <1>9, <1>10 DEF Next

\* Whatever the number of pages and blocks and however often power is cut, no
\* page is programmed twice between two erases while no block has gone bad.
THEOREM NoPageProgrammedTwice == Spec => []ProgramsBlankPages
<1>1. Init => IInv
  BY InitAgrees
<1>2. IInv /\ [Next]_vars => IInv'
  BY NextAgrees
<1>3. IInv => ProgramsBlankPages
  BY DEF IInv, Agree, Written, ProgramsBlankPages
<1>4. QED
  BY <1>1, <1>2, <1>3, PTL DEF Spec
---------------------------------------------------------------------------
(* The types, with blocks that go bad.  They rest on there always being a  *)
(* good block left for a copy to move to: below a copy every block is bad  *)
(* but the one of the other copy, and at most MaxBad are.                  *)
AlmostBad(b) == \E x \in Int : \A h \in 0 .. b - 1 : h = x \/ h \in bad

TypeInv ==
    /\ TypeOK
    /\ Cardinality(bad) <= MaxBad
    /\ \A c \in Copies : AlmostBad(at[c])
    /\ pc = "mark" => marks[at[target]] < Pages

\* A set of numbers has a least one.
LEMMA LeastNumber ==
    ASSUME NEW T, T \subseteq Nat, T # {}
    PROVE  \E x \in T : \A y \in T : ~(y < x)
<1>. DEFINE R == OpToRel(<, Nat)
<1>1. IsWellFoundedOn(R, Nat)
  BY NatLessThanWellFounded
<1>2. \A x, y \in Nat : y < x => <<y, x>> \in R
  BY DEF OpToRel
<1>. HIDE DEF R
<1>3. \E x \in T : \A y \in T : ~(<<y, x>> \in R)
  BY <1>1, WFMin
<1>4. QED
  BY <1>2, <1>3

\* get_filedat_block finds a block, and skips bad ones only.
LEMMA GoodFromGood ==
    ASSUME bad \subseteq Blocks, Cardinality(bad) <= MaxBad, NEW b \in Nat, AlmostBad(b)
    PROVE  /\ GoodFrom(b) \in b .. LastBlock
           /\ GoodFrom(b) \notin bad
           /\ \A h \in b .. GoodFrom(b) - 1 : h \in bad
<1>. USE DirAssumption
<1>1. IsFiniteSet(Blocks) /\ Cardinality(Blocks) = LastBlock + 1
  BY FS_Interval DEF Blocks
<1>2. IsFiniteSet(bad) /\ Cardinality(bad) \in Nat
  BY <1>1, FS_Subset, FS_CardinalityType
<1>3. PICK x \in Int : \A h \in 0 .. b - 1 : h = x \/ h \in bad
  BY DEF AlmostBad
<1>4. \E g \in b .. LastBlock : g \notin bad
  <2>1. SUFFICES ASSUME \A g \in b .. LastBlock : g \in bad PROVE FALSE
    OBVIOUS
  <2>2. Blocks \subseteq bad \cup {x}
    BY <1>3, <2>1 DEF Blocks
  <2>3. IsFiniteSet(bad \cup {x}) /\ Cardinality(bad \cup {x}) <= Cardinality(bad) + 1
    BY <1>2, FS_AddElement
  <2>4. Cardinality(Blocks) <= Cardinality(bad \cup {x})
    BY <2>2, <2>3, FS_Subset
  <2>5. Cardinality(bad \cup {x}) \in Nat
    BY <2>3, FS_CardinalityType
  <2>6. QED
    BY <1>1, <1>2, <2>3, <2>4, <2>5
<1>. DEFINE T == {g \in b .. LastBlock : g \notin bad}
<1>5. \E g \in T : \A h \in T : ~(h < g)
  <2>1. T # {} /\ T \subseteq Nat
    BY <1>4
  <2>. HIDE DEF T
  <2>2. QED
    BY <2>1, LeastNumber
<1>6. \E g \in b .. LastBlock : g \notin bad /\ \A h \in b .. g - 1 : h \in bad
  BY <1>5
<1>7. QED
  BY <1>6 DEF GoodFrom

\* What a reboot finds is typed: blocks, pages, numbers and a table.
LEMMA BootTyped ==
    ASSUME TypeInv
    PROVE  /\ \A c \in Copies : BootBlock[c] \in Blocks /\ AlmostBad(BootBlock[c])
           /\ BootUse \in [Copies -> Uses]
           /\ Recovered \in Dirs \cup {Corrupt}
<1>. USE DirAssumption
<1>1. bad \subseteq Blocks /\ Cardinality(bad) <= MaxBad
  BY DEF TypeInv, TypeOK
<1>. DEFINE p == GoodFrom(0)
            q == GoodFrom(p + 1)
<1>2. AlmostBad(0)
  BY DEF AlmostBad
<1>3. p \in 0 .. LastBlock /\ \A h \in 0 .. p - 1 : h \in bad
  BY <1>1, <1>2, GoodFromGood
<1>. HIDE DEF p
<1>4. AlmostBad(p + 1)
  <2>1. \A h \in 0 .. (p + 1) - 1 : h = p \/ h \in bad
    BY <1>3
  <2>2. QED
    BY <1>3, <2>1 DEF AlmostBad
<1>5. q \in p + 1 .. LastBlock /\ \A h \in p + 1 .. q - 1 : h \in bad
  BY <1>1, <1>3, <1>4, GoodFromGood
<1>. HIDE DEF q
<1>6. AlmostBad(p) /\ AlmostBad(q)
  <2>1. p \in Int /\ q \in Int
    BY <1>3, <1>5
  <2>2. \A h \in 0 .. p - 1 : h = p \/ h \in bad
    BY <1>3
  <2>3. \A h \in 0 .. q - 1 : h = p \/ h \in bad
    BY <1>3, <1>5
  <2>4. AlmostBad(p)
    BY <2>1, <2>2 DEF AlmostBad
  <2>5. AlmostBad(q)
    BY <2>1, <2>3 DEF AlmostBad
  <2>6. QED
    BY <2>4, <2>5
<1>7. BootBlock = [c \in Copies |-> IF c = "a" THEN p ELSE q]
  BY DEF BootBlock, p, q
<1>8. \A c \in Copies : BootBlock[c] \in Blocks /\ AlmostBad(BootBlock[c])
  BY <1>3, <1>5, <1>6, <1>7 DEF Blocks
<1>9. \A b \in Blocks : Stored(b) \in Versions
  BY NextSlotType DEF Stored, TypeInv, TypeOK
<1>10. \A c \in Copies : NumberIn(BootBlock[c], c) \in Uses
  BY <1>8, <1>9 DEF NumberIn, Versions, Copies, Uses
<1>11. BootUse \in [Copies -> Uses]
  BY <1>10 DEF BootUse
<1>12. Newest(BootUse) \in Copies
  BY DEF Newest, Copies
<1>13. Recovered \in Dirs \cup {Corrupt}
  BY <1>8, <1>9, <1>12 DEF Recovered, Versions
<1>14. QED
  BY <1>8, <1>11, <1>13

\* A formatted flash.
LEMMA InitTyped == Init => TypeInv
<1>1. SUFFICES ASSUME Init PROVE TypeInv
  OBVIOUS
<1>. USE DirAssumption
<1>2. Blank \in Versions
  BY DEF Blank, Versions, Uses
<1>3. TypeOK
  <2>1. marks \in [Blocks -> 0 .. Pages] /\ page \in [Blocks -> [Slots -> Versions]]
    BY <1>1, <1>2 DEF Init
  <2>2. cur \in [Copies -> Slots] /\ new \in [Copies -> Slots]
    BY <1>1 DEF Init, Slots
  <2>3. use \in [Copies -> Uses] /\ at \in [Copies -> Blocks]
    BY <1>1 DEF Init, Uses, Blocks
  <2>4. bad \in SUBSET Blocks /\ torn \in 0 .. MaxTorn
    BY <1>1 DEF Init
  <2>5. /\ dir \in Dirs \cup {Corrupt} /\ fileUpdate \in BOOLEAN
        /\ pc \in {"idle", "erase", "mark", "page"} /\ target \in Copies
    BY <1>1 DEF Init, Copies
  <2>6. QED
    BY <2>1, <2>2, <2>3, <2>4, <2>5 DEF TypeOK
<1>4. Cardinality(bad) <= MaxBad
  BY <1>1, FS_EmptySet DEF Init
<1>5. \A c \in Copies : AlmostBad(at[c])
  <2>1. AlmostBad(0) /\ AlmostBad(1)
    <3>1. (\A h \in 0 .. 0 - 1 : h = 0) /\ \A h \in 0 .. 1 - 1 : h = 0
      OBVIOUS
    <3>2. QED
      BY <3>1 DEF AlmostBad
  <2>2. QED
    BY <1>1, <2>1 DEF Init
<1>6. QED
  BY <1>1, <1>3, <1>4, <1>5 DEF Init, TypeInv

\* One more bad block, within the bound.
LEMMA BadBlockCounted ==
    ASSUME bad \subseteq Blocks, Cardinality(bad) < MaxBad, NEW b \in Blocks
    PROVE  Cardinality(bad \cup {b}) <= MaxBad
<1>1. IsFiniteSet(Blocks)
  BY DirAssumption, FS_Interval DEF Blocks
<1>2. IsFiniteSet(bad)
  BY <1>1, FS_Subset
<1>3. Cardinality(bad) \in Nat
  BY <1>2, FS_CardinalityType
<1>4. Cardinality(bad \cup {b}) = Cardinality(bad) \/ Cardinality(bad \cup {b}) = Cardinality(bad) + 1
  BY <1>2, FS_AddElement
<1>5. QED
  BY <1>3, <1>4, DirAssumption

\* Every step keeps the types.
LEMMA NextTyped == TypeInv /\ [Next]_vars => TypeInv'
<1>1. SUFFICES ASSUME TypeInv, [Next]_vars PROVE TypeInv'
  OBVIOUS
<1>. USE DirAssumption
<1>2. /\ TypeOK /\ bad \subseteq Blocks /\ Cardinality(bad) <= MaxBad
      /\ \A c \in Copies : AlmostBad(at[c]) /\ at[c] \in Blocks /\ at[c] \in Nat
      /\ target \in Copies
  BY <1>1 DEF TypeInv, TypeOK, Blocks
<1>3. ASSUME NEW d \in Dirs, FileWritten(d) PROVE TypeInv'
  BY <1>1, <1>3 DEF TypeInv, TypeOK, AlmostBad, FileWritten, flash, memory
<1>4. CASE Begin
  <2>1. PICK c \in Copies :
          LET b == GoodFrom(at[c])
              moved == <<b, MarkedSlot(b)>> # <<at[c], cur[c]>>
          IN  /\ target' = c
              /\ at' = [at EXCEPT ![c] = b]
              /\ cur' = [cur EXCEPT ![c] = MarkedSlot(b)]
              /\ new' = [new EXCEPT ![c] = IF moved THEN NextSlot(b) ELSE @]
              /\ use' = [use EXCEPT ![c] = IF moved /\ marks[b] = 0 THEN Fresh ELSE @]
              /\ pc' = IF marks[b] = Pages THEN "erase" ELSE "mark"
    BY <1>4 DEF Begin
  <2>. DEFINE b == GoodFrom(at[c])
              moved == <<b, MarkedSlot(b)>> # <<at[c], cur[c]>>
  <2>2. b \in at[c] .. LastBlock /\ \A h \in at[c] .. b - 1 : h \in bad
    BY <1>2, GoodFromGood
  <2>3. /\ at' = [at EXCEPT ![c] = b]
        /\ cur' = [cur EXCEPT ![c] = MarkedSlot(b)]
        /\ new' = [new EXCEPT ![c] = IF moved THEN NextSlot(b) ELSE @]
        /\ use' = [use EXCEPT ![c] = IF moved /\ marks[b] = 0 THEN Fresh ELSE @]
        /\ pc' = IF marks[b] = Pages THEN "erase" ELSE "mark"
        /\ target' = c
        /\ marks' = marks /\ page' = page /\ bad' = bad /\ dir' = dir /\ torn' = torn
        /\ fileUpdate' = FALSE
    BY <1>4, <2>1 DEF Begin, flash
  <2>. HIDE DEF b, moved
  <2>4. b \in Blocks
    BY <1>2, <2>2 DEF Blocks
  <2>5. NextSlot(b) \in Slots /\ MarkedSlot(b) \in Slots /\ Fresh \in Uses
    BY <1>2, <2>4, NextSlotType DEF TypeOK, Uses
  <2>6. TypeOK'
    BY <1>2, <2>3, <2>4, <2>5 DEF TypeOK
  <2>7. AlmostBad(b)
    <3>1. PICK x \in Int : \A h \in 0 .. at[c] - 1 : h = x \/ h \in bad
      BY <1>2 DEF AlmostBad
    <3>2. \A h \in 0 .. b - 1 : h = x \/ h \in bad
      BY <1>2, <2>2, <3>1
    <3>3. QED
      BY <3>2 DEF AlmostBad
  <2>8. \A d \in Copies : AlmostBad(at'[d])
    BY <1>2, <2>3, <2>7 DEF TypeOK
  <2>9. (\A d \in Copies : AlmostBad(at[d]))'
    BY <2>3, <2>8 DEF AlmostBad
  <2>10. pc' = "mark" => marks'[at'[target']] < Pages
    <3>1. at'[c] = b /\ marks[b] \in 0 .. Pages
      BY <1>2, <2>3, <2>4 DEF TypeOK
    <3>2. pc' = "mark" => marks[b] # Pages
      BY <2>3
    <3>3. QED
      BY <2>3, <3>1, <3>2
  <2>11. QED
    BY <1>2, <2>3, <2>6, <2>9, <2>10 DEF TypeInv
<1>5. CASE Erase
  <2>1. Blank \in Versions
    BY DEF Blank, Versions, Uses
  <2>2. TypeOK'
    BY <1>2, <1>5, <2>1 DEF TypeOK, Erase, memory
  <2>3. (\A c \in Copies : AlmostBad(at[c]))' /\ (Cardinality(bad) <= MaxBad)'
    BY <1>2, <1>5 DEF AlmostBad, Erase, memory
  <2>4. (pc = "mark" => marks[at[target]] < Pages)'
    BY <1>2, <1>5 DEF Erase, memory, TypeOK
  <2>5. QED
    BY <2>2, <2>3, <2>4 DEF TypeInv
<1>6. CASE SetMark
  <2>. DEFINE t == at[target]
  <2>1. marks[t] \in 0 .. Pages - 1 /\ t \in Blocks
    BY <1>1, <1>2, <1>6 DEF TypeInv, TypeOK, SetMark
  <2>2. Old \in Versions
    BY DEF Old, Versions, Uses
  <2>3. NumberAfter(use[Other(target)]) \in Uses
    <3>1. Other(target) \in Copies
      BY <1>2 DEF Other, Copies
    <3>2. QED
      BY <1>2, <3>1 DEF TypeOK, NumberAfter, Uses, Numbers, Last, Fresh, Erased, AllBad
  <2>4. bad' \subseteq Blocks /\ bad \subseteq bad' /\ Cardinality(bad') <= MaxBad
    BY <1>2, <1>6, <2>1, BadBlockCounted DEF SetMark
  <2>5. marks' \in [Blocks -> 0 .. Pages] /\ page' \in [Blocks -> [Slots -> Versions]]
    BY <1>2, <1>6, <2>1, <2>2 DEF TypeOK, SetMark
  <2>6. use' \in [Copies -> Uses]
    BY <1>2, <1>6, <2>3 DEF TypeOK, SetMark
  <2>7. TypeOK'
    BY <1>2, <1>6, <2>4, <2>5, <2>6 DEF TypeOK, SetMark
  <2>8. (\A c \in Copies : AlmostBad(at[c]))'
    BY <1>2, <1>6, <2>4 DEF AlmostBad, SetMark
  <2>9. QED
    BY <1>6, <2>4, <2>7, <2>8 DEF TypeInv, SetMark
<1>7. CASE WritePage
  <2>. DEFINE c == target
              b == IF at[c] \in bad THEN at[c] + 1 ELSE at[c]
              p == new[c]
              v == [a |-> use["a"], b |-> use["b"], dir |-> dir]
  <2>1. b \in Blocks
    <3>1. GoodFrom(at[c]) \in at[c] .. LastBlock /\ GoodFrom(at[c]) \notin bad
      BY <1>2, GoodFromGood
    <3>2. QED
      BY <1>2, <3>1 DEF Blocks
  <2>2. p \in Slots /\ SlotAfter(p) \in Slots /\ AllBad \in Uses
    BY <1>2 DEF TypeOK, SlotAfter, Slots, Uses
  <2>3. v \in Versions
    BY <1>2 DEF TypeOK, Versions, Copies
  <2>4. /\ \/ page' = [page EXCEPT ![b][p] = v]
           \/ \E ua, ub \in Numbers :
                 page' = [page EXCEPT ![b][p] = [a |-> ua, b |-> ub, dir |-> Corrupt]]
        /\ bad' = bad \/ (Cardinality(bad) < MaxBad /\ bad' = bad \cup {b})
        /\ cur' = [cur EXCEPT ![c] = p]
        /\ new' = [new EXCEPT ![c] = IF at[c] \in bad' THEN @ ELSE SlotAfter(p)]
        /\ use' = [use EXCEPT ![c] = IF at[c] \in bad' THEN AllBad ELSE @]
        /\ pc' = "idle" /\ marks' = marks /\ at' = at /\ dir' = dir
        /\ fileUpdate' = fileUpdate /\ target' = target /\ torn' = torn
    BY <1>7 DEF WritePage
  <2>. HIDE DEF b, p, v
  <2>5. page' \in [Blocks -> [Slots -> Versions]]
    <3>1. \A ua, ub \in Numbers : [a |-> ua, b |-> ub, dir |-> Corrupt] \in Versions
      BY DEF Versions, Uses
    <3>2. \A w \in Versions : [page EXCEPT ![b][p] = w] \in [Blocks -> [Slots -> Versions]]
      BY <1>2, <2>1, <2>2 DEF TypeOK
    <3>3. QED
      BY <2>3, <2>4, <3>1, <3>2
  <2>6. bad' \subseteq Blocks /\ bad \subseteq bad' /\ Cardinality(bad') <= MaxBad
    BY <1>2, <2>1, <2>4, BadBlockCounted
  <2>7. TypeOK'
    BY <1>2, <2>2, <2>4, <2>5, <2>6 DEF TypeOK
  <2>8. (\A d \in Copies : AlmostBad(at[d]))'
    BY <1>2, <2>4, <2>6 DEF AlmostBad
  <2>9. QED
    BY <2>4, <2>6, <2>7, <2>8 DEF TypeInv
<1>8. CASE PowerCut
  <2>1. /\ \A c \in Copies : BootBlock[c] \in Blocks /\ AlmostBad(BootBlock[c])
        /\ BootUse \in [Copies -> Uses]
        /\ Recovered \in Dirs \cup {Corrupt}
    BY <1>1, BootTyped
  <2>2. /\ at' = BootBlock
        /\ cur' = [c \in Copies |-> MarkedSlot(BootBlock[c])]
        /\ new' = [c \in Copies |-> NextSlot(BootBlock[c])]
        /\ use' = BootUse /\ dir' = Recovered /\ fileUpdate' = FALSE
        /\ pc' = "idle" /\ marks' = marks /\ page' = page /\ bad' = bad
        /\ target' = target
        /\ (pc = "page" => torn < MaxTorn)
        /\ torn' = IF pc = "page" THEN torn + 1 ELSE torn
    BY <1>8 DEF PowerCut, flash
  <2>3. \A b \in Blocks : NextSlot(b) \in Slots /\ MarkedSlot(b) \in Slots
    BY <1>2, NextSlotType DEF TypeOK
  <2>4. at' \in [Copies -> Blocks]
    BY <2>1, <2>2 DEF BootBlock
  <2>5. torn' \in 0 .. MaxTorn
    BY <1>2, <2>2 DEF TypeOK
  <2>6. cur' \in [Copies -> Slots] /\ new' \in [Copies -> Slots]
    BY <2>1, <2>2, <2>3
  <2>7. TypeOK'
    BY <1>2, <2>1, <2>2, <2>4, <2>5, <2>6 DEF TypeOK
  <2>8. (\A c \in Copies : AlmostBad(at[c]))'
    BY <2>1, <2>2 DEF AlmostBad
  <2>9. QED
    BY <1>2, <2>2, <2>7, <2>8 DEF TypeInv
<1>9. CASE UNCHANGED vars
  BY <1>1, <1>9 DEF vars, TypeInv, TypeOK, AlmostBad
<1>10. QED
  BY <1>1, <1>3, <1>4, <1>5, <1>6, <1>7, <1>8, <1>9 DEF Next

\* The table, its copies and their places stay well formed with blocks that go
\* bad: whichever they are, get_filedat_block finds a good one for each copy
\* within the region, and the page to write is one of its block.
THEOREM DirTypeCorrect == Spec => []TypeOK
<1>1. TypeInv => TypeOK
  BY DEF TypeInv
<1>2. QED
  BY <1>1, InitTyped, NextTyped, PTL DEF Spec
---------------------------------------------------------------------------
(* The two copies as one table.  The number that a copy bears in the flash *)
(* tells fileint which copy is the newer, if the copy that is not being    *)
(* written always comes out as such: also when the other one is erased or  *)
(* marked and still blank.                                                 *)
(*                                                                         *)
(* The delicate case is copy a, erased, against a copy b numbered Last,    *)
(* which line 389 of nand_file.c does not take for the newer one.  Copy a  *)
(* is erased once in Pages of its pages, b's number moves by two for each  *)
(* of them, and Pages is what both are counted by: so b bears twice the    *)
(* number of power cuts that cost a a page, negated (Aligned).             *)

\* The number copy c bears in the flash.
Held(c) == NumberIn(at[c], c)

\* What a number in the flash can be while no block is bad.
Ranks == Numbers \cup {Fresh, Erased}

\* Is copy b the newer one in the flash?
BNewer == PicksB(Held("a"), Held("b"))
Current == IF BNewer THEN "b" ELSE "a"

\* A whole number of rounds.
Whole(x) == \E k \in Int : x = k * Pages

\* The place of a number in its round; a copy never written comes before 0.
Place(n) == IF n \in Numbers THEN n ELSE -1

\* The pages of copy a that took a version, if t of them were lost to power cuts.
Taken(t) == marks[at["a"]] - t - IF pc = "page" /\ target = "a" THEN 1 ELSE 0

Aligned ==
    \E t \in 0 .. torn :
       IF BNewer THEN Whole(Held("b") - 2 * Taken(t))
                 ELSE Whole(Place(Held("a")) + 1 - 2 * Taken(t))

\* Memory knows the numbers, and the copy being written is the older one.
Numbered ==
    /\ \A c \in Copies : Held(c) \in Ranks
    /\ \A c \in Copies : pc = "idle" \/ c # target => use[c] = Held(c)
    /\ pc = "page" => use[target] = NumberAfter(use[Other(target)])
    /\ pc # "idle" => (target = "a" <=> BNewer)

Ordered == Numbered /\ Aligned

\* One round more or less.
LEMMA WholeShift ==
    ASSUME NEW x \in Int, NEW y \in Int, Whole(x),
           y = x \/ y = x + Pages \/ y = x - Pages \/ y = x + 2 * Pages
    PROVE  Whole(y)
<1>. USE DirAssumption
<1>1. PICK k \in Int : x = k * Pages
  BY DEF Whole
<1>2. /\ (k + 1) * Pages = k * Pages + Pages
      /\ (k - 1) * Pages = k * Pages - Pages
      /\ (k + 2) * Pages = k * Pages + 2 * Pages
  BY <1>1
<1>3. k + 1 \in Int /\ k - 1 \in Int /\ k + 2 \in Int
  BY <1>1
<1>4. QED
  BY <1>1, <1>2, <1>3 DEF Whole

\* Below one round, an odd number is no whole number of rounds.
LEMMA NotWhole ==
    ASSUME NEW t \in Nat, 2 * t <= Pages
    PROVE  ~Whole(Last - 2 * (Pages - t))
<1>. USE DirAssumption
<1>1. SUFFICES ASSUME NEW k \in Int, Last - 2 * (Pages - t) = k * Pages PROVE FALSE
  BY DEF Whole
<1>2. (k + 1) * Pages = 2 * t - 1
  <2>1. (k + 1) * Pages = k * Pages + Pages
    OBVIOUS
  <2>2. k * Pages \in Int
    OBVIOUS
  <2>3. QED
    BY <1>1, <2>1, <2>2 DEF Last
<1>3. CASE k + 1 >= 1
  <2>1. (k + 1) * Pages >= Pages
    BY <1>3
  <2>2. QED
    BY <1>2, <2>1
<1>4. CASE k + 1 <= -1
  <2>1. (k + 1) * Pages <= -Pages
    BY <1>4
  <2>2. QED
    BY <1>2, <2>1
<1>5. CASE k + 1 = 0
  BY <1>2, <1>5
<1>6. QED
  BY <1>3, <1>4, <1>5

\* What get_file_file_addr says of the numbers that occur.
LEMMA Verdicts ==
    ASSUME NEW n \in Ranks
    PROVE  /\ NumberAfter(n) \in Numbers
           /\ NumberAfter(n) = Place(n) + 1 \/ NumberAfter(n) = Place(n) + 1 - Pages
           /\ PicksB(n, NumberAfter(n))
           /\ n \in Numbers => ~PicksB(NumberAfter(n), n)
           /\ ~PicksB(n, Fresh) /\ ~PicksB(n, Erased)
           /\ n \in Numbers => PicksB(Erased, n)
           /\ n \in Numbers /\ n # Last => PicksB(Fresh, n)
           /\ \A m \in Ranks : PicksB(m, n) => n \in Numbers
BY DirAssumption DEF Ranks, Numbers, NumberAfter, Place, PicksB, Last, Fresh, Erased

\* With no block bad, the flash is read back as the current copy has it.
LEMMA BootFinds ==
    Agree /\ bad = {} => /\ BootBlock = at
                         /\ BootUse = [c \in Copies |-> Held(c)]
                         /\ Recovered = Stored(at[Current]).dir
<1>1. SUFFICES ASSUME Agree, bad = {}
               PROVE  /\ BootBlock = at
                      /\ BootUse = [c \in Copies |-> Held(c)]
                      /\ Recovered = Stored(at[Current]).dir
  OBVIOUS
<1>2. BootBlock = at
  BY <1>1, BootBlockFirst DEF Agree, Typed
<1>3. BootUse = [c \in Copies |-> Held(c)]
  BY <1>2 DEF BootUse, Held
<1>4. Newest(BootUse) = Current
  BY <1>3 DEF Newest, Current, BNewer, Copies
<1>5. QED
  BY <1>2, <1>3, <1>4 DEF Recovered

\* After a step that leaves the flash alone, it holds what it held.
LEMMA FlashKept ==
    ASSUME Agree, Agree', bad = {}, bad' = {}, marks' = marks, page' = page
    PROVE  /\ at' = at /\ BNewer' = BNewer /\ Recovered' = Recovered
           /\ \A c \in Copies : Held(c)' = Held(c)
<1>1. at' = at
  BY DEF Agree, Typed
<1>2. \A b \in Blocks : Stored(b)' = Stored(b)
  BY DEF Stored, MarkedSlot
<1>3. \A c \in Copies : at[c] \in Blocks
  BY DirAssumption DEF Agree, Typed, Copies, Blocks
<1>4. \A c \in Copies : Held(c)' = Held(c)
  BY <1>1, <1>2, <1>3 DEF Held, NumberIn
<1>5. BNewer' = BNewer
  BY <1>4 DEF BNewer, PicksB, Copies
<1>6. Recovered = Stored(at[Current]).dir
  BY BootFinds
<1>7. Recovered' = Stored(at[Current])'.dir
  <2>1. (Agree /\ bad = {} => Recovered = Stored(at[Current]).dir)'
    BY BootFinds, PTL
  <2>2. QED
    BY <2>1
<1>8. at'[Current'] = at[Current] /\ at[Current] \in Blocks
  BY <1>1, <1>3, <1>5 DEF Current, Copies
<1>9. Stored(at[Current])' = Stored(at[Current])
  BY <1>1, <1>2, <1>5, <1>8 DEF Current, Stored, MarkedSlot
<1>10. QED
  BY <1>1, <1>4, <1>5, <1>6, <1>7, <1>9

\* A step that writes the older copy's block only leaves the other copy as it was.
LEMMA OlderWritten ==
    ASSUME Agree, Agree', bad = {}, bad' = {}, target' = target,
           \A b \in Blocks \ {at[target]} : marks'[b] = marks[b] /\ page'[b] = page[b]
    PROVE  /\ at' = at
           /\ \A c \in Copies \ {target} : /\ Held(c)' = Held(c)
                                           /\ Stored(at[c])' = Stored(at[c])
           /\ Recovered = Stored(at[Current]).dir
           /\ Recovered' = Stored(at[Current])'.dir
<1>1. at' = at
  BY DEF Agree, Typed
<1>2. \A c \in Copies \ {target} : at[c] \in Blocks \ {at[target]}
  BY DirAssumption DEF Agree, Typed, Copies, Blocks
<1>3. \A b \in Blocks \ {at[target]} : Stored(b)' = Stored(b)
  BY DEF Stored, MarkedSlot
<1>4. \A c \in Copies \ {target} : Stored(at[c])' = Stored(at[c])
  BY <1>1, <1>2 DEF Stored, MarkedSlot
<1>5. \A c \in Copies \ {target} : Held(c)' = Held(c)
  BY <1>1, <1>2, <1>3 DEF Held, NumberIn
<1>6. Recovered = Stored(at[Current]).dir
  BY BootFinds
<1>7. Recovered' = Stored(at[Current])'.dir
  <2>1. (Agree /\ bad = {} => Recovered = Stored(at[Current]).dir)'
    BY BootFinds, PTL
  <2>2. QED
    BY <2>1
<1>8. QED
  BY <1>1, <1>4, <1>5, <1>6, <1>7

\* A formatted flash: copy b is written first, as number 0.
LEMMA InitOrdered == Init => Ordered
<1>1. SUFFICES ASSUME Init PROVE Ordered
  OBVIOUS
<1>. USE DirAssumption
<1>2. at["a"] = 0 /\ at["b"] = 1 /\ marks[0] = 0 /\ marks[1] = 0
  BY <1>1 DEF Init, Copies, Blocks
<1>3. Held("a") = Fresh /\ Held("b") = Fresh
  BY <1>2 DEF Held, NumberIn
<1>4. Numbered
  BY <1>1, <1>3 DEF Init, Numbered, Ranks, Copies
<1>5. Aligned
  <2>1. ~BNewer
    BY <1>3, Verdicts DEF BNewer, Ranks
  <2>2. Place(Fresh) = -1 /\ Taken(0) = 0
    BY <1>1, <1>2 DEF Place, Fresh, Numbers, Last, Taken, Init
  <2>3. Place(Held("a")) + 1 - 2 * Taken(0) = 0 * Pages
    BY <1>3, <2>2
  <2>4. QED
    BY <1>1, <2>1, <2>3 DEF Init, Aligned, Whole
<1>6. QED
  BY <1>4, <1>5 DEF Ordered

\* A finished file: the table in memory changes, the flash does not.
LEMMA FileWrittenOrdered ==
    ASSUME Agree, Agree', bad = {}, bad' = {}, Ordered, NEW d \in Dirs, FileWritten(d)
    PROVE  Ordered' /\ Directory!Change
<1>1. /\ marks' = marks /\ page' = page /\ use' = use /\ pc' = pc /\ target' = target
      /\ torn' = torn /\ dir' = d /\ fileUpdate' = TRUE
  BY DEF FileWritten, flash, memory
<1>2. /\ at' = at /\ BNewer' = BNewer /\ Recovered' = Recovered
      /\ \A c \in Copies : Held(c)' = Held(c)
  BY <1>1, FlashKept
<1>3. Numbered'
  BY <1>1, <1>2 DEF Ordered, Numbered
<1>4. Aligned'
  BY <1>1, <1>2 DEF Ordered, Aligned, Taken, Copies
<1>5. QED
  BY <1>1, <1>2, <1>3, <1>4 DEF Ordered, Directory!Change

\* nand_task takes up the change and chooses the older copy.
LEMMA BeginOrdered ==
    ASSUME Agree, Agree', bad = {}, bad' = {}, Ordered, Begin
    PROVE  Ordered' /\ Directory!Attend
<1>1. /\ marks' = marks /\ page' = page /\ torn' = torn /\ dir' = dir
      /\ fileUpdate /\ fileUpdate' = FALSE /\ pc = "idle"
      /\ pc' \in {"erase", "mark"}
      /\ target' = Other(Newest(use))
      /\ \A c \in Copies \ {target'} : use'[c] = use[c]
  BY DEF Begin, flash, Agree, Typed
<1>2. /\ at' = at /\ BNewer' = BNewer /\ Recovered' = Recovered
      /\ \A c \in Copies : Held(c)' = Held(c)
  BY <1>1, FlashKept
<1>3. use["a"] = Held("a") /\ use["b"] = Held("b")
  BY <1>1 DEF Ordered, Numbered, Copies
<1>4. target' = "a" <=> BNewer
  BY <1>1, <1>3 DEF Newest, BNewer, Other, Copies
<1>5. Numbered'
  BY <1>1, <1>2, <1>4 DEF Ordered, Numbered
<1>6. Aligned'
  <2>1. \A t : Taken(t)' = Taken(t)
    BY <1>1, <1>2 DEF Taken
  <2>2. QED
    BY <1>1, <1>2, <2>1 DEF Ordered, Aligned, Copies
<1>7. QED
  BY <1>1, <1>2, <1>5, <1>6 DEF Ordered, Directory!Attend

\* Erasing the older copy hides nothing: this is where the two must be aligned.
LEMMA EraseOrdered ==
    ASSUME Agree, Agree', bad = {}, bad' = {}, Ordered, Erase,
           torn \in 0 .. MaxTorn, 2 * MaxTorn <= Pages
    PROVE  Ordered' /\ UNCHANGED Directory!vars
<1>. USE DirAssumption
<1>. DEFINE t == at[target]
<1>1. target \in Copies /\ t \in Blocks
  BY DEF Agree, Typed, Copies, Blocks
<1>2. /\ marks' = [marks EXCEPT ![t] = 0] /\ marks[t] = Pages
      /\ page' = [page EXCEPT ![t] = [p \in Slots |-> Blank]]
      /\ pc = "erase" /\ pc' = "mark" /\ use' = use /\ torn' = torn
      /\ dir' = dir /\ fileUpdate' = fileUpdate /\ target' = target
  BY DEF Erase, memory, Agree, Written
<1>3. \A b \in Blocks \ {t} : marks'[b] = marks[b] /\ page'[b] = page[b]
  BY <1>2 DEF Agree, Typed
<1>4. /\ at' = at
      /\ \A c \in Copies \ {target} : Held(c)' = Held(c) /\ Stored(at[c])' = Stored(at[c])
      /\ Recovered = Stored(at[Current]).dir
      /\ Recovered' = Stored(at[Current])'.dir
  BY <1>2, <1>3, OlderWritten
<1>5. Held(target)' = Fresh
  <2>1. marks'[t] = 0
    BY <1>1, <1>2 DEF Agree, Typed
  <2>2. QED
    BY <1>2, <1>4, <2>1 DEF Held, NumberIn
<1>6. /\ \A c \in Copies : Held(c) \in Ranks
      /\ target = "a" <=> BNewer
      /\ \A c \in Copies \ {target} : use[c] = Held(c)
  BY <1>2 DEF Ordered, Numbered
<1>7. PICK k \in 0 .. torn :
         IF BNewer THEN Whole(Held("b") - 2 * Taken(k))
                   ELSE Whole(Place(Held("a")) + 1 - 2 * Taken(k))
  BY DEF Ordered, Aligned
<1>8. CASE target = "a"
  <2>1. BNewer /\ Held("a") \in Ranks /\ Held("b") \in Ranks /\ Held("b") \in Numbers
    BY <1>6, <1>8, Verdicts DEF BNewer, Copies
  <2>2. Taken(k) = Pages - k /\ Taken(k)' = 0 - k /\ k \in Nat /\ 2 * k <= Pages
    BY <1>1, <1>2, <1>4, <1>8 DEF Taken, Agree, Typed
  <2>3. Held("b") # Last
    BY <1>7, <2>1, <2>2, NotWhole
  <2>4. Held("a")' = Fresh /\ Held("b")' = Held("b") /\ Stored(at["b"])' = Stored(at["b"])
    BY <1>4, <1>5, <1>8, <1>2 DEF Copies
  <2>5. BNewer'
    BY <2>1, <2>3, <2>4, Verdicts DEF BNewer
  <2>6. Whole(Held("b")' - 2 * Taken(k)')
    <3>1. Held("b") \in Int
      BY <2>1 DEF Numbers, Last
    <3>2. Whole(Held("b") - 2 * (Pages - k))
      BY <1>7, <2>1, <2>2
    <3>3. Held("b") - 2 * (0 - k) = Held("b") - 2 * (Pages - k) + 2 * Pages
      BY <2>2, <3>1
    <3>4. Held("b") - 2 * (0 - k) \in Int /\ Held("b") - 2 * (Pages - k) \in Int
      BY <2>2, <3>1
    <3>5. QED
      BY <2>2, <2>4, <3>2, <3>3, <3>4, WholeShift
  <2>7. Aligned'
    BY <1>2, <2>5, <2>6 DEF Aligned
  <2>8. Numbered'
    BY <1>2, <1>6, <1>8, <2>4, <2>5 DEF Numbered, Ranks, Copies
  <2>9. Recovered' = Recovered
    BY <1>4, <2>1, <2>4, <2>5 DEF Current
  <2>10. QED
    BY <1>2, <2>7, <2>8, <2>9 DEF Ordered, Directory!vars
<1>9. CASE target = "b"
  <2>1. ~BNewer /\ Held("a") \in Ranks
    BY <1>6, <1>9 DEF Copies
  <2>2. Held("b")' = Fresh /\ Held("a")' = Held("a") /\ Stored(at["a"])' = Stored(at["a"])
    BY <1>4, <1>5, <1>9, <1>2 DEF Copies
  <2>3. ~BNewer'
    BY <2>1, <2>2, Verdicts DEF BNewer
  <2>4. Taken(k)' = Taken(k)
    <3>1. at["a"] \in Blocks \ {t}
      BY <1>9 DEF Agree, Typed, Copies, Blocks
    <3>2. marks'[at["a"]] = marks[at["a"]]
      BY <1>3, <3>1
    <3>3. QED
      BY <1>2, <1>4, <3>2 DEF Taken
  <2>5. Aligned'
    BY <1>2, <1>7, <2>1, <2>2, <2>3, <2>4 DEF Aligned
  <2>6. Numbered'
    BY <1>2, <1>6, <1>9, <2>2, <2>3 DEF Numbered, Ranks, Copies
  <2>7. Recovered' = Recovered
    BY <1>4, <2>1, <2>2, <2>3 DEF Current
  <2>8. QED
    BY <1>2, <2>5, <2>6, <2>7 DEF Ordered, Directory!vars
<1>10. QED
  BY <1>1, <1>8, <1>9 DEF Copies

\* The older copy is marked and blank: a power cut here finds the other one.
LEMMA SetMarkOrdered ==
    ASSUME Agree, Agree', bad = {}, bad' = {}, Ordered, SetMark
    PROVE  Ordered' /\ UNCHANGED Directory!vars
<1>. USE DirAssumption
<1>. DEFINE t == at[target]
<1>1. target \in Copies /\ t \in Blocks
  BY DEF Agree, Typed, Copies, Blocks
<1>2. /\ marks' = [marks EXCEPT ![t] = @ + 1]
      /\ page' = [page EXCEPT ![t] = [p \in Slots |-> IF p <= marks[t] THEN Old ELSE @[p]]]
      /\ use' = [use EXCEPT ![target] = NumberAfter(use[Other(target)])]
      /\ pc = "mark" /\ pc' = "page" /\ torn' = torn
      /\ dir' = dir /\ fileUpdate' = fileUpdate /\ target' = target
  BY DEF SetMark
<1>3. \A b \in Blocks \ {t} : marks'[b] = marks[b] /\ page'[b] = page[b]
  BY <1>2 DEF Agree, Typed
<1>4. /\ at' = at
      /\ \A c \in Copies \ {target} : Held(c)' = Held(c) /\ Stored(at[c])' = Stored(at[c])
      /\ Recovered = Stored(at[Current]).dir
      /\ Recovered' = Stored(at[Current])'.dir
  BY <1>2, <1>3, OlderWritten
<1>5. Held(target)' = Erased
  <2>1. marks'[t] = new'[target] /\ page'[t][new'[target]] = Blank /\ new'[target] \in Slots
    BY <1>1, <1>2, <1>4 DEF Agree, Typed, Written
  <2>2. marks'[t] # 0 /\ page'[t][marks'[t]] = Blank
    BY <2>1 DEF Slots
  <2>3. Blank[target] = Erased
    BY <1>1 DEF Blank, Copies
  <2>4. QED
    BY <1>2, <1>4, <2>2, <2>3 DEF Held, NumberIn, Stored, MarkedSlot
<1>6. /\ \A c \in Copies : Held(c) \in Ranks
      /\ target = "a" <=> BNewer
      /\ \A c \in Copies \ {target} : use[c] = Held(c)
  BY <1>2 DEF Ordered, Numbered
<1>7. /\ Other(target) \in Copies \ {target}
      /\ use'[target] = NumberAfter(use'[Other(target)])
      /\ \A c \in Copies \ {target} : use'[c] = Held(c)
  <2>1. Other(target) \in Copies \ {target}
    BY <1>1 DEF Other, Copies
  <2>2. QED
    BY <1>1, <1>2, <1>6, <2>1 DEF Agree, Typed
<1>8. PICK k \in 0 .. torn :
         IF BNewer THEN Whole(Held("b") - 2 * Taken(k))
                   ELSE Whole(Place(Held("a")) + 1 - 2 * Taken(k))
  BY DEF Ordered, Aligned
<1>9. Taken(k)' = Taken(k)
  <2>1. CASE target = "a"
    <3>1. marks'[t] = marks[t] + 1 /\ marks[t] \in Int /\ k \in Int
      BY <1>1, <1>2 DEF Agree, Typed
    <3>2. Taken(k) = marks[t] - k - 0 /\ Taken(k)' = marks'[t] - k - 1
      BY <1>2, <1>4, <2>1 DEF Taken
    <3>3. QED
      BY <3>1, <3>2
  <2>2. CASE target = "b"
    <3>1. at["a"] \in Blocks \ {t}
      BY <2>2 DEF Agree, Typed, Copies, Blocks
    <3>2. marks'[at["a"]] = marks[at["a"]]
      BY <1>3, <3>1
    <3>3. QED
      BY <1>2, <1>4, <2>2, <3>2 DEF Taken
  <2>3. QED
    BY <1>1, <2>1, <2>2 DEF Copies
<1>10. CASE target = "a"
  <2>1. BNewer /\ Held("a") \in Ranks /\ Held("b") \in Ranks /\ Held("b") \in Numbers
    BY <1>6, <1>10, Verdicts DEF BNewer, Copies
  <2>2. Held("a")' = Erased /\ Held("b")' = Held("b") /\ Stored(at["b"])' = Stored(at["b"])
    BY <1>2, <1>4, <1>5, <1>10 DEF Copies
  <2>3. BNewer'
    BY <2>1, <2>2, Verdicts DEF BNewer
  <2>4. Aligned'
    BY <1>2, <1>8, <1>9, <2>1, <2>2, <2>3 DEF Aligned
  <2>5. Numbered'
    BY <1>2, <1>6, <1>7, <1>10, <2>2, <2>3 DEF Numbered, Ranks, Copies
  <2>6. Recovered' = Recovered
    BY <1>4, <2>1, <2>2, <2>3 DEF Current
  <2>7. QED
    BY <1>2, <2>4, <2>5, <2>6 DEF Ordered, Directory!vars
<1>11. CASE target = "b"
  <2>1. ~BNewer /\ Held("a") \in Ranks
    BY <1>6, <1>11 DEF Copies
  <2>2. Held("b")' = Erased /\ Held("a")' = Held("a") /\ Stored(at["a"])' = Stored(at["a"])
    BY <1>2, <1>4, <1>5, <1>11 DEF Copies
  <2>3. ~BNewer'
    BY <2>1, <2>2, Verdicts DEF BNewer
  <2>4. Aligned'
    BY <1>2, <1>8, <1>9, <2>1, <2>2, <2>3 DEF Aligned
  <2>5. Numbered'
    BY <1>2, <1>6, <1>7, <1>11, <2>2, <2>3 DEF Numbered, Ranks, Copies
  <2>6. Recovered' = Recovered
    BY <1>4, <2>1, <2>2, <2>3 DEF Current
  <2>7. QED
    BY <1>2, <2>4, <2>5, <2>6 DEF Ordered, Directory!vars
<1>12. QED
  BY <1>1, <1>10, <1>11 DEF Copies

\* The version is programmed: its number makes this copy the newer one.
LEMMA WritePageOrdered ==
    ASSUME Agree, Agree', bad = {}, bad' = {}, Ordered, WritePage
    PROVE  Ordered' /\ Directory!Save
<1>. USE DirAssumption
<1>. DEFINE t == at[target]
            p == new[target]
            v == [a |-> use["a"], b |-> use["b"], dir |-> dir]
<1>1. target \in Copies /\ t \in Blocks /\ p \in Slots
  BY DEF Agree, Typed, Copies, Blocks
<1>2. page[t][p] = Blank /\ marks[t] = p
  BY DEF Agree, Written, WritePage
<1>3. /\ page' = [page EXCEPT ![t][p] = v]
      /\ use' = [use EXCEPT ![target] = @]
      /\ pc = "page" /\ pc' = "idle" /\ torn' = torn
      /\ marks' = marks /\ dir' = dir
      /\ fileUpdate' = fileUpdate /\ target' = target
  BY <1>2 DEF WritePage
<1>4. \A b \in Blocks \ {t} : marks'[b] = marks[b] /\ page'[b] = page[b]
  BY <1>3 DEF Agree, Typed
<1>5. /\ at' = at
      /\ \A c \in Copies \ {target} : Held(c)' = Held(c) /\ Stored(at[c])' = Stored(at[c])
      /\ Recovered' = Stored(at[Current])'.dir
  BY <1>3, <1>4, OlderWritten
<1>6. Stored(at[target])' = v /\ Held(target)' = use[target]
  <2>1. page'[t][p] = v
    BY <1>1, <1>3 DEF Agree, Typed
  <2>2. marks'[t] = p /\ p # 0
    BY <1>1, <1>2, <1>3 DEF Slots
  <2>3. v[target] = use[target]
    BY <1>1 DEF Copies
  <2>4. QED
    BY <1>3, <1>5, <2>1, <2>2, <2>3 DEF Held, NumberIn, Stored, MarkedSlot
<1>7. /\ \A c \in Copies : Held(c) \in Ranks
      /\ target = "a" <=> BNewer
      /\ \A c \in Copies \ {target} : use[c] = Held(c)
      /\ use[target] = NumberAfter(use[Other(target)])
      /\ use' = use
  BY <1>1, <1>3 DEF Ordered, Numbered, Agree, Typed
<1>8. /\ Other("a") = "b" /\ Other("b") = "a"
      /\ v.dir = dir
  BY DEF Other, Copies
<1>9. PICK k \in 0 .. torn :
         IF BNewer THEN Whole(Held("b") - 2 * Taken(k))
                   ELSE Whole(Place(Held("a")) + 1 - 2 * Taken(k))
  BY DEF Ordered, Aligned
<1>10. marks[at["a"]] \in Int /\ k \in Int
  BY DEF Agree, Typed, Copies, Blocks
<1>. HIDE DEF t, p, v
<1>11. CASE target = "a"
  <2>. DEFINE n == Held("b")
              m == NumberAfter(n)
  <2>1. BNewer /\ Held("a") \in Ranks /\ n \in Ranks /\ n \in Numbers
    BY <1>7, <1>11, Verdicts DEF BNewer, Copies
  <2>2. Held("a")' = m /\ Held("b")' = n /\ Stored(at["a"])' = v
    BY <1>3, <1>5, <1>6, <1>7, <1>8, <1>11 DEF Copies
  <2>3. /\ ~PicksB(m, n) /\ m \in Numbers
        /\ m = Place(n) + 1 \/ m = Place(n) + 1 - Pages
    BY <2>1, Verdicts
  <2>4. ~BNewer'
    BY <2>2, <2>3 DEF BNewer
  <2>5. Taken(k) = marks[at["a"]] - k - 1 /\ Taken(k)' = marks[at["a"]] - k - 0
    BY <1>3, <1>5, <1>11 DEF Taken
  <2>. HIDE DEF n, m
  <2>6. Whole(Place(m) + 1 - 2 * Taken(k)')
    <3>1. Place(m) = m /\ Place(n) = n /\ m \in Int /\ n \in Int
      BY <2>1, <2>3 DEF Place, Numbers, Last
    <3>2. Whole(n - 2 * Taken(k))
      BY <1>9, <2>1 DEF n
    <3>3. \/ Place(m) + 1 - 2 * Taken(k)' = n - 2 * Taken(k)
          \/ Place(m) + 1 - 2 * Taken(k)' = n - 2 * Taken(k) - Pages
      BY <1>10, <2>3, <2>5, <3>1
    <3>4. Place(m) + 1 - 2 * Taken(k)' \in Int /\ n - 2 * Taken(k) \in Int
      BY <1>10, <2>5, <3>1
    <3>5. QED
      BY <3>2, <3>3, <3>4, WholeShift
  <2>7. Aligned'
    BY <1>3, <2>2, <2>4, <2>6 DEF Aligned
  <2>8. Numbered'
    BY <1>3, <1>6, <1>7, <1>11, <2>1, <2>2, <2>3 DEF Numbered, Ranks, Copies, n
  <2>9. Recovered' = dir
    BY <1>5, <1>8, <2>2, <2>4 DEF Current
  <2>10. QED
    BY <1>3, <2>7, <2>8, <2>9 DEF Ordered, Directory!Save
<1>12. CASE target = "b"
  <2>. DEFINE n == Held("a")
              m == NumberAfter(n)
  <2>1. ~BNewer /\ n \in Ranks
    BY <1>7, <1>12 DEF Copies
  <2>2. Held("b")' = m /\ Held("a")' = n /\ Stored(at["b"])' = v
    BY <1>3, <1>5, <1>6, <1>7, <1>8, <1>12 DEF Copies
  <2>3. /\ PicksB(n, m) /\ m \in Numbers
        /\ m = Place(n) + 1 \/ m = Place(n) + 1 - Pages
    BY <2>1, Verdicts
  <2>4. BNewer'
    BY <2>2, <2>3 DEF BNewer
  <2>5. Taken(k) = marks[at["a"]] - k - 0 /\ Taken(k)' = marks[at["a"]] - k - 0
    BY <1>3, <1>5, <1>12 DEF Taken
  <2>. HIDE DEF n, m
  <2>6. Whole(m - 2 * Taken(k)')
    <3>1. m \in Int /\ Place(n) \in Int
      BY <2>1, <2>3 DEF Place, Numbers, Last
    <3>. DEFINE x == Place(n) + 1 - 2 * Taken(k)
                y == m - 2 * Taken(k)'
    <3>2. Whole(x)
      BY <1>9, <2>1 DEF n
    <3>3. y = x \/ y = x - Pages
      BY <1>10, <2>3, <2>5, <3>1
    <3>4. x \in Int /\ y \in Int
      BY <1>10, <2>5, <3>1
    <3>. HIDE DEF x, y
    <3>5. Whole(y)
      BY <3>2, <3>3, <3>4, WholeShift
    <3>6. QED
      BY <3>5 DEF y
  <2>7. Aligned'
    BY <1>3, <2>2, <2>4, <2>6 DEF Aligned
  <2>8. Numbered'
    BY <1>3, <1>6, <1>7, <1>12, <2>1, <2>2, <2>3 DEF Numbered, Ranks, Copies, n
  <2>9. Recovered' = dir
    BY <1>5, <1>8, <2>2, <2>4 DEF Current
  <2>10. QED
    BY <1>3, <2>7, <2>8, <2>9 DEF Ordered, Directory!Save
<1>13. QED
  BY <1>1, <1>11, <1>12 DEF Copies

\* A reboot reads what the flash holds.  If it was cut off between copy a's mark
\* and its page, a has lost a page.
LEMMA PowerCutOrdered ==
    ASSUME Agree, Agree', bad = {}, bad' = {}, Ordered, PowerCut, torn \in 0 .. MaxTorn
    PROVE  Ordered' /\ Directory!PowerCut
<1>. USE DirAssumption
<1>1. /\ marks' = marks /\ page' = page /\ use' = BootUse /\ dir' = Recovered
      /\ fileUpdate' = FALSE /\ pc' = "idle" /\ target' = target
      /\ torn' = IF pc = "page" THEN torn + 1 ELSE torn
  BY DEF PowerCut, flash
<1>2. /\ at' = at /\ BNewer' = BNewer /\ Recovered' = Recovered
      /\ \A c \in Copies : Held(c)' = Held(c)
  BY <1>1, FlashKept
<1>3. Numbered'
  <2>1. BootUse = [c \in Copies |-> Held(c)]
    BY BootFinds
  <2>2. QED
    BY <1>1, <1>2, <2>1 DEF Ordered, Numbered
<1>4. Aligned'
  <2>1. PICK k \in 0 .. torn :
           IF BNewer THEN Whole(Held("b") - 2 * Taken(k))
                     ELSE Whole(Place(Held("a")) + 1 - 2 * Taken(k))
    BY DEF Ordered, Aligned
  <2>2. PICK j \in 0 .. torn' : j = IF pc = "page" /\ target = "a" THEN k + 1 ELSE k
    BY <1>1
  <2>3. Taken(j)' = Taken(k)
    <3>1. marks[at["a"]] \in Int /\ k \in Int
      BY DEF Agree, Typed, Copies, Blocks
    <3>2. Taken(j)' = marks[at["a"]] - j - 0
      BY <1>1, <1>2 DEF Taken
    <3>3. CASE pc = "page" /\ target = "a"
      <4>1. Taken(k) = marks[at["a"]] - k - 1 /\ j = k + 1
        BY <2>2, <3>3 DEF Taken
      <4>2. QED
        BY <3>1, <3>2, <4>1
    <3>4. CASE ~(pc = "page" /\ target = "a")
      <4>1. Taken(k) = marks[at["a"]] - k - 0 /\ j = k
        BY <2>2, <3>4 DEF Taken
      <4>2. QED
        BY <3>2, <4>1
    <3>5. QED
      BY <3>3, <3>4
  <2>4. Held("a")' = Held("a") /\ Held("b")' = Held("b")
    BY <1>2 DEF Copies
  <2>5. QED
    BY <1>2, <2>1, <2>3, <2>4 DEF Aligned
<1>5. QED
  BY <1>1, <1>2, <1>3, <1>4 DEF Ordered, Directory!PowerCut

---------------------------------------------------------------------------
\* Every step keeps the order of the copies, and is a step of the one table.
LEMMA NextOrdered ==
    ASSUME IInv, IInv', TypeOK, bad = {} => Ordered, [Next]_vars, 2 * MaxTorn <= Pages,
           bad' = {}
    PROVE  Ordered' /\ [Directory!Next]_(Directory!vars)
<1>1. bad = {}
  BY DEF Next, FileWritten, Begin, Erase, SetMark, WritePage, PowerCut, flash, vars
<1>2. Agree /\ Agree' /\ Ordered /\ torn \in 0 .. MaxTorn
  BY <1>1 DEF IInv, TypeOK
<1>3. ASSUME NEW d \in Dirs, FileWritten(d) PROVE Ordered' /\ Directory!Next
  BY <1>1, <1>2, <1>3, FileWrittenOrdered DEF Directory!Next
<1>4. CASE Begin
  BY <1>1, <1>2, <1>4, BeginOrdered DEF Directory!Next
<1>5. CASE Erase
  BY <1>1, <1>2, <1>5, EraseOrdered
<1>6. CASE SetMark
  BY <1>1, <1>2, <1>6, SetMarkOrdered
<1>7. CASE WritePage
  BY <1>1, <1>2, <1>7, WritePageOrdered DEF Directory!Next
<1>8. CASE PowerCut
  BY <1>1, <1>2, <1>8, PowerCutOrdered DEF Directory!Next
<1>9. CASE UNCHANGED vars
  <2>1. /\ marks' = marks /\ page' = page /\ use' = use /\ pc' = pc /\ target' = target
        /\ torn' = torn /\ dir' = dir /\ fileUpdate' = fileUpdate
    BY <1>9 DEF vars
  <2>2. /\ at' = at /\ BNewer' = BNewer /\ Recovered' = Recovered
        /\ \A c \in Copies : Held(c)' = Held(c)
    BY <1>1, <1>2, <2>1, FlashKept
  <2>3. Ordered'
    BY <1>2, <2>1, <2>2 DEF Ordered, Numbered, Aligned, Taken, Copies
  <2>4. UNCHANGED Directory!vars
    BY <2>1, <2>2 DEF Directory!vars
  <2>5. QED
    BY <2>3, <2>4
<1>10. QED
  BY <1>3, <1>4, <1>5, <1>6, <1>7, <1>8, <1>9 DEF Next

\* The file table is replaced as a whole, whatever the number of pages and of
\* changes, while no block has gone bad: in the middle of an erase, a mark or a
\* page, a power cut brings back the table that was last completely written or
\* the one just programmed, never an older one and never the default.  It takes
\* that at most half as many power cuts fall between a mark and its page as a
\* block has pages: one more on copy a, and the code takes a blank copy a for
\* the newer one.
THEOREM DirReplacedAsWhole ==
    ASSUME 2 * MaxTorn <= Pages
    PROVE  Spec => ImplementsDirectory
<1>. DEFINE O == bad = {} => Ordered
            S == bad' = {} => [Directory!Next]_(Directory!vars)
<1>1. Init => IInv /\ TypeInv /\ O
  BY InitAgrees, InitTyped, InitOrdered
<1>2. IInv /\ TypeInv /\ O /\ [Next]_vars => IInv' /\ TypeInv' /\ O' /\ [S]_vars
  <2>1. SUFFICES ASSUME IInv, TypeInv, O, [Next]_vars PROVE IInv' /\ TypeInv' /\ O' /\ S
    OBVIOUS
  <2>2. IInv' /\ TypeInv' /\ TypeOK
    BY <2>1, NextAgrees, NextTyped DEF TypeInv
  <2>3. O' /\ S
    BY <2>1, <2>2, NextOrdered
  <2>4. QED
    BY <2>2, <2>3
<1>. HIDE DEF O
<1>3. QED
  BY <1>1, <1>2, PTL DEF Spec, ImplementsDirectory
=============================================================================
