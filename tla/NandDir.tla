------------------------------ MODULE NandDir ------------------------------
(***************************************************************************)
(* The file table of the NAND store, "file.dat", which tells where each of *)
(* the log, wave, data and firmware files lies                             *)
(* (src/src/bsp/nand_file.c, src/src/bsp/nand.c).                          *)
(*                                                                         *)
(* Two copies of the table, a (pfile[6]) and b (pfile[9]), live each in a  *)
(* flash block of its own.  Page 0 of a block holds marks, one byte per    *)
(* page in use; the pages after it hold successive versions of the table,  *)
(* and the last marked one counts.  Each version carries the numbers       *)
(* (funused) of both copies, and the numbers say which copy is newer.      *)
(* nand_task looks every 100 ms whether a file has changed, takes nand_sem *)
(* and writes the older copy: it erases the block when every page is used, *)
(* sets the next mark, and programs the page.  fileint reads the copies    *)
(* back at boot.                                                           *)
(*                                                                         *)
(* Power may be cut between any two of these steps, and a block may turn   *)
(* out bad when it is programmed.  One page program and one block erase    *)
(* each happen entirely or not at all, and no operation times out.         *)
(***************************************************************************)
EXTENDS Integers, FiniteSets

CONSTANTS
    Dirs, Default,   \* contents of the table; the one creat_file_* make up
    Pages,           \* pages of a block beside page 0: 63
    LastBlock,       \* the blocks of the region are 0 .. LastBlock
    MaxBad,          \* bound: blocks that turn out bad
    MaxTorn          \* bound: power cuts between a mark and its page

ASSUME DirAssumption ==
    /\ Default \in Dirs
    /\ Pages \in Nat /\ Pages >= 3
    /\ MaxBad \in Nat /\ MaxTorn \in Nat
    /\ LastBlock \in Nat /\ LastBlock >= MaxBad + 1

VARIABLES
    marks,       \* block -> how many of its pages are marked
    page,        \* block -> page -> what is programmed there
    bad,         \* blocks flagged bad
    at,          \* copy -> the block it is in
    cur,         \* copy -> page of its version (fstartaddr)
    new,         \* copy -> page of the next version (fnewstartaddr)
    use,         \* copy -> its number (funused)
    dir,         \* the rest of the table in memory (file_data)
    fileUpdate,  \* file_update: the table has changed
    pc,          \* nand_task's place; it holds nand_sem unless "idle"
    target,      \* the copy it is writing
    torn         \* power cuts so far that left a mark without its page

flash == <<marks, page, bad>>
memory == <<at, cur, new, use>>
vars == <<marks, page, bad, at, cur, new, use, dir, fileUpdate, pc, target, torn>>

Blocks == 0 .. LastBlock
Copies == {"a", "b"}
Slots == 1 .. Pages

\* Numbers run from 0 to Last and start over.  The code's other values of
\* funused stand above them: 0xaaaaaaaa, 0xffffffff (an erased page) and 0xaa.
Last == Pages - 1
Fresh == Pages + 200
Erased == Pages + 400
AllBad == Pages + 100
Numbers == 0 .. Last
Uses == Numbers \cup {Fresh, Erased, AllBad}

\* What is read from a page.  An erased page reads as all ones, and the
\* creat_file_* functions then make up the default table.  An Old page is below
\* the last mark and never read again.
Corrupt == "corrupt"
Versions == [a : Uses, b : Uses, dir : Dirs \cup {Corrupt}]
Blank == [a |-> Erased, b |-> Erased, dir |-> Default]
Old == [a |-> Fresh, b |-> Fresh, dir |-> Corrupt]

Other(c) == CHOOSE d \in Copies : d # c

---------------------------------------------------------------------------
\* Mutated form: the wrap of the numbers is forgotten.
PicksBNoWrap(ua, ub) ==
    \/ ua = Erased /\ ub <= Last
    \/ ua = Fresh /\ ub < Last
    \/ ua < ub /\ ub <= Last

\* get_file_file_addr: of copies numbered ua and ub, is b the one to use?
\* Every other branch of it returns a.
PicksB(ua, ub) ==
    \/ ua = Erased /\ ub <= Last
    \/ ua = Last /\ ub = 0
    \/ ua = Fresh /\ ub < Last
    \/ ua < ub /\ ub <= Last /\ ~(ua = 0 /\ ub = Last)

Newest(u) == IF PicksB(u["a"], u["b"]) THEN "b" ELSE "a"

\* Mutated form: the number does not advance.
NumberKept(n) == IF n <= Last THEN n ELSE 0

\* The number that follows n; 0xffffffff + 1 wraps to 0.
NumberAfter(n) == IF n < Last THEN n + 1 ELSE 0

\* Mutated form: no return to page 1 after the last page.
SlotAfterNoWrap(p) == p + 1

SlotAfter(p) == IF p = Pages THEN 1 ELSE p + 1

\* get_filedat_block: the first block from b on that is not flagged bad.
GoodFrom(b) == CHOOSE g \in b .. LastBlock : g \notin bad /\ \A h \in b .. g - 1 : h \in bad

\* get_filedat_addr: the page of the last mark, page 1 of an unmarked block.
MarkedSlot(b) == IF marks[b] = 0 THEN 1 ELSE marks[b]

\* Mutated form: the next page is taken to be the one in use.
NextSlotInUse(b) == MarkedSlot(b)

\* get_file_file, for an address that is not the one in memory: the next page
\* to write.
NextSlot(b) == IF marks[b] = 0 THEN 1 ELSE SlotAfter(marks[b])

\* What fileint finds in the flash: the blocks, the number in each, the table in
\* the newer one.
Stored(b) == page[b][MarkedSlot(b)]
NumberIn(b, c) == IF marks[b] = 0 THEN Fresh ELSE Stored(b)[c]
BootBlock == LET b == GoodFrom(0) IN [c \in Copies |-> IF c = "a" THEN b ELSE GoodFrom(b + 1)]
BootUse == [c \in Copies |-> NumberIn(BootBlock[c], c)]
Recovered == Stored(BootBlock[Newest(BootUse)]).dir

---------------------------------------------------------------------------
\* A formatted flash after its first boot.
Init ==
    /\ marks = [b \in Blocks |-> 0]
    /\ page = [b \in Blocks |-> [p \in Slots |-> Blank]]
    /\ bad = {}
    /\ at = [c \in Copies |-> IF c = "a" THEN 0 ELSE 1]
    /\ cur = [c \in Copies |-> 1]
    /\ new = [c \in Copies |-> 1]
    /\ use = [c \in Copies |-> Fresh]
    /\ dir = Default
    /\ fileUpdate = FALSE
    /\ pc = "idle"
    /\ target = "a"
    /\ torn = 0

\* Under nand_sem, fwrite_w finishes a file and moves its place in the table.
FileWritten(d) ==
    /\ pc = "idle"
    /\ dir' = d
    /\ fileUpdate' = TRUE
    /\ UNCHANGED <<flash, memory, pc, target, torn>>

\* nand_task takes the semaphore, chooses the older copy and looks its place up
\* again, in a later block when its own has gone bad.
Begin ==
    /\ pc = "idle"
    /\ fileUpdate
    /\ fileUpdate' = FALSE
    /\ \E c \in Copies :
          /\ c = Other(Newest(use))
          /\ LET b == GoodFrom(at[c])
                 moved == <<b, MarkedSlot(b)>> # <<at[c], cur[c]>>
             IN  /\ target' = c
                 /\ at' = [at EXCEPT ![c] = b]
                 /\ cur' = [cur EXCEPT ![c] = MarkedSlot(b)]
                 /\ new' = [new EXCEPT ![c] = IF moved THEN NextSlot(b) ELSE @]
                 /\ use' = [use EXCEPT ![c] = IF moved /\ marks[b] = 0 THEN Fresh ELSE @]
                 /\ pc' = IF marks[b] = Pages THEN "erase" ELSE "mark"
    /\ UNCHANGED <<flash, dir, torn>>

\* set_filedat_addr, every page used: the block is erased first.
Erase ==
    /\ pc = "erase"
    /\ marks' = [marks EXCEPT ![at[target]] = 0]
    /\ page' = [page EXCEPT ![at[target]] = [p \in Slots |-> Blank]]
    /\ pc' = "mark"
    /\ UNCHANGED <<bad, memory, dir, fileUpdate, target, torn>>

\* set_filedat_addr: one more mark.  The version it leaves behind is Old.  The
\* block may turn out bad, and is flagged.  nand_task then numbers the copy.
SetMark ==
    /\ pc = "mark"
    /\ LET b == at[target]
       IN  /\ marks' = [marks EXCEPT ![b] = @ + 1]
           /\ page' = [page EXCEPT ![b] = [p \in Slots |-> IF p <= marks[b] THEN Old ELSE @[p]]]
           /\ \/ bad' = bad
              \/ Cardinality(bad) < MaxBad /\ bad' = bad \cup {b}
    /\ use' = [use EXCEPT ![target] = NumberAfter(use[Other(target)])]
    /\ pc' = "page"
    /\ UNCHANGED <<at, cur, new, dir, fileUpdate, target, torn>>

\* fwrite_w of the table: NAND_Write_Data steps over a bad block into the next
\* one.  Programming a page that is not blank leaves a mixture.  The block may
\* turn out bad.  get_newstartaddr finds no block left when the copy's is bad.
WritePage ==
    /\ pc = "page"
    /\ LET c == target
           b == IF at[c] \in bad THEN at[c] + 1 ELSE at[c]
           p == new[c]
       IN  /\ \/ /\ page[b][p] = Blank
                 /\ page' = [page EXCEPT ![b][p] = [a |-> use["a"], b |-> use["b"], dir |-> dir]]
              \/ /\ page[b][p] # Blank
                 /\ \E ua, ub \in Numbers :
                       page' = [page EXCEPT ![b][p] = [a |-> ua, b |-> ub, dir |-> Corrupt]]
           /\ \/ bad' = bad
              \/ Cardinality(bad) < MaxBad /\ b \notin bad /\ bad' = bad \cup {b}
           /\ cur' = [cur EXCEPT ![c] = p]
           /\ new' = [new EXCEPT ![c] = IF at[c] \in bad' THEN @ ELSE SlotAfter(p)]
           /\ use' = [use EXCEPT ![c] = IF at[c] \in bad' THEN AllBad ELSE @]
    /\ pc' = "idle"
    /\ UNCHANGED <<marks, at, dir, fileUpdate, target, torn>>

\* Power is cut, and fileint reads the table back.
PowerCut ==
    /\ pc = "page" => torn < MaxTorn
    /\ torn' = IF pc = "page" THEN torn + 1 ELSE torn
    /\ at' = BootBlock
    /\ cur' = [c \in Copies |-> MarkedSlot(BootBlock[c])]
    /\ new' = [c \in Copies |-> NextSlot(BootBlock[c])]
    /\ use' = BootUse
    /\ dir' = Recovered
    /\ fileUpdate' = FALSE
    /\ pc' = "idle"
    /\ UNCHANGED <<flash, target>>

Next ==
    \/ \E d \in Dirs : FileWritten(d)
    \/ Begin
    \/ Erase
    \/ SetMark
    \/ WritePage
    \/ PowerCut

Spec == Init /\ [][Next]_vars

\* nand_task is scheduled round robin, its semaphore is first come, first served.
FairSpec == Spec /\ WF_vars(Begin \/ Erase \/ SetMark \/ WritePage)

---------------------------------------------------------------------------
TypeOK ==
    /\ marks \in [Blocks -> 0 .. Pages]
    /\ page \in [Blocks -> [Slots -> Versions]]
    /\ bad \in SUBSET Blocks
    /\ at \in [Copies -> Blocks]
    /\ cur \in [Copies -> Slots]
    /\ new \in [Copies -> Slots]
    /\ use \in [Copies -> Uses]
    /\ dir \in Dirs \cup {Corrupt}
    /\ fileUpdate \in BOOLEAN
    /\ pc \in {"idle", "erase", "mark", "page"}
    /\ target \in Copies
    /\ torn \in 0 .. MaxTorn

\* While no block has gone bad, the two copies behave as one table that is
\* replaced as a whole: whatever nand_task is doing, a power cut brings back
\* either the last table completely written or the one being written.
Directory == INSTANCE AtomicDir WITH dirty <- fileUpdate, saved <- Recovered
ImplementsDirectory == [][bad' = {} => [Directory!Next]_(Directory!vars)]_vars

\* A page is never programmed twice between two erases (set_filedat_addr and the
\* place in memory agree on which page is next), while no block has gone bad.
ProgramsBlankPages == pc = "page" /\ bad = {} => page[at[target]][new[target]] = Blank

\* A change reported by file_update reaches the flash, unless a block goes bad.
ChangeSaved == (fileUpdate /\ bad = {}) ~> (bad # {} \/ Recovered = dir)
=============================================================================
