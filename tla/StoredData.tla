----------------------------- MODULE StoredData -----------------------------
(***************************************************************************)
(* The stored image (parameters, counters, environment): kept in memory,   *)
(* changed by anybody at any time, and written to the file sdata.dat when  *)
(* its checksum differs from the one in its first bytes.                   *)
(*                                                                         *)
(* sdata_update_task looks every 3 s; save_sdata does the same at once in   *)
(* another thread.  The checksum is computed piece by piece, with sleeps,  *)
(* and write_file takes nand_sem only after set_writenum has moved the     *)
(* writer's place in the FILE_STRUCT both use: that may fall between any   *)
(* two accesses of fwrite_w, which the thread that holds nand_sem runs.    *)
(* A file is half a block long: two regions share a block, which is erased *)
(* when the first of them is begun.  The new region counts after a power   *)
(* cut once nand_task has saved the file table (AtomicDir).                *)
(***************************************************************************)
EXTENDS NandFile, Sequences, FiniteSets

CONSTANTS
    Values,      \* what a sector of the image may hold
    MaxChanges,  \* bound: changes of the image
    MaxCalls,    \* bound: calls of save_sdata
    MaxCuts,     \* bound: power cuts
    MaxLag,      \* bound: saves of the image between two of the file table
    None

Threads == {"task", "saver"}   \* sdata_update_task, a caller of save_sdata
Sectors == 1 .. RegionSize
Images == [Sectors -> Values]

\* A page of the file: the first one begins with the checksum of the image.
\* The checksum is the image it was computed of.
Page(p, sum, im) == <<IF p = 1 THEN sum ELSE None, im[p]>>
FileData == {Page(p, sum, im) : p \in Sectors, sum \in Images, im \in Images}

ASSUME StoredAssumption ==
    /\ Data = FileData
    /\ BlockSize = 2 * RegionSize
    /\ Values # {} /\ None \notin Images \cup Threads \cup {"nand"}
    /\ MaxChanges \in Nat /\ MaxCalls \in Nat /\ MaxCuts \in Nat /\ MaxLag \in Nat
    /\ AreaSize >= (MaxLag + 2) * RegionSize

VARIABLES
    image,     \* psdata without its checksum
    sum,       \* the checksum in psdata
    f, area,   \* the file sdata.dat
    saved,     \* fstartaddr in the table that is on flash
    dirty,     \* file_update
    nand_sem,  \* who holds it
    pc,        \* where each thread is
    hash,      \* what each thread has computed its checksum of
    io,        \* a local of the thread in fwrite_w: the page it was called for,
               \* then the address behind it, then the count it has read
    changes, calls, cuts, lag,  \* bounded counts
    again,     \* history: a region that does not begin a block was begun twice,
               \* or the place of a write under way was moved
    undone     \* history: during a save a sector was set back to its old value

imageVars == <<image, sum>>
flashVars == <<f, area, saved, dirty>>
boundVars == <<changes, calls, cuts, lag>>
historyVars == <<again, undone>>
vars == <<imageVars, flashVars, nand_sem, pc, hash, io, boundVars, historyVars>>

Outside == {"idle", "hash", "set", "cur", "wait"}
InWrite == {"program", "address", "count", "full"}     \* in fwrite_w
Holding == InWrite \cup {"write", "test"}              \* with nand_sem

TypeOK ==
    /\ image \in Images /\ sum \in Images
    /\ f \in FileStructs /\ area \in [Pages -> Contents]
    /\ saved \in Pages /\ dirty \in BOOLEAN
    /\ nand_sem \in Threads \cup {"nand", None}
    /\ pc \in [Threads -> Outside \cup Holding]
    /\ \A t \in Threads : hash[t] \in Seq(Values) /\ Len(hash[t]) <= RegionSize
    /\ nand_sem \in Threads => pc[nand_sem] \in Holding
    /\ io \in 0 .. AreaSize
    /\ changes \in 0 .. MaxChanges /\ calls \in 0 .. MaxCalls /\ cuts \in 0 .. MaxCuts
    /\ lag \in 0 .. MaxLag
    /\ again \in BOOLEAN /\ undone \in BOOLEAN

File(start) ==
    [fstartaddr |-> start, fcuraddr |-> start, fsize |-> RegionSize,
     flastsize |-> RegionSize, fwritennum |-> 0, freadnum |-> 0]

\* The image was saved once, and read back.
Init ==
    /\ \E v \in Values : image = [p \in Sectors |-> v]
    /\ sum = image
    /\ f = File(0) /\ saved = 0 /\ dirty = FALSE
    /\ area = [a \in Pages |-> IF a < RegionSize THEN Page(a + 1, sum, image) ELSE Erased]
    /\ nand_sem = None
    /\ pc = [t \in Threads |-> IF t = "task" THEN "hash" ELSE "idle"]
    /\ hash = [t \in Threads |-> << >>] /\ io = 0
    /\ changes = 0 /\ calls = 0 /\ cuts = 0 /\ lag = 0
    /\ again = FALSE /\ undone = FALSE
-----------------------------------------------------------------------------
Goes(t, place) == pc' = [pc EXCEPT ![t] = place]

\* A save is under way, or the file does not hold v for sector p.
Hides(p, v) ==
    /\ sum[p] = v
    /\ \/ \E t \in Threads : pc[t] \notin {"idle", "hash"}
       \/ area[f.fstartaddr + p - 1] # Page(p, sum, [image EXCEPT ![p] = v])

\* Parameters are written, counters counted, environment variables set.
Change(p, v) ==
    /\ changes < MaxChanges /\ v # image[p]
    /\ changes' = changes + 1
    /\ image' = [image EXCEPT ![p] = v]
    /\ undone' = (undone \/ Hides(p, v))
    /\ UNCHANGED <<sum, flashVars, nand_sem, pc, hash, io, calls, cuts, lag, again>>

\* save_sdata is called.
Call ==
    /\ pc["saver"] = "idle" /\ calls < MaxCalls
    /\ calls' = calls + 1
    /\ Goes("saver", "hash")
    /\ UNCHANGED <<imageVars, flashVars, nand_sem, hash, io, changes, cuts, lag, historyVars>>

\* Mutated form: the offset of the piece is not advanced.
HashPieceFirst(t) ==
    /\ pc[t] = "hash" /\ Len(hash[t]) < RegionSize
    /\ hash' = [hash EXCEPT ![t] = Append(@, image[1])]
    /\ UNCHANGED <<imageVars, flashVars, nand_sem, pc, io, boundVars, historyVars>>

\* get_sdatadatamd5, one piece.
HashPiece(t) ==
    /\ pc[t] = "hash" /\ Len(hash[t]) < RegionSize
    /\ hash' = [hash EXCEPT ![t] = Append(@, image[Len(@) + 1])]
    /\ UNCHANGED <<imageVars, flashVars, nand_sem, pc, io, boundVars, historyVars>>

Hashed(t) == pc[t] = "hash" /\ Len(hash[t]) = RegionSize

\* sdata_update_task finds the checksum unchanged.
Unchanged ==
    /\ Hashed("task") /\ hash["task"] = sum
    /\ hash' = [hash EXCEPT !["task"] = << >>]
    /\ UNCHANGED <<imageVars, flashVars, nand_sem, pc, io, boundVars, historyVars>>

\* The checksum is put into the image: by the task when it differs, by
\* save_sdata always.
StoreSum(t) ==
    /\ Hashed(t) /\ (t = "task" => hash[t] # sum)
    /\ sum' = hash[t]
    /\ hash' = [hash EXCEPT ![t] = << >>]
    /\ Goes(t, "set")
    /\ UNCHANGED <<image, flashVars, nand_sem, io, boundVars, historyVars>>

\* The region that is being written does not begin a block.
Sharing == NewStart(f) % BlockSize # 0

\* A thread is at one of these places.
Writing(places) == \E u \in Threads : pc[u] \in places

\* write_file: set_writenum moves the writer to the start, first the count,
\* of a page that may be programmed already and not counted yet,
SetCount(t) ==
    /\ pc[t] = "set"
    /\ f' = [f EXCEPT !.fwritennum = 0]
    /\ again' = (again \/ (f.fwritennum # 0 /\ (Sharing \/ Writing({"address"}))))
    /\ Goes(t, "cur")
    /\ UNCHANGED <<imageVars, area, saved, dirty, nand_sem, hash, io, boundVars, undone>>

\* then the address, to which the next page goes if one is counted or about
\* to be.
SetAddress(t) ==
    /\ pc[t] = "cur"
    /\ f' = [f EXCEPT !.fcuraddr = f.fstartaddr]
    /\ again' = (again \/ f.fwritennum # 0 \/ Writing({"count"}))
    /\ Goes(t, "wait")
    /\ UNCHANGED <<imageVars, area, saved, dirty, nand_sem, hash, io, boundVars, undone>>

\* write_file takes nand_sem.  nand_task, which looks every 100 ms, has saved the
\* file table before that happens MaxLag times.
Take(t) ==
    /\ pc[t] = "wait" /\ nand_sem = None
    /\ lag < MaxLag
    /\ nand_sem' = t
    /\ Goes(t, "write")
    /\ UNCHANGED <<imageVars, flashVars, hash, io, boundVars, historyVars>>

\* write_file calls fwrite_w for the page that fwritennum asks for.
FetchPage(t) ==
    /\ pc[t] = "write"
    /\ io' = f.fwritennum + 1
    /\ Goes(t, "program")
    /\ UNCHANGED <<imageVars, flashVars, nand_sem, hash, boundVars, historyVars>>

\* fwrite_w finds the address and programs the page, from the image as it is now.
ProgramPage(t) ==
    /\ pc[t] = "program"
    /\ area' = Programmed(area, WriteAddress(f), Page(io, sum, image))
    /\ io' = WriteAddress(f) + 1
    /\ Goes(t, "address")
    /\ UNCHANGED <<imageVars, f, saved, dirty, nand_sem, hash, boundVars, historyVars>>

\* fcuraddr is moved behind the page, and fwritennum is read,
AdvanceAddress(t) ==
    /\ pc[t] = "address"
    /\ f' = [f EXCEPT !.fcuraddr = io]
    /\ io' = f.fwritennum
    /\ Goes(t, "count")
    /\ UNCHANGED <<imageVars, area, saved, dirty, nand_sem, hash, boundVars, historyVars>>

\* to be written back with the page added,
AdvanceCount(t) ==
    /\ pc[t] = "count"
    /\ f' = [f EXCEPT !.fwritennum = io + 1]
    /\ Goes(t, "full")
    /\ UNCHANGED <<imageVars, area, saved, dirty, nand_sem, hash, io, boundVars, historyVars>>

\* and compared with the size of the file: the value just computed or, when
\* the compiler reads it again, the one that is there now.
CompleteFile(t) ==
    /\ pc[t] = "full"
    /\ \E n \in {f.fwritennum, io + 1} :
          IF n >= f.fsize
          THEN f' = Replaced(f) /\ dirty' = TRUE /\ lag' = lag + 1
          ELSE UNCHANGED <<f, dirty, lag>>
    /\ io' = 0
    /\ Goes(t, "test")
    /\ UNCHANGED <<imageVars, area, saved, nand_sem, hash, changes, calls, cuts, historyVars>>

\* Mutated form: write_file returns without releasing nand_sem.
TestKeeps(t) ==
    /\ pc[t] = "test"
    /\ Goes(t, IF f.fwritennum # 0 THEN "write" ELSE IF t = "task" THEN "hash" ELSE "idle")
    /\ UNCHANGED <<imageVars, flashVars, nand_sem, hash, io, boundVars, historyVars>>

\* write_file: on to the next page, or it releases nand_sem and returns.
Test(t) ==
    /\ pc[t] = "test"
    /\ IF f.fwritennum # 0
       THEN Goes(t, "write") /\ UNCHANGED nand_sem
       ELSE Goes(t, IF t = "task" THEN "hash" ELSE "idle") /\ nand_sem' = None
    /\ UNCHANGED <<imageVars, flashVars, hash, io, boundVars, historyVars>>

\* nand_task: finds file_update, takes nand_sem and clears the flag,
Attend ==
    /\ dirty /\ nand_sem = None
    /\ nand_sem' = "nand"
    /\ dirty' = FALSE
    /\ UNCHANGED <<imageVars, f, area, saved, pc, hash, io, boundVars, historyVars>>

\* then writes the file table to flash and releases nand_sem.
SaveTable ==
    /\ nand_sem = "nand"
    /\ saved' = f.fstartaddr /\ lag' = 0
    /\ nand_sem' = None
    /\ UNCHANGED <<imageVars, f, area, dirty, pc, hash, io, changes, calls, cuts, historyVars>>

\* The power is cut, before or after the programming of a page; fileint takes
\* the table from flash and sdata_init reads the image, whatever is there for
\* a page that was spoilt.
PowerCut ==
    /\ cuts < MaxCuts /\ cuts' = cuts + 1
    /\ f' = File(saved)
    /\ \E s, im \in Images :
          /\ \A p \in Sectors : area[saved + p - 1] \in Data =>
                                    Page(p, s, im) = area[saved + p - 1]
          /\ sum' = s /\ image' = im
    /\ again' = (again \/ /\ \/ f.fwritennum # 0 \/ saved # f.fstartaddr
                             \/ Writing({"address", "count", "full"})
                          /\ NewStart(File(saved)) % BlockSize # 0)
    /\ dirty' = FALSE /\ lag' = 0
    /\ nand_sem' = None
    /\ pc' = [t \in Threads |-> IF t = "task" THEN "hash" ELSE "idle"]
    /\ hash' = [t \in Threads |-> << >>] /\ io' = 0
    /\ UNCHANGED <<area, saved, changes, calls, undone>>

Step(t) == HashPiece(t) \/ StoreSum(t) \/ SetCount(t) \/ SetAddress(t)
           \/ Take(t) \/ FetchPage(t) \/ ProgramPage(t) \/ AdvanceAddress(t)
           \/ AdvanceCount(t) \/ CompleteFile(t) \/ Test(t)

Next ==
    \/ \E p \in Sectors, v \in Values : Change(p, v)
    \/ Call
    \/ \E t \in Threads : Step(t)
    \/ Unchanged \/ Attend \/ SaveTable \/ PowerCut

\* Threads are scheduled round robin, nand_sem is first come, first served.
Fairness ==
    /\ WF_vars(Step("task") \/ Unchanged) /\ SF_vars(Take("task"))
    /\ WF_vars(Step("saver")) /\ SF_vars(Take("saver"))
    /\ SF_vars(Attend) /\ WF_vars(SaveTable)

Spec == Init /\ [][Next]_vars /\ Fairness
-----------------------------------------------------------------------------
(* Properties.                                                             *)

FileAt(start) == [p \in Sectors |-> area[start + p - 1]]

\* What is stored behaves as one value that is replaced as a whole: nothing
\* that a thread writes changes the current file before it is complete, and a
\* power cut brings back the file that the saved table names, as it was.  What
\* breaks this is a region begun twice that shares its block with the region
\* before it (its pages are programmed over), and a writer whose place is
\* moved while it writes.
Store == INSTANCE AtomicDir
    WITH Dirs <- [Sectors -> Data], Default <- {},
         dir <- FileAt(f.fstartaddr), saved <- FileAt(saved)
ImplementsStore == [][~again' => [Store!Next]_(Store!vars)]_vars

\* The file holds the image as it is.
Stored == \A p \in Sectors : FileAt(f.fstartaddr)[p] = Page(p, sum, image)

\* Once changes cease the file and the image agree, whatever pieces the
\* checksums were computed of and whoever saved what in the meantime; unless a
\* sector was set back to the value its checksum was computed of, which hides
\* that something else was written, or a writer's place was moved under it, as
\* above, which may leave the pages of the file shifted.
ChangesStored == <>[](Stored \/ again \/ undone)
=============================================================================
