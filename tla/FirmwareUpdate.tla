--------------------------- MODULE FirmwareUpdate ---------------------------
(***************************************************************************)
(* The update of the controller's program over Modbus TCP (function 0x68,  *)
(* type 2: the file main_cur.bin).                                         *)
(*                                                                         *)
(* A client announces an image with its length and checksum, sends it      *)
(* block by block, and asks for the check.  The thread of its connection   *)
(* (mbresp_task) takes the requests, a thread created for each request     *)
(* (firmware_update, firmware_check) does the work, and mbresp_spec_task   *)
(* answers and watches over the time-out.  update_ctrl is one for each     *)
(* connection, update_inf and the file are one for all; mb_send_sem makes  *)
(* the handling of a request atomic against other requests, and nothing    *)
(* else.  An update also terminates six tasks of the program, and its      *)
(* check creates them again.                                               *)
(***************************************************************************)
EXTENDS NandFile, Sequences, FiniteSets

CONSTANTS
    MaxConns,   \* MAX_CONN_NUM
    CheckMax,   \* blocks in the longest program: more are neither written nor checked
    Images,     \* the images that clients may send
    Loadable,   \* those announced as type 2; the others have an unknown type
    Length,     \* codesize of each image, in blocks of UPDATE_ONCE_SIZE
    MaxWorkers, \* bound: threads created for updates at a time
    Old,        \* a page of the program that the controller was delivered with
    None

Conns == 1 .. MaxConns      \* the slots of mbser_inf
Workers == 1 .. MaxWorkers

Block(i, k) == <<i, k>>
Whole(i) == [k \in 1 .. Length[i] |-> Block(i, k)]
Blocks == {Block(i, k) : i \in Images, k \in 1 .. AreaSize}
FileData == Blocks \cup {Old}

ASSUME FirmwareAssumption ==
    /\ Loadable \subseteq Images
    /\ RegionSize % BlockSize = 0
    /\ Length \in [Images -> 1 .. AreaSize - RegionSize]
    /\ CheckMax \in Nat
    /\ Data = FileData
    /\ MaxConns \in Nat /\ MaxWorkers \in Nat
    /\ None \notin Images \cup Blocks \cup Nat

States == {"UPDATE_IDLE", "UPDATE_PROGRAM_DOING", "UPDATE_PROGRAM_FAILED",
           "UPDATE_PROGRAM_SUCCESS", "UPDATE_CHECK_DOING",
           "UPDATE_CHECK_FAILED", "UPDATE_CHECK_SUCCESS"}

Checked == {"UPDATE_CHECK_FAILED", "UPDATE_CHECK_SUCCESS"}

\* update_ctrl.  The time-out is off, running, or has run out.
Controls == [valid : BOOLEAN, state : States, timer : {"off", "running", "out"}]
Cleared == [valid |-> FALSE, state |-> "UPDATE_IDLE", timer |-> "off"]

\* Mutated form: the time-out starts with the first block.
AnnouncedUntimed == [valid |-> TRUE, state |-> "UPDATE_IDLE", timer |-> "off"]

\* After an accepted announcement.
Announced == [valid |-> TRUE, state |-> "UPDATE_IDLE", timer |-> "running"]

\* What a thread is at: not created; a block is to be written, or is written;
\* the file is being read, was found right, was found right and the mark not
\* stored, or was found wrong; the verdict is reported and the tasks are to be
\* created, or are created; left over for ever.
Jobs == {"free", "write", "written", "read", "passed", "unsaved", "failed",
         "reported", "created", "stranded"}

VARIABLES
    conns,      \* the slots in use
    ctrl,       \* update_ctrl of each slot
    flag,       \* update_inf.flag
    md5,        \* update_inf.md5: the image announced last
    buf,        \* update_inf.buf
    worker,     \* what each thread does, and for which slot
    got,        \* the pages each checking thread has read
    checker,    \* tid_firmware_check
    f, area,    \* the file main_cur.bin
    approved,   \* the stored main_cur_md5: the image marked for the boot loader
    tasks,      \* instances of the tasks an update terminates and creates
    latest,     \* the instances the tid_ variables name are among them
    image,      \* history: the image announced on each slot
    orderly,    \* history: the blocks of the slot's update came in their order
    sent,       \* history: and there were so many of them
    broken,     \* history: ways in which one update at a time was broken
    idled       \* history: since the last check, an update was abandoned or a
                \* request refused

ctrlVars == <<conns, ctrl, flag, md5, buf>>
workVars == <<worker, got, checker>>
fileVars == <<f, area, approved>>
taskVars == <<tasks, latest>>
historyVars == <<image, orderly, sent, broken, idled>>
vars == <<ctrlVars, workVars, fileVars, taskVars, historyVars>>

TypeOK ==
    /\ conns \subseteq Conns
    /\ ctrl \in [Conns -> Controls]
    /\ flag \in BOOLEAN
    /\ md5 \in Images \cup {None}
    /\ buf \in Blocks \cup {None}
    /\ worker \in [Workers -> [job : Jobs, slot : Conns \cup {None}]]
    /\ got \in [Workers -> Seq(Contents)]
    /\ checker \in Workers \cup {None}
    /\ f \in FileStructs
    /\ area \in [Pages -> Contents]
    /\ approved \in Images \cup {None}
    /\ tasks \in Nat
    /\ latest \in BOOLEAN
    /\ image \in [Conns -> Images \cup {None}]
    /\ sent \in [Conns -> 0 .. AreaSize]
    /\ orderly \in [Conns -> BOOLEAN]
    /\ broken \subseteq {"foreign", "late", "stray", "early", "cut", "moved"}
    /\ idled \in BOOLEAN

Free == [job |-> "free", slot |-> None]

Init ==
    /\ conns = {}
    /\ ctrl = [s \in Conns |-> Cleared]
    /\ flag = FALSE /\ md5 = None /\ buf = None
    /\ worker = [w \in Workers |-> Free]
    /\ got = [w \in Workers |-> << >>]
    /\ checker = None
    /\ f = [fstartaddr |-> 0, fcuraddr |-> 0, fsize |-> RegionSize,
            flastsize |-> RegionSize, fwritennum |-> 0, freadnum |-> 0]
    /\ area = [p \in Pages |-> IF p < RegionSize THEN Old ELSE Erased]
    /\ approved = None
    /\ tasks = 1 /\ latest = TRUE
    /\ image = [s \in Conns |-> None]
    /\ sent = [s \in Conns |-> 0]
    /\ orderly = [s \in Conns |-> TRUE]
    /\ broken = {} /\ idled = FALSE

-----------------------------------------------------------------------------
(* Who is updating.                                                        *)

\* An update is under way on slot s.
Updating(s) == s \in conns /\ ctrl[s].valid

\* A thread whose work the state of its slot does not tell of.
Idle(w) == worker[w].job \in {"free", "reported", "created", "stranded"}
WorksFor(w, s) == worker[w].slot = s /\ ~Idle(w)
Working(s) == \E w \in Workers : WorksFor(w, s)

\* What is broken when flag is cleared on behalf of slot s.
Leftovers(s) == {x \in {"foreign"} : \E t \in Conns \ {s} : Updating(t)}
                    \cup {x \in {"late"} : Working(s)}
                    \cup {x \in {"cut"} : Updating(s) /\ f.fwritennum # 0}
Abandons(s) == idled' = (idled \/ Updating(s))

\* The history of the update on slot s is forgotten with it.
Forget(s) ==
    /\ image' = [image EXCEPT ![s] = None]
    /\ sent' = [sent EXCEPT ![s] = 0]
    /\ orderly' = [orderly EXCEPT ![s] = TRUE]

\* firmware_update_finish.
Finish(s) ==
    /\ ctrl' = [ctrl EXCEPT ![s] = Cleared]
    /\ flag' = FALSE
    /\ broken' = broken \cup Leftovers(s)
    /\ Forget(s)

-----------------------------------------------------------------------------
(* The threads of the connections.                                         *)

\* MBsever_task accepts a connection, mbser_addconn takes the first free slot.
Connect(s) ==
    /\ s \notin conns /\ 1 .. s - 1 \subseteq conns
    /\ conns' = conns \cup {s}
    /\ ctrl' = [ctrl EXCEPT ![s] = Cleared]
    /\ UNCHANGED <<flag, md5, buf, workVars, fileVars, taskVars, historyVars>>

\* The end of mbresp_task clears the flag, whoever is updating.
Close(s) ==
    /\ s \in conns
    /\ conns' = conns \ {s}
    /\ flag' = FALSE
    /\ broken' = broken \cup Leftovers(s)
    /\ Abandons(s)
    /\ Forget(s)
    /\ UNCHANGED <<ctrl, md5, buf, workVars, fileVars, taskVars>>

\* firmware_check_delthreah terminates the instances it has the numbers of.
TerminateTasks ==
    /\ tasks' = IF latest THEN tasks - 1 ELSE tasks
    /\ latest' = FALSE

\* A check thread has reported and is not at its end yet.
Lingering(jobs) == \E w \in Workers : worker[w].job \in jobs

\* mbrs_update, case 0, accepted.  It comes too early while the check before
\* it has still to create the tasks.
Begin(s, i) ==
    /\ s \in conns
    /\ ~flag
    /\ flag' = TRUE
    /\ md5' = i
    /\ ctrl' = [ctrl EXCEPT ![s] = Announced]
    /\ TerminateTasks
    /\ image' = [image EXCEPT ![s] = i]
    /\ sent' = [sent EXCEPT ![s] = 0]
    /\ orderly' = [orderly EXCEPT ![s] = TRUE]
    /\ broken' = broken \cup {x \in {"early"} : Lingering({"reported"})}
    /\ UNCHANGED <<conns, buf, workVars, fileVars, idled>>

\* mbrs_update, case 0, refused: another update, or a length out of bounds.
\* The tasks are terminated all the same.
Refuse(s) ==
    /\ s \in conns
    /\ TerminateTasks
    /\ idled' = TRUE
    /\ UNCHANGED <<ctrlVars, workVars, fileVars, image, orderly, sent, broken>>

\* osThreadCreate for slot s; w = None: the kernel has no room.
Create(w, s, j) ==
    /\ w # None => w \in Workers /\ \A v \in 1 .. w : worker[v].job = "free" <=> v = w
    /\ worker' = [v \in Workers |-> IF v = w THEN [job |-> j, slot |-> s] ELSE worker[v]]
    /\ UNCHANGED got

\* Mutated form: a block is accepted while the one before it is being written.
TakeBlockUnchecked(s, k, w) ==
    /\ Updating(s)
    /\ k \in 1 .. Length[md5]
    /\ buf' = Block(image[s], k)
    /\ Create(w, s, "write")
    /\ IF w = None
       THEN Finish(s) /\ Abandons(s)
       ELSE /\ ctrl' = [ctrl EXCEPT ![s].state = "UPDATE_PROGRAM_DOING", ![s].timer = "running"]
            /\ orderly' = [orderly EXCEPT ![s] = @ /\ k = sent[s] + 1]
            /\ sent' = [sent EXCEPT ![s] = IF orderly'[s] THEN k ELSE 0]
            /\ UNCHANGED <<flag, idled, broken, image>>
    /\ UNCHANGED <<conns, md5, checker, fileVars, taskVars>>

\* mbrs_update, case 1, and firmware_update_start: a block is taken when the
\* answer to the last one is out, any block of the image, as often as it comes;
\* each sets the time-out again.
TakeBlock(s, k, w) ==
    /\ Updating(s) /\ ctrl[s].state = "UPDATE_IDLE"
    /\ k \in 1 .. Length[md5]
    /\ buf' = Block(image[s], k)
    /\ Create(w, s, "write")
    /\ IF w = None
       THEN Finish(s) /\ Abandons(s)
       ELSE /\ ctrl' = [ctrl EXCEPT ![s].state = "UPDATE_PROGRAM_DOING", ![s].timer = "running"]
            /\ orderly' = [orderly EXCEPT ![s] = @ /\ k = sent[s] + 1]
            /\ sent' = [sent EXCEPT ![s] = IF orderly'[s] THEN k ELSE 0]
            /\ UNCHANGED <<flag, idled, broken, image>>
    /\ UNCHANGED <<conns, md5, checker, fileVars, taskVars>>

\* A block that lies outside the announced length ends the update.
BlockOutside(s) ==
    /\ Updating(s)
    /\ Finish(s)
    /\ Abandons(s)
    /\ UNCHANGED <<conns, md5, buf, workVars, fileVars, taskVars>>

\* mbrs_update, case 2, and firmware_check_start: nobody asks whether there
\* is an update, nor whether tid_firmware_check still names another thread.
TakeCheck(s, w) ==
    /\ s \in conns /\ ctrl[s].state = "UPDATE_IDLE"
    /\ Create(w, s, "read")
    /\ checker' = w
    /\ IF w = None
       THEN Finish(s) /\ Abandons(s)
       ELSE /\ ctrl' = [ctrl EXCEPT ![s].state = "UPDATE_CHECK_DOING", ![s].timer = "off"]
            /\ broken' = broken \cup {x \in {"stray"} : ~Updating(s)}
                                 \cup {x \in {"early"} : Lingering({"reported", "created"})}
            /\ UNCHANGED <<flag, idled, image, orderly, sent>>
    /\ UNCHANGED <<conns, md5, buf, fileVars, taskVars>>

-----------------------------------------------------------------------------
(* The threads that are created: firmware_update and firmware_check.       *)

Job(w, j) == worker' = [worker EXCEPT ![w].job = j]
Release(w) == worker' = [worker EXCEPT ![w] = Free]
SetState(s, state) == ctrl' = [ctrl EXCEPT ![s].state = state]

\* firmware_update_file: the length is set when the file is begun; the block
\* goes to where fcuraddr is, whatever its offset.
WriteBlock(w) ==
    /\ worker[w].job = "write"
    /\ md5 \in Loadable /\ buf[2] <= CheckMax
    /\ LET begun == IF f.fwritennum = 0 THEN [f EXCEPT !.flastsize = f.fsize, !.fsize = Length[md5]]
                    ELSE f
       IN /\ area' = Programmed(area, WriteAddress(begun), buf)
          /\ f' = Written(begun)
    /\ Job(w, "written")
    /\ UNCHANGED <<ctrlVars, got, checker, approved, taskVars, historyVars>>

\* The end of firmware_update: the thread reports to the slot it was created
\* for, and terminates itself.
ReportBlock(w) ==
    /\ worker[w].job = "written"
    /\ SetState(worker[w].slot, "UPDATE_PROGRAM_SUCCESS")
    /\ Release(w)
    /\ UNCHANGED <<conns, flag, md5, buf, got, checker, fileVars, taskVars, historyVars>>

\* An unknown type, or a block behind the longest program.
RejectBlock(w) ==
    /\ worker[w].job = "write"
    /\ md5 \notin Loadable \/ buf[2] > CheckMax
    /\ SetState(worker[w].slot, "UPDATE_PROGRAM_FAILED")
    /\ Release(w)
    /\ UNCHANGED <<conns, flag, md5, buf, got, checker, fileVars, taskVars, historyVars>>

\* firmware_check looks at the file only if it knows the type of the image,
\* and the image is not too long.
Checkable(i) == i \in Loadable /\ Length[i] <= CheckMax

\* fs_get_md5, which does not take nand_sem: one page.
ReadPage(w) ==
    /\ worker[w].job = "read"
    /\ Checkable(md5)
    /\ got[w] = << >> \/ f.freadnum # 0
    /\ LET from == IF got[w] = << >> THEN [f EXCEPT !.freadnum = 0] ELSE f
       IN /\ got' = [got EXCEPT ![w] = Append(@, area[ReadAddress(from)])]
          /\ f' = PageRead(from)
    /\ broken' = broken \cup {x \in {"moved"} : f.fwritennum # 0}
    /\ UNCHANGED <<ctrlVars, worker, checker, area, approved, taskVars,
                   image, orderly, sent, idled>>

\* Mutated form: a file of the announced length will do.
RightLength(w) == Checkable(md5) /\ Len(got[w]) = Length[md5]

\* The comparison with the announced checksum.
Right(w) == Checkable(md5) /\ got[w] = Whole(md5)

\* When every page has been read, the pages are compared; the image is marked and
\* the mark stored, which saveenv finds done or not.
Verdict(w) ==
    /\ worker[w].job = "read"
    /\ Checkable(md5) => got[w] # << >> /\ f.freadnum = 0
    /\ \E verdict \in IF Right(w) THEN {"passed", "unsaved"} ELSE {"failed"} :
          Job(w, verdict)
    /\ approved' = IF Right(w) THEN md5 ELSE approved
    /\ got' = [got EXCEPT ![w] = << >>]
    /\ UNCHANGED <<ctrlVars, checker, f, area, taskVars, historyVars>>

\* The end of firmware_check: the verdict is reported, and mbresp_spec_task may
\* answer at once,
ReportCheck(w) ==
    /\ worker[w].job \in {"passed", "unsaved", "failed"}
    /\ SetState(worker[w].slot, IF worker[w].job = "passed" THEN "UPDATE_CHECK_SUCCESS"
                                                         ELSE "UPDATE_CHECK_FAILED")
    /\ Job(w, "reported")
    /\ UNCHANGED <<conns, flag, md5, buf, got, checker, fileVars, taskVars, historyVars>>

\* Mutated form: the numbers of the new instances are not kept.
CreateTasksUnnamed == tasks' = tasks + 1 /\ latest' = FALSE

\* firmware_check_createthreah.
CreateTasks == tasks' = tasks + 1 /\ latest' = TRUE

\* the tasks are created again,
RecreateTasks(w) ==
    /\ worker[w].job = "reported"
    /\ CreateTasks
    /\ Job(w, "created")
    /\ idled' = FALSE
    /\ UNCHANGED <<ctrlVars, got, checker, fileVars, image, orderly, sent, broken>>

\* and the thread that tid_firmware_check names is terminated.  A name that is
\* no thread's any more terminates nothing.
EndCheck(w) ==
    /\ worker[w].job = "created"
    /\ worker' = [v \in Workers |-> IF v = checker THEN Free
                                   ELSE IF v = w THEN [worker[v] EXCEPT !.job = "stranded"]
                                   ELSE worker[v]]
    /\ got' = [v \in Workers |-> IF v = checker THEN << >> ELSE got[v]]
    /\ UNCHANGED <<ctrlVars, checker, fileVars, taskVars, historyVars>>

-----------------------------------------------------------------------------
(* mbresp_spec_task: firmware_update_handle for one slot.                  *)

\* The time-out is looked at first, before the state.
TimeOut(s) ==
    /\ s \in conns /\ ctrl[s].timer = "out"
    /\ Finish(s)
    /\ Abandons(s)
    /\ UNCHANGED <<conns, md5, buf, workVars, fileVars, taskVars>>

AnswerBlock(s) ==
    /\ s \in conns /\ ctrl[s].timer # "out"
    /\ ctrl[s].state \in {"UPDATE_PROGRAM_SUCCESS", "UPDATE_PROGRAM_FAILED"}
    /\ SetState(s, "UPDATE_IDLE")
    /\ UNCHANGED <<conns, flag, md5, buf, workVars, fileVars, taskVars, historyVars>>

AnswerCheck(s) ==
    /\ s \in conns /\ ctrl[s].timer # "out"
    /\ ctrl[s].state \in Checked
    /\ Finish(s)
    /\ UNCHANGED <<conns, md5, buf, workVars, fileVars, taskVars, idled>>

\* FIRMWARE_TIMEOUT_MS have passed.
Expire(s) ==
    /\ s \in conns /\ ctrl[s].timer = "running"
    /\ ctrl' = [ctrl EXCEPT ![s].timer = "out"]
    /\ UNCHANGED <<conns, flag, md5, buf, workVars, fileVars, taskVars, historyVars>>

-----------------------------------------------------------------------------
BlockCame(s) == \E k \in 1 .. AreaSize, w \in Workers \cup {None} : TakeBlock(s, k, w)

Request(s) ==
    \/ Connect(s) \/ Close(s)
    \/ \E i \in Images : Begin(s, i)
    \/ Refuse(s) \/ BlockCame(s) \/ BlockOutside(s)
    \/ \E w \in Workers \cup {None} : TakeCheck(s, w)

Work(w) == WriteBlock(w) \/ ReportBlock(w) \/ RejectBlock(w) \/ ReadPage(w)
           \/ Verdict(w) \/ ReportCheck(w) \/ RecreateTasks(w) \/ EndCheck(w)

Watch(s) == TimeOut(s) \/ AnswerBlock(s) \/ AnswerCheck(s)

Next ==
    \/ \E s \in Conns : Request(s) \/ Watch(s) \/ Expire(s)
    \/ \E w \in Workers : Work(w)

\* A time-out that is running runs out, or a block sets it again.
TimePasses(s) == ctrl[s].timer = "running" /\ (Expire(s) \/ BlockCame(s))

\* Threads are scheduled round robin, mbresp_spec_task looks at every slot
\* every 20 ms, and time passes.  Clients do what they like.
Fairness ==
    /\ \A w \in Workers : WF_vars(Work(w))
    /\ \A s \in Conns : WF_vars(Watch(s)) /\ WF_vars(TimePasses(s))

Spec == Init /\ [][Next]_vars /\ Fairness

-----------------------------------------------------------------------------
(* Properties.                                                             *)

\* Nothing has broken the rule of one update at a time; updates may have been
\* abandoned with the file half written ("cut"), and the file been read in
\* that state ("moved").
Ordered == broken \subseteq {"cut", "moved"}

\* There is one update at a time and at most one thread at work, which the
\* state of the update's slot knows of.  Four things end this: a connection
\* that closes while another one is updating, an update that ends while its
\* thread is at work, a check that no update asked for, and an update or a check
\* that comes before the thread of the last check is at its end.
OneUpdate ==
    Ordered =>
        /\ \A s, t \in Conns : Updating(s) /\ Updating(t) => s = t
        /\ flag <=> \E s \in Conns : Updating(s)
        /\ \A v, w \in Workers : ~Idle(v) /\ ~Idle(w) => v = w
        /\ \A w \in Workers : ~Idle(w) =>
               /\ Updating(worker[w].slot)
               /\ ctrl[worker[w].slot].state =
                      IF worker[w].job \in {"write", "written"}
                      THEN "UPDATE_PROGRAM_DOING" ELSE "UPDATE_CHECK_DOING"

\* The verdict is exact.  An image is marked for the boot loader only if it is,
\* page for page, the file that the table points to, and passes unless the mark
\* is not stored; and one that is not marked fails only for a reason: its blocks
\* did not all come, once and in their order, its type is unknown, it is too
\* long, or an earlier update was abandoned with the file half written.
VerdictExact ==
    \A w \in Workers : LET s == worker[w].slot IN
        /\ worker[w].job \in {"passed", "unsaved"} /\ Ordered =>
               CurrentFile(f, area) = Whole(image[s]) /\ approved = image[s]
        /\ worker[w].job = "failed" /\ broken = {} =>
               \/ ~Checkable(image[s])
               \/ ~orderly[s] \/ sent[s] # Length[image[s]]

\* How long the file is that the table points to: while another one is being
\* written, fsize is the length of that one.
CurrentSize == IF f.fwritennum = 0 THEN f.fsize ELSE f.flastsize

\* The file that the table points to is never written to, if it is not longer
\* than the region it is given: none of its pages is erased or spoilt by an
\* update under way, nor by one after an abandoned one.  It takes a check of
\* the half-written file to lose it: reading moves the address at which the
\* next block is written.
FileIntact ==
    broken \subseteq {"cut"} /\ CurrentSize <= RegionSize =>
        \A i \in 1 .. CurrentSize : area[Wrap(f.fstartaddr + i - 1)] \in FileData

\* The six tasks run once.  They are missing only during an update and until
\* its check has created them, after one that was abandoned, and after a request
\* that was refused.
TasksRunOnce ==
    Ordered =>
        /\ tasks <= 1
        /\ tasks = 0 => \/ idled \/ \E s \in Conns : Updating(s)
                        \/ Lingering({"reported"})

\* Every update ends, whatever its client does or leaves undone, but for one
\* that sends blocks for ever, of which each sets the time-out again; unless two
\* checks overlapped and one thread has terminated the other.
UpdateEnds == (flag ~> (~flag \/ ~Ordered)) \/ []<><<\E s \in Conns : BlockCame(s)>>_vars
=============================================================================
