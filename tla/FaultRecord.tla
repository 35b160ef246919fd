---------------------------- MODULE FaultRecord -----------------------------
(***************************************************************************)
(* The record of faults that pcs_handle_task makes at the start of a pass. *)
(*                                                                         *)
(* The FPGA locks faults in registers and shows that it is in its fault    *)
(* state.  The pass that first sees the state reads the registers one by   *)
(* one: a bit that has risen since they were read last is logged, marked   *)
(* in fault_err, and savefinf is asked for the wave around it.  The pass   *)
(* that sees the state gone reads them once more: a bit that has fallen is *)
(* unmarked, and clearftwave makes room for the next wave.  Nothing is     *)
(* read in between, and the FPGA goes on while the task reads.             *)
(*                                                                         *)
(* Its end records the strategies that a client or the panel switches on   *)
(* and off in miro_write: the word is read for risen bits, for fallen ones *)
(* and to be kept, each time afresh.  The breakers and the command words   *)
(* are recorded between the two in the same way from one reading.          *)
(*                                                                         *)
(* A firmware update terminates the task between two registers or inside   *)
(* savefinf, a failed one creates it again; what it keeps in fr_info,      *)
(* faultinf and savefinf_sem stays.                                        *)
(***************************************************************************)
EXTENDS Integers

CONSTANTS
    Registers,   \* number of registers ERR_LCK_STATE, here of one bit each
    None

Faults == 1 .. Registers

ASSUME RecordAssumption == Registers \in Nat \ {0} /\ None \notin Faults

VARIABLES
    err_lck,         \* ERR_LCK_STATE0 ..: the faults that are locked
    fault,           \* the state that STATE8 shows is FSM_FAULT
    err_flag,        \* the state as this pass has read it
    err_flag_old, err_flag_old1,
    err_state_last,  \* the bits as they were read last
    fault_err,       \* the marks
    event,           \* faultinf.event: the mark the wave belongs to
    record_doing,    \* a wave is being taken and stored
    saver,           \* a savefsdata_task stores the wave; savefsdata_task_id names it
    stray,           \* an earlier one is still before its osThreadTerminate
    sem,             \* savefinf_sem is taken
    place,           \* where the record is
    reg,             \* the next register
    strategy_en, strategy_last,   \* miro_write.strategy_en, here one bit
    owed,      \* history: faults that this record must log
    stale,    \* history: faults whose mark a reading has missed to take back
    shown,    \* history: the strategy as the log tells it
    missed    \* history: it was switched while it was recorded

fpgaVars == <<err_lck, fault>>
flagVars == <<err_flag, err_flag_old, err_flag_old1>>
readVars == <<err_state_last, fault_err>>
saverVars == <<saver, stray>>
waveVars == <<event, record_doing, saverVars, sem>>
historyVars == <<owed, stale>>
strategyVars == <<strategy_en, strategy_last, shown, missed>>
recordVars ==
    <<fpgaVars, flagVars, readVars, waveVars, place, reg, historyVars, strategyVars>>

\* Between the first and the last reading of the strategies.
Recording == place \in {"fallen", "keep"}

\* Within savefinf: waiting for savefinf_sem, and holding it.
Waiting == place = "wait"
Holding == place \in {"save", "create"}

RecordTypeOK ==
    /\ err_lck \subseteq Faults /\ fault \in BOOLEAN
    /\ err_flag \in BOOLEAN /\ err_flag_old \in BOOLEAN /\ err_flag_old1 \in BOOLEAN
    /\ err_state_last \subseteq Faults /\ fault_err \subseteq Faults
    /\ event \in Faults \cup {None}
    /\ record_doing \in BOOLEAN /\ sem \in BOOLEAN
    /\ saver \in BOOLEAN /\ stray \in BOOLEAN
    /\ place \in {"state", "entry", "wait", "save", "create", "test", "exit",
                 "risen", "fallen", "keep", "rest", "dead"}
    /\ reg \in Faults
    /\ owed \subseteq Faults /\ stale \subseteq Faults
    /\ strategy_en \in BOOLEAN /\ strategy_last \in BOOLEAN
    /\ shown \in BOOLEAN /\ missed \in BOOLEAN

RecordInit ==
    /\ err_lck = {} /\ fault = FALSE
    /\ err_flag = FALSE /\ err_flag_old = FALSE /\ err_flag_old1 = FALSE
    /\ err_state_last = {} /\ fault_err = {}
    /\ event = None /\ record_doing = FALSE /\ sem = FALSE
    /\ saver = FALSE /\ stray = FALSE
    /\ place = "state" /\ reg = 1
    /\ owed = {} /\ stale = {}
    /\ strategy_en \in BOOLEAN /\ strategy_last = FALSE
    /\ shown = FALSE /\ missed = FALSE
-----------------------------------------------------------------------------
(* The FPGA.                                                               *)

\* The task is reading the registers because the fault state was entered.
Entering == place \in {"entry", "wait", "save", "create"}

\* A fault that is locked now is read by a pass that looks for risen bits:
\* the task has not noticed the fault state yet, or has not come to the
\* register, and no look for fallen bits comes before.
WillBeRead(b) ==
    IF Entering THEN reg < b \/ (reg = b /\ place = "entry")
    ELSE /\ place # "dead" /\ ~err_flag_old /\ ~err_flag_old1
         /\ ~(place = "exit" /\ reg <= b)

Lock(b) ==
    /\ b \notin err_lck
    /\ err_lck' = err_lck \cup {b}
    /\ owed' = IF WillBeRead(b) /\ b \notin err_state_last THEN owed \cup {b} ELSE owed
    /\ UNCHANGED <<fault, flagVars, readVars, waveVars, place, reg, stale, strategyVars>>

\* A stop order resets the lock of a fault that has gone.
Unlock(b) ==
    /\ b \in err_lck
    /\ err_lck' = err_lck \ {b}
    /\ owed' = owed \ {b}
    /\ UNCHANGED <<fault, flagVars, readVars, waveVars, place, reg, stale, strategyVars>>

\* Its state follows the locks.
ShowState ==
    /\ fault # (err_lck # {})
    /\ fault' = ~fault
    /\ UNCHANGED <<err_lck, flagVars, readVars, waveVars, place, reg, historyVars,
                   strategyVars>>
-----------------------------------------------------------------------------
(* do_fault_record.                                                        *)

\* The state is read; EDGEPOS of it.
ReadState ==
    /\ place = "state"
    /\ err_flag' = fault /\ err_flag_old' = fault
    /\ IF fault /\ ~err_flag_old
       THEN place' = "entry" /\ reg' = 1
       ELSE place' = "test" /\ UNCHANGED reg
    /\ UNCHANGED <<fpgaVars, err_flag_old1, readVars, waveVars, historyVars, strategyVars>>

\* Mutated form: the loop ends one register early.
NextRegisterShort(loop, end) ==
    IF reg + 1 >= Registers
    THEN place' = end /\ UNCHANGED reg
    ELSE place' = loop /\ reg' = reg + 1

\* Mutated form: the loop goes one register too far.
NextRegisterLong(loop, end) ==
    IF reg > Registers
    THEN place' = end /\ UNCHANGED reg
    ELSE place' = loop /\ reg' = reg + 1

\* On to the next register, or out of the loop to where it ends.
NextRegister(loop, end) ==
    IF reg = Registers
    THEN place' = end /\ UNCHANGED reg
    ELSE place' = loop /\ reg' = reg + 1

\* What the register held when it was read is kept after its bits are done.
Noted(b) == err_state_last' = IF b THEN err_state_last \cup {reg}
                              ELSE err_state_last \ {reg}

\* A register after the fault state was entered: a risen bit is logged, marked
\* and goes to savefinf.
ReadRisen ==
    /\ place = "entry"
    /\ IF reg \in err_lck /\ reg \notin err_state_last
       THEN /\ fault_err' = fault_err \cup {reg}
            /\ owed' = owed \ {reg}
            /\ place' = "wait" /\ UNCHANGED <<reg, err_state_last>>
       ELSE /\ Noted(reg \in err_lck) /\ NextRegister("entry", "test")
            /\ UNCHANGED <<fault_err, owed>>
    /\ UNCHANGED <<fpgaVars, flagVars, waveVars, stale, strategyVars>>

\* savefinf returns for a bit that has risen.
Saved == Noted(TRUE) /\ NextRegister("entry", "test")

\* savefinf takes its semaphore; a wave that belongs to a mark still set, and
\* a wave that is being stored, stay.
TakeSem ==
    /\ Waiting /\ ~sem
    /\ IF (event # None /\ event \in fault_err) \/ record_doing
       THEN Saved /\ UNCHANGED sem
       ELSE place' = "save" /\ sem' = TRUE /\ UNCHANGED <<reg, err_state_last>>
    /\ UNCHANGED <<fpgaVars, flagVars, fault_err, event, record_doing, saverVars,
                   historyVars, strategyVars>>

Describe ==
    /\ place = "save"
    /\ record_doing' = TRUE /\ event' = reg
    /\ place' = "create"
    /\ UNCHANGED <<fpgaVars, flagVars, readVars, saverVars, sem, reg, historyVars,
                   strategyVars>>

\* The thread is created, or not: nobody looks.  Nor does anybody look whether
\* the one before, which has cleared record_doing, has ended.  (Before the first
\* wave there is none; the model lets it be there, too.)
CreateSaver ==
    /\ place = "create"
    /\ saver' \in BOOLEAN
    /\ stray' \in {FALSE, saver'}
    /\ sem' = FALSE
    /\ Saved
    /\ UNCHANGED <<fpgaVars, flagVars, fault_err, event, record_doing, historyVars,
                   strategyVars>>

\* Mutated form: the old state is only noted with the edge.
TestExitForgets ==
    /\ place = "test"
    /\ IF err_flag_old1 /\ ~err_flag
       THEN place' = "exit" /\ reg' = 1 /\ err_flag_old1' = err_flag
       ELSE place' = "risen" /\ UNCHANGED <<reg, err_flag_old1>>
    /\ UNCHANGED <<fpgaVars, err_flag, err_flag_old, readVars, waveVars, historyVars,
                   strategyVars>>

\* EDGENPO of the state.
TestExit ==
    /\ place = "test"
    /\ err_flag_old1' = err_flag
    /\ IF err_flag_old1 /\ ~err_flag
       THEN place' = "exit" /\ reg' = 1
       ELSE place' = "risen" /\ UNCHANGED reg
    /\ UNCHANGED <<fpgaVars, err_flag, err_flag_old, readVars, waveVars, historyVars,
                   strategyVars>>

\* A register after the fault state was left: a fallen bit is unmarked and
\* clearftwave forgets the wave that belongs to it.
ReadFallen ==
    /\ place = "exit"
    /\ Noted(reg \in err_lck)
    /\ IF reg \notin err_lck /\ reg \in err_state_last
       THEN /\ fault_err' = fault_err \ {reg}
            /\ event' = IF event = reg THEN None ELSE event
            /\ stale' = stale \ {reg}
       ELSE /\ stale' = stale \cup (fault_err \cap {reg})
            /\ UNCHANGED <<fault_err, event>>
    /\ NextRegister("exit", "risen")
    /\ UNCHANGED <<fpgaVars, flagVars, record_doing, saverVars, sem, owed, strategyVars>>

\* The FPGA does not answer: STATE8 reads 0xffff and nothing is recorded.
Skip ==
    /\ place = "state"
    /\ place' = "rest"
    /\ UNCHANGED <<fpgaVars, flagVars, readVars, waveVars, reg, historyVars, strategyVars>>

\* do_strategy_record: the word is read for a risen bit.
RecordRisen ==
    /\ place = "risen"
    /\ shown' = (shown \/ (strategy_en /\ ~strategy_last))
    /\ place' = "fallen"
    /\ UNCHANGED <<fpgaVars, flagVars, readVars, waveVars, reg, historyVars,
                   strategy_en, strategy_last, missed>>

\* For a fallen one.
RecordFallen ==
    /\ place = "fallen"
    /\ shown' = (shown /\ (strategy_en \/ ~strategy_last))
    /\ place' = "keep"
    /\ UNCHANGED <<fpgaVars, flagVars, readVars, waveVars, reg, historyVars,
                   strategy_en, strategy_last, missed>>

\* Mutated form: the word is not kept.
RecordKeepNothing ==
    /\ place = "keep"
    /\ missed' = (missed /\ shown # strategy_en)
    /\ place' = "rest"
    /\ UNCHANGED <<fpgaVars, flagVars, readVars, waveVars, reg, historyVars,
                   strategy_en, strategy_last, shown>>

\* And to be kept.
RecordKeep ==
    /\ place = "keep"
    /\ strategy_last' = strategy_en
    /\ missed' = (missed /\ shown # strategy_en)
    /\ place' = "rest"
    /\ UNCHANGED <<fpgaVars, flagVars, readVars, waveVars, reg, historyVars,
                   strategy_en, shown>>

\* The rest of the pass, and its sleep.
Rest ==
    /\ place = "rest"
    /\ place' = "state"
    /\ UNCHANGED <<fpgaVars, flagVars, readVars, waveVars, reg, historyVars, strategyVars>>

Step ==
    \/ ReadState \/ ReadRisen \/ TakeSem \/ Describe \/ CreateSaver
    \/ TestExit \/ ReadFallen \/ RecordRisen \/ RecordFallen \/ RecordKeep \/ Rest
-----------------------------------------------------------------------------
(* Its surroundings.                                                       *)

\* A client or the panel writes miro_write.strategy_en.
SwitchStrategy ==
    /\ strategy_en' = ~strategy_en
    /\ missed' = (missed \/ Recording)
    /\ UNCHANGED <<fpgaVars, flagVars, readVars, waveVars, place, reg, historyVars,
                   strategy_last, shown>>

\* savefsdata_task has stored the wave and clears record_doing.
WaveStored ==
    /\ saver
    /\ saver' = FALSE /\ record_doing' = FALSE
    /\ stray' = FALSE
    /\ UNCHANGED <<fpgaVars, flagVars, readVars, event, sem, place, reg, historyVars,
                   strategyVars>>

\* Then it terminates the thread that savefsdata_task_id names.  That is itself, and
\* nothing changes; or, where savefinf has come in between, the one created last,
\* while it stores its wave: record_doing stays set.
SaverEnds ==
    /\ stray
    /\ saver' = FALSE /\ stray' = FALSE
    /\ UNCHANGED <<fpgaVars, flagVars, readVars, event, record_doing, sem, place, reg,
                   historyVars, strategyVars>>

\* The task is terminated.  Where the fault state has been noted for the log
\* and not for the unmarking, or has been left, the marks stay.
Terminate ==
    /\ place # "dead"
    /\ place' = "dead"
    /\ owed' = {}
    /\ stale' = IF Entering \/ place \in {"test", "exit"} THEN stale \cup fault_err ELSE stale
    /\ missed' = (missed \/ Recording)
    /\ UNCHANGED <<fpgaVars, flagVars, readVars, waveVars, reg,
                   strategy_en, strategy_last, shown>>

Create ==
    /\ place = "dead"
    /\ place' = "state"
    /\ UNCHANGED <<fpgaVars, flagVars, readVars, waveVars, reg, historyVars, strategyVars>>

RecordNext ==
    \/ Step \/ Skip
    \/ \E b \in Faults : Lock(b) \/ Unlock(b)
    \/ ShowState \/ SwitchStrategy \/ WaveStored \/ SaverEnds
    \/ Terminate \/ Create

\* The task is scheduled, the FPGA answers again and again, and its state
\* follows its locks.
RecordSpec ==
    /\ RecordInit /\ [][RecordNext]_recordVars
    /\ WF_recordVars(Step) /\ SF_recordVars(ReadState) /\ WF_recordVars(ShowState)
-----------------------------------------------------------------------------
(* Properties.                                                             *)

\* The task was terminated inside savefinf: the semaphore stays taken, and the
\* next fault holds pcs_handle_task for ever.
Leaked == sem /\ ~Holding

\* A fault that stays locked gets into the log, whatever else is locked, reset
\* or recorded meanwhile.  Not so a fault that comes while the registers are
\* read after an earlier one has gone, or when its register has been passed:
\* WillBeRead says when.
FaultLogged == \A b \in Faults : b \in owed ~> (b \notin owed \/ Leaked)

\* A strategy that is switched and stays so is logged, unless it was switched
\* back while it was recorded: then the log tells the other state until it is
\* switched again.
StrategyLogged ==
    ~<>[](shown # strategy_en /\ ~missed /\ ~Leaked /\ place # "dead")

\* Both records end up in the log.
RecordsLogged == FaultLogged /\ StrategyLogged

\* Out of the fault state no mark is left and no wave belongs to one, so the
\* next fault finds room for its wave.  A mark that is left is one whose fault
\* was locked again when it was to be taken back, or whose task was terminated
\* in the record.
FlagsEnd ==
    place = "rest" /\ ~err_flag => /\ fault_err \subseteq stale
                                   /\ event \in stale \cup {None}

\* Between two records the log tells the strategies as they were kept, but for
\* one that was switched while it was recorded.
StrategyShown == ~Recording => shown = strategy_last \/ missed

\* While a wave is described and handed to a new savefsdata_task, no other is
\* still storing one, although an earlier one may still be there to end: the buffer
\* of the wave has one writer.
OneSaver == place \in {"save", "create"} => sem /\ ~saver
=============================================================================
