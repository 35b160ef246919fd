----------------------------- MODULE AtomicDir -----------------------------
(***************************************************************************)
(* What the file table of the NAND store promises its users: they change a *)
(* table in memory, and a copy of it survives in the flash.  The copy is   *)
(* replaced as a whole by the table in memory, at any moment; a power cut  *)
(* brings the table in memory back to the surviving copy.                  *)
(*                                                                         *)
(* NandDir, the table kept in two flash blocks (src/src/bsp/nand_file.c),  *)
(* is checked against this.                                                *)
(***************************************************************************)
CONSTANTS Dirs, Default     \* contents of the table, and the one of an empty flash

VARIABLES
    dir,     \* the table in memory
    dirty,   \* a change has been reported and nobody has attended to it
    saved    \* the copy a power cut leaves

vars == <<dir, dirty, saved>>

Init ==
    /\ dir = Default
    /\ dirty = FALSE
    /\ saved = Default

Change ==
    /\ dir' \in Dirs
    /\ dirty' = TRUE
    /\ UNCHANGED saved

Attend ==
    /\ dirty
    /\ dirty' = FALSE
    /\ UNCHANGED <<dir, saved>>

Save ==
    /\ saved' = dir
    /\ UNCHANGED <<dir, dirty>>

PowerCut ==
    /\ dir' = saved
    /\ dirty' = FALSE
    /\ UNCHANGED saved

Next == Change \/ Attend \/ Save \/ PowerCut

Spec == Init /\ [][Next]_vars
=============================================================================
