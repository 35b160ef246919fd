----------------------------- MODULE MCNandDir -----------------------------
(* Model values for the file table of the NAND store. *)
EXTENDS NandDir
CONSTANTS d0, d1
=============================================================================
