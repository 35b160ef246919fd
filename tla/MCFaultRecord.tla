--------------------------- MODULE MCFaultRecord ----------------------------
(* Two registers of one fault each: a fault can be locked, reset and locked *)
(* again before, behind and at the register that is read.                   *)
EXTENDS FaultRecord
=============================================================================
