----------------------------- MODULE MCFaultRec -----------------------------
(* The values the configurations give to the constants of FaultRec.        *)
EXTENDS FaultRec

\* The recovery waits for less time than a start takes.
OneWait == {<<10, 30>>}

\* A behaviour is followed until an operator's stop falls into a pass.
Undisturbed == ~crossed
=============================================================================
