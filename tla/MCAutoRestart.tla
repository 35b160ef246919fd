--------------------------- MODULE MCAutoRestart ----------------------------
(* AutoRestart with short counters; its data are finite as they are.       *)
EXTENDS AutoRestart

Lowest == -2
=============================================================================
