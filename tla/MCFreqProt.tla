----------------------------- MODULE MCFreqProt -----------------------------
(* FreqProt has no unbounded data; the configurations choose which          *)
(* thresholds are the nearer ones and where the frequency goes.            *)
EXTENDS FreqProt

\* A behaviour is followed until an operator's stop falls into a pass.
Undisturbed == ~crossed
=============================================================================
