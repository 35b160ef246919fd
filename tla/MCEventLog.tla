----------------------------- MODULE MCEventLog -----------------------------
(* A model value for the event log's connection.                           *)
EXTENDS EventLog
CONSTANT c1
=============================================================================
