----------------------------- MODULE MCEventLog -----------------------------
(* The event log on small instances. *)
EXTENDS EventLog
=============================================================================
