---------------------------- MODULE MCInspector ----------------------------
(* The inspector on a small instance. *)
EXTENDS Inspector
=============================================================================
