------------------------- MODULE MCProcessManager -------------------------
(* The process manager with a null process and a few others, for TLC. *)
EXTENDS ProcessManager
=============================================================================
