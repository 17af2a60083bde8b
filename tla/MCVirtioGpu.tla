---------------------------- MODULE MCVirtioGpu -----------------------------
(* Model values for VirtioGpu. *)
EXTENDS VirtioGpu
=============================================================================
