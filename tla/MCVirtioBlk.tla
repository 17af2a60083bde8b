---------------------------- MODULE MCVirtioBlk -----------------------------
(* The block driver with model values for the processes. *)
EXTENDS VirtioBlk
=============================================================================
