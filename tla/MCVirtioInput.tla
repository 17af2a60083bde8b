--------------------------- MODULE MCVirtioInput ----------------------------
(* Four descriptors, two of them with the device. *)
EXTENDS VirtioInput
=============================================================================
