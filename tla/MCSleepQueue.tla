---------------------------- MODULE MCSleepQueue ----------------------------
(* Four processes asleep at a time, with delays short and long. *)
EXTENDS SleepQueue
=============================================================================
