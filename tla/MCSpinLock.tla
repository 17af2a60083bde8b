----------------------------- MODULE MCSpinLock -----------------------------
(* Model values for SpinLock. *)
EXTENDS SpinLock, TLC

\* User processes are alike.
Symmetry == Permutations(Users)
=============================================================================
