---------------------------- MODULE MCPageTable -----------------------------
(* Page tables of three levels with two entries: eight pages of two bytes. *)
EXTENDS PageTable, TLC

MCPrograms == {[size |-> 2, segments |-> <<[start |-> 9, size |-> 3], [start |-> 0, size |-> 1]>>]}
MCSymmetry == Permutations(Procs)
=============================================================================
