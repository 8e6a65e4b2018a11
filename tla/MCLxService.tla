------------------------------- MODULE MCLxService -------------------------------
(* LxService with names and values that TLC may permute. *)
EXTENDS LxService, TLC

Symmetry == Permutations(Names)
=================================================================================
