------------------------------ MODULE MCSlots -------------------------------
EXTENDS ProcSlots, TLC

(* The properties say nothing about a table that is no longer intact, so its *)
(* successors are not explored.                                             *)
WhileIntact == Intact

Symmetry == Permutations(Procs)
=============================================================================
