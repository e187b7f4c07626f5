------------------------------- MODULE MCLock -------------------------------
EXTENDS ShrregLock, TLC

Symmetry == Permutations(Procs)
=============================================================================
