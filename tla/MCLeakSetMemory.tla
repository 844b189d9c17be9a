-------------------------- MODULE MCLeakSetMemory --------------------------
EXTENDS LeakSetMemory, TLC
Symmetry == Permutations(Ptr)
=============================================================================
