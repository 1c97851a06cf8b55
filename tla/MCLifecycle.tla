---------------------------- MODULE MCLifecycle ----------------------------
EXTENDS Lifecycle, TLC

ProcSymmetry == Permutations(Procs)
=============================================================================
