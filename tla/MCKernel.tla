------------------------------ MODULE MCKernel ------------------------------
\* Kernel with two runs and interchangeable ids.
EXTENDS Kernel, TLC

Symmetry == Permutations(Runs) \cup Permutations(Ops)
=============================================================================
