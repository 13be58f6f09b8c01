----------------------------- MODULE MCWriterLock -----------------------------
\* WriterLock with interchangeable processes and pids.
EXTENDS WriterLock, TLC

Symmetry == Permutations(Processes) \cup Permutations(Pids)
=============================================================================
