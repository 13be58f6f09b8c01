------------------------------- MODULE MCOutbox -------------------------------
\* Outbox with interchangeable subscribers.
EXTENDS Outbox, TLC

Symmetry == Permutations(Listeners)
===============================================================================
