\* A run and a peer in a session with two earlier exchanges: pruning by twos, two new
\* call ids, one call id used again, one publication that throws.
CONSTANTS
  r1 = r1
  r2 = r2
  read = read
  Runs = {r1}
  Peers = {r2}
  Tools = {read}
  MaxAttempts = 3
  MaxRetries = 1
  RepeatLimit = 3
  MinExchanges = 3
  Retain = 1
  Batch = 2
  Earlier = 2
  MaxCalls = 2
  MaxIds = 4
  MaxReuses = 1
  MaxFaults = 1
SPECIFICATION FairSpec
CHECK_DEADLOCK FALSE
INVARIANTS
  LoopInv
  BrokenForCause
PROPERTIES
  PrefixInBatches
  RetriesJustified
  RunSettles
