\* One run with two operations: crashes and storage faults at every point, and liveness.
CONSTANTS
  Runs = {r1}
  Ops = {o1, o2}
  NoRun = NoRun
  NoOp = NoOp
  MaxRecords = 2
  MaxCrashes = 1
  MaxFaults = 2
SPECIFICATION FairSpec
INVARIANTS
  IInv
  FailureIsRecorded
PROPERTIES
  HistoryIsFinal
  ImplementsLedger
  CancelEndsRun
  CloseTerminates
