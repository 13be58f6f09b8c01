\* Two concurrent runs with an operation each, or two in one of them, and a crash.
CONSTANTS
  Runs = {r1, r2}
  Ops = {o1, o2}
  NoRun = NoRun
  NoOp = NoOp
  MaxRecords = 2
  MaxCrashes = 1
  MaxFaults = 0
SPECIFICATION Spec
SYMMETRY Symmetry
INVARIANTS
  NoOrphanOperation
  CloseDrains
PROPERTIES
  NoContinuationAfterCancel
