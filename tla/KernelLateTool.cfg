\* One run with one operation, and a cancel.
CONSTANTS
  Runs = {r1}
  Ops = {o1}
  NoRun = NoRun
  NoOp = NoOp
  MaxRecords = 2
  MaxCrashes = 0
  MaxFaults = 0
SPECIFICATION Spec
SYMMETRY Symmetry
PROPERTIES
  NoToolStartAfterCancel
