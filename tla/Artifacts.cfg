\* An attempt and two tools, one failing call or commit, one end of the process.
CONSTANTS
  a1 = a1
  t1 = t1
  t2 = t2
  Attempts = {a1}
  Tools = {t1, t2}
  MaxEvents = 2
  MaxFaults = 1
  MaxCrashes = 1
SPECIFICATION Spec
SYMMETRY Symmetry
CHECK_DEADLOCK FALSE
INVARIANTS
  ArtifactsInv
  OutputKept
  LeftoversForCause
