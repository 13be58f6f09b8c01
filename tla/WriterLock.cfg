\* Four incarnations, which may start together, and three pids.
CONSTANTS
  Processes = {p1, p2, p3, p4}
  Pids = {n1, n2, n3}
  NoFile = NoFile
  NoPid = NoPid
SPECIFICATION LockSpec
SYMMETRY Symmetry
CHECK_DEADLOCK FALSE
INVARIANTS
  OneWriterUnlessRaced
PROPERTIES
  RefusedForCause
