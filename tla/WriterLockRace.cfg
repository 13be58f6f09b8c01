\* Processes of which one starts while another does.
CONSTANTS
  Processes = {p1, p2, p3}
  Pids = {n1, n2, n3}
  NoFile = NoFile
  NoPid = NoPid
SPECIFICATION LockSpec
SYMMETRY Symmetry
CHECK_DEADLOCK FALSE
INVARIANTS
  MutualExclusion
