\* A process that has the pid of the dead owner of the lock.
CONSTANTS
  Processes = {p1, p2}
  Pids = {n1}
  NoFile = NoFile
  NoPid = NoPid
SPECIFICATION LockSpec
SYMMETRY Symmetry
CHECK_DEADLOCK FALSE
PROPERTIES
  RefusedOnlyByLiveWriter
