\* One subscriber that leaves in its callback, and nothing that fails.
CONSTANTS
  Listeners = {l1, l2}
  MaxEvents = 2
  MaxBatch = 2
  MaxFaults = 0
  MaxCrashes = 0
  MaxNested = 0
SPECIFICATION Spec
SYMMETRY Symmetry
INVARIANTS
  PublishedWasReached
