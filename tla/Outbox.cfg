\* Two subscribers that come, go, fail and subscribe each other; storage faults and a crash anywhere.
CONSTANTS
  Listeners = {l1, l2}
  MaxEvents = 3
  MaxBatch = 2
  MaxFaults = 2
  MaxCrashes = 1
  MaxNested = 2
SPECIFICATION Spec
SYMMETRY Symmetry
INVARIANTS
  OutboxInv
  StreamInOrder
PROPERTIES
  PublishedIsOver
  ImplementsDelivery
