\* Two requests that need the first child; nothing crashes and time stands still.
CONSTANTS
  w = w
  r = r
  Requests = {w, r}
  Effects = {w}
  TTL = 2
  MaxTime = 0
  MaxCrashes = 0
SPECIFICATION Spec
CHECK_DEADLOCK FALSE
INVARIANTS
  StartFailsForCause
