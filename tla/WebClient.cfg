\* Two sessions, two runs, two things the user does while at most one answer is out, one
\* request that fails.
CONSTANTS
  None = None
  Sessions = {"s1", "s2"}
  Present = {{}, {"s1", "s2"}}
  Runs = {"r1", "r2"}
  MaxClicks = 2
  MaxWaiting = 2
  MaxFailures = 1
SPECIFICATION FairSpec
CHECK_DEADLOCK FALSE
INVARIANTS
  ScreenSettles
PROPERTIES
  ControlsReturn
