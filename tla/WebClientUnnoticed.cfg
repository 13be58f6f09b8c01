\* The page is opened on two sessions, of which another client uses one; nothing fails.
CONSTANTS
  None = None
  Sessions = {"s1", "s2"}
  Present = {{"s1", "s2"}}
  Runs = {"r1", "r2"}
  MaxClicks = 1
  MaxWaiting = 2
  MaxFailures = 0
SPECIFICATION FairSpec
CHECK_DEADLOCK FALSE
PROPERTIES
  EndIsNoticed
