\* Two requests, one with a side effect, around the life of the children; in the
\* end all requests are answered and the clock stands still.
CONSTANTS
  w = w
  r = r
  Requests = {w, r}
  Effects = {w}
  TTL = 2
  MaxTime = 3
  MaxCrashes = 1
SPECIFICATION FairSpec
CHECK_DEADLOCK FALSE
INVARIANTS
  WorkerInv
  AnswersAreTrue
PROPERTIES
  EveryoneIsAnswered
