SPECIFICATION Spec
CONSTANTS
  Executors = {e1, e2}
  Callers <- MCCallers
  Requests <- MCRequests
  Functions <- MCFunctions
  ancestors <- MCAncestors
  NumRequests = 2
  MaxBurst = 2
  Loops <- MCLoops
INVARIANTS
  OwnAnswer
  NoThreadLeft
PROPERTY
  ClientStops
CHECK_DEADLOCK FALSE
