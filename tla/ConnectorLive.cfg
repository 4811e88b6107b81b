SPECIFICATION FairSpec
CONSTANTS
  Call = {c1}
  Sock = {w1}
  MaxId = 2
  None = None
  Terminal = FALSE
  IdsReused = FALSE
  QueueBound = 1
PROPERTIES AbortHeeded ClosedSocketEnds DrainReturns
CHECK_DEADLOCK FALSE
