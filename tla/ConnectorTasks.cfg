SPECIFICATION Spec
CONSTANTS
  Call = {c1,c2}
  Sock = {w1}
  MaxId = 2
  None = None
  Terminal = TRUE
  IdsReused = FALSE
  QueueBound = 1
INVARIANTS TypeOK EveryCallAnswered HandlesFollowTasks UploadIntact
PROPERTIES AnswersInOrder
CHECK_DEADLOCK FALSE
