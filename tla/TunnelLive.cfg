SPECIFICATION LiveSpec
CONSTANTS
  c1 = c1
  c2 = c2
  alice = alice
  bob = bob
  Conn = {c1, c2}
  Req = {r1}
  Ws = {}
  User = {alice, bob}
  UserOf <- SameUser
  None = None
  Modes = {"open"}
  MaxConcurrent = 1
  MaxWs = 1
  BodyCap = 0
  PolicyYields = TRUE
  Exclusive = FALSE
  ClosedFails = FALSE
  Hibernates = TRUE
PROPERTY WaitEnds
PROPERTY PendingDrains
PROPERTY LostConnectorReleased
CHECK_DEADLOCK FALSE
