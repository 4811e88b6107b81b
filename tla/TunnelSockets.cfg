SPECIFICATION Spec
CONSTANTS
  c1 = c1
  c2 = c2
  alice = alice
  bob = bob
  Conn = {c1, c2}
  Req = {}
  Ws = {w1, w2, w3}
  User = {alice, bob}
  UserOf <- SameUser
  None = None
  Modes = {"open", "gate", "private"}
  MaxConcurrent = 1
  MaxWs = 2
  BodyCap = 0
  PolicyYields = TRUE
  Exclusive = FALSE
  ClosedFails = FALSE
  Hibernates = TRUE
SYMMETRY AllSymmetry
INVARIANT WebSocketCapHolds
INVARIANT VisitorsFollowConnector
CHECK_DEADLOCK FALSE
