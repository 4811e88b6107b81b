SPECIFICATION Spec
CONSTANTS
  c1 = c1
  c2 = c2
  alice = alice
  bob = bob
  Conn = {c1, c2, c3}
  Req = {r1, r2}
  Ws = {}
  User = {alice, bob}
  UserOf <- TwoUsers
  None = None
  Modes = {"private"}
  MaxConcurrent = 1
  MaxWs = 1
  BodyCap = 0
  PolicyYields = FALSE
  Exclusive = TRUE
  ClosedFails = FALSE
  Hibernates = FALSE
SYMMETRY VisitSymmetry
INVARIANT ConcurrencyCapHolds
INVARIANT SlotReleasedOnce
INVARIANT ConnectorListed
PROPERTY NoTakeover
PROPERTY DroppedByItsOwnRelease
CHECK_DEADLOCK FALSE
