SPECIFICATION Spec
CONSTANTS
  c1 = c1
  c2 = c2
  alice = alice
  bob = bob
  Conn = {c1, c2}
  Req = {r1, r2}
  Ws = {}
  User = {alice, bob}
  UserOf <- SameUser
  None = None
  Modes = {"open"}
  MaxConcurrent = 2
  MaxWs = 1
  BodyCap = 1
  PolicyYields = TRUE
  Exclusive = FALSE
  ClosedFails = TRUE
  Hibernates = TRUE
SYMMETRY AllSymmetry
INVARIANT TypeOK
INVARIANT TimersMatchPending
INVARIANT PendingKeysUnique
INVARIANT NoHungStream
INVARIANT NoStaleEntry
INVARIANT NoOrphanWait
PROPERTY FramesForwarded
CHECK_DEADLOCK FALSE
