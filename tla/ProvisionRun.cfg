SPECIFICATION FairSpec
CONSTANTS
  v1 = v1
  v2 = v2
  b1 = b1
  b2 = b2
  Version = {v1, v2}
  First = v1
  Base = {b1, b2}
  Pin <- Pins
  Install <- Installs
  Upg = {u1, u2}
  Proc = {p1, p2, p3}
  Overlap = FALSE
  None = None
INVARIANTS TypeOK BootsReady BinaryWhole
PROPERTIES RetrySucceeds
CHECK_DEADLOCK FALSE
