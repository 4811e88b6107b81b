SPECIFICATION FairSpec
CONSTANTS
  home = home
  other = other
  a = a
  b = b
  Issuer = {home, other}
  Home = home
  Token = {a, b}
  IssuerOf <- OneEach
  None = None
  ArgSets <- CommandLines
  Port = {p1}
  Conn = {x1}
  Visit = {v1}
  Shell = {s1}
  File = {f1,f2}
  Mounted = {f2}
INVARIANTS TypeOK TokenStaysHome EndedIsSaved
PROPERTIES DialsAnswered SessionEnds
CHECK_DEADLOCK FALSE
