SPECIFICATION Spec
CONSTANTS
  Proc = {p1, p2}
  Name = {n1, n2}
  Ckpt = {k1, k2}
  None = None
  Crashes = FALSE
SYMMETRY StoreSymmetry
INVARIANT LiveIntact
