SPECIFICATION Spec
CONSTANTS
  Proc = {p1}
  Name = {n1, n2, n3}
  Ckpt = {k1, k2, k3, k4}
  None = None
  Crashes = TRUE
SYMMETRY StoreSymmetry
INVARIANT TypeOK
INVARIANT LiveIntact
PROPERTY PruneIsComplete
PROPERTY HistoriesOnlyGrow
