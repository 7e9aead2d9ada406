CONSTANTS
  Items = {i1, i2}
  Workers = {t1, t2}
  Nobody = nobody
SYMMETRY WorkerSymmetry
SPECIFICATION Spec
INVARIANT OrderAndItemsAgree
PROPERTY KeepsAtomic
CHECK_DEADLOCK FALSE
