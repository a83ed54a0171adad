SPECIFICATION Spec
CONSTANTS
  Threads = {t1, t2}
  Exprs = {e1}
  NoThread = NoThread
  FreeThreaded = TRUE
  PackedElements = TRUE
  MaxNest = 2
  MaxLookups = 1
SYMMETRY Symmetry
INVARIANTS
  NoDeadlock
