SPECIFICATION Spec
CONSTANTS
  Threads = {t1, t2}
  Exprs = {e1}
  NoThread = NoThread
  FreeThreaded = FALSE
  PackedElements = TRUE
  MaxNest = 1
  MaxLookups = 1
SYMMETRY Symmetry
INVARIANT NoDeadlock
