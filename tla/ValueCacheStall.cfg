SPECIFICATION Spec
CONSTANTS
  Threads = {t1, t2}
  NoThread = NoThread
  FreeThreaded = TRUE
  PythonRuns = TRUE
  Accessor = TRUE
  MaxObjects = 3
  MaxValues = 1
SYMMETRY Symmetry
INVARIANTS
  NoStall
CHECK_DEADLOCK FALSE
