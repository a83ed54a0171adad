SPECIFICATION Spec
CONSTANTS
  Threads = {t1, t2}
  NoThread = NoThread
  FreeThreaded = FALSE
  PythonRuns = TRUE
  Accessor = TRUE
  MaxObjects = 4
  MaxValues = 1
SYMMETRY Symmetry
PROPERTIES
  CachedForLife
