SPECIFICATION Spec
CONSTANTS
  Threads = {t1, t2, t3}
  NoThread = NoThread
  FreeThreaded = TRUE
  PythonRuns = TRUE
  Accessor = TRUE
  MaxObjects = 3
  MaxValues = 1
SYMMETRY Symmetry
INVARIANTS
  TypeOK
  ReferencesAccounted
PROPERTIES
  CachedForLife
  ElementStays
CHECK_DEADLOCK FALSE
