SPECIFICATION Spec
CONSTANTS
  Threads = {t1, t2, t3}
  Types = {y1, y2}
  MaxClasses = 3
  MaxFactories = 1
SYMMETRY Symmetry
INVARIANTS
  TypeOK
  OneClassPerType
  ReferencesAccounted
PROPERTIES
  IsOnceCache
