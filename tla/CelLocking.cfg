SPECIFICATION FairSpec
CONSTANTS
  Threads = {t1, t2}
  Exprs = {e1}
  NoThread = NoThread
  FreeThreaded = FALSE
  PackedElements = FALSE
  MaxNest = 2
  MaxLookups = 1
INVARIANTS
  TypeOK
  NoDeadlock
  OneWayLockHierarchy
  ProgramOutlivesEvaluation
  OnceHasOneBuilder
PROPERTIES
  ContractSpec
  LibraryAnswers
