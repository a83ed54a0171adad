SPECIFICATION Spec
CONSTANTS
  Threads = {t1, t2}
  MaxCalls = 3
  MaxErrors = 2
SYMMETRY Symmetry
INVARIANTS
  TypeOK
  CheckedCompilesAreClean
  ReportedOnceInItsThread
  PendingIsNewest
CHECK_DEADLOCK FALSE
