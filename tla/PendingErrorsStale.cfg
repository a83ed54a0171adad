SPECIFICATION Spec
CONSTANTS
  Threads = {t1}
  MaxCalls = 2
  MaxErrors = 1
INVARIANT ConversionErrorsAreItsOwn
CHECK_DEADLOCK FALSE
