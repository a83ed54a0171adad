SPECIFICATION Spec
CONSTANTS
  Threads = {t1, t2}
  NoThread = NoThread
  Addresses = {a1, a2}
  MaxArenas = 3
  MaxRefs = 2
  MaxNest = 2
SYMMETRY Symmetry
INVARIANTS
  TypeOK
  FindsTheRightArena
  FindsOwnArenas
  ReleasedIsForeign
  InstancesAreLive
CHECK_DEADLOCK FALSE
