SPECIFICATION Spec
CONSTANTS
  KnownMessages = {"TestAllTypes"}
  LostMessages = {"Lost"}
  OpaqueNames = {}
  MaxTypeDepth = 1
  Hosts <- MCHosts
  Dicts = {"D"}
  Variables <- MCVariables
  Returns <- MCReturns
  Others <- MCOthers
  Keys <- MCKeys
  FreeThreaded = TRUE
  DictSlots = 2
  MaxCallbacks = 2
  MaxVersions = 3
INVARIANTS
  TypeOK
  ItemsInPlace
  EntriesAreOfTheDict
  OnlyIndexErrorsStay
  ErrorsAreTheirOwn
  IdentityKeepsValues
CHECK_DEADLOCK FALSE
