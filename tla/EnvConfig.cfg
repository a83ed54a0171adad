SPECIFICATION Spec
CONSTANTS
  KnownMessages = {"TestAllTypes", "google.protobuf.Any", "google.protobuf.Int64Value", "google.protobuf.Timestamp"}
  LostMessages = {"Lost"}
  OpaqueNames = {"optional_type"}
  MaxTypeDepth = 2
  Configs <- MCConfigs
  Libraries <- MCLibraries
  Calls <- MCCalls
INVARIANTS
  TypeOK
  DeclaredTypesSurvive
  LateBoundFunctionsMeet
  ReportedTypesFit
  ReportedIsConverted
  RegistrationsAgree
  AliasesMeanOneThing
  ImplementationsKept
PROPERTIES
  EarlierEntriesStay
