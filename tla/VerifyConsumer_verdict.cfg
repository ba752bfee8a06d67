SPECIFICATION Spec
CONSTANTS
  Vocabulary = {"a", "b"}
  Directives <- MCDirectives
  Reports <- MCDiagnostics
  LastLine = 2
  UINT_MAX = 5
  MaxEvents = 4
INVARIANTS
  TypeOK SilentFileFails NothingSaidIsLost ClientsDeletedOnce
  VerdictSound VerdictExact VerdictExplained
