SPECIFICATION Spec
CONSTANTS
  x = x
  int = int
  e1 = e1
  e2 = e2
  e3 = e3
  e4 = e4
  e5 = e5
  Idents <- MCIdents
  Builtins <- MCBuiltins
  Ids <- MCIds
  NoDecl = NoDecl
  ScopeCacheSize = 2
  MaxScopes = 4
  MaxAgain = 1
SYMMETRY Symmetry
INVARIANTS RecycledScopesAreFresh EntriesAccounted
PROPERTY ImplementsScopeMap
CHECK_DEADLOCK FALSE
