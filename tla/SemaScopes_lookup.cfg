SPECIFICATION Spec
CONSTANTS
  x = x
  int = int
  d1 = d1
  d2 = d2
  d3 = d3
  d4 = d4
  Idents <- MCIdents
  Builtins <- MCBuiltins
  Ids <- MCIds
  NoDecl = NoDecl
  MaxScopes = 4
  MaxIdents = 2
SYMMETRY Symmetry
INVARIANTS TypeOK ChainsMirrorScopes ContextFollowsScopes RedefinitionIsLocal
PROPERTY ImplementsScopeMap
CHECK_DEADLOCK FALSE
