SPECIFICATION Spec
CONSTANTS
  x = x
  int = int
  d1 = d1
  d2 = d2
  d3 = d3
  d4 = d4
  Idents <- MCIdents
  Builtins <- MCBuiltins
  Ids <- MCFewIds
  NoDecl = NoDecl
  MaxScopes = 4
  MaxIdents = 1
SYMMETRY FewSymmetry
INVARIANT RedefinitionInTopmostScope
CHECK_DEADLOCK FALSE
