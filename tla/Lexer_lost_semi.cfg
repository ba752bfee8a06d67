\* The Go semicolon rule, as the code cites it.
CONSTANTS
  Lexemes = {"identifier"}
  Inputs <- MCCommentInputs
SPECIFICATION Spec
INVARIANT SemiAtLineEnd
