\* The token after a line comment, as the comment in the code has it.
CONSTANTS
  Lexemes = {"identifier"}
  Inputs <- MCCommentInputs
SPECIFICATION Spec
INVARIANT StartOfLineMarked
