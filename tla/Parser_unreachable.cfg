SPECIFICATION Spec
CONSTANTS
  Sources <- MCSignatureSources
  MaxDepth = 256
  IdentifierTypes = {"package", "builtin"}
  MaxOpen <- MCSignatureOpen
  MaxTodo <- MCSignatures
INVARIANT TypesAreTypes
