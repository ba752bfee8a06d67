SPECIFICATION Spec
CONSTANTS
  x = x
  y = y
  A = A
  B = B
  C = C
  D = D
  FieldNames <- MCFieldNames
  TypeNames <- MCTypeNames
  Sources <- MCSources
INVARIANTS TypeOK TablesFollowLists SelectorRule FailureExplained IdenticalTypes
CHECK_DEADLOCK FALSE
