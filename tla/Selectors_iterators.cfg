SPECIFICATION Spec
CONSTANTS
  x = x
  y = y
  A = A
  B = B
  C = C
  D = D
  FieldNames <- MCFieldNames
  TypeNames <- MCTypeNames
  Sources <- MCSources
INVARIANT IteratorsReachFields
CHECK_DEADLOCK FALSE
