SPECIFICATION Spec
CONSTANTS
  Sources <- MCSources
  MaxDepth = 2
  IdentifierTypes = {"package", "builtin"}
  MaxOpen <- MCOpen
  MaxTodo <- MCTodo
INVARIANTS TypeOK BalancedUnlessError FlagMatchesHeader
PROPERTIES GuardIsUsed Progress
