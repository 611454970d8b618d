CONSTANTS
  HashLength = 2
  MaxLen = 6
SPECIFICATION Spec
INVARIANT MainPrintsLiteral
