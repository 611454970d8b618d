CONSTANTS
  g = g
  a1 = a1
  a2 = a2
  x1 = x1
  Blocks <- MCBlocks
  Number <- MCNumber
  Genesis = g
  MaxNum = 2
  Kinds = {"full", "light"}
  Callers = {c1}
  NoBlock = NoBlock
  PendingBlk = PendingBlk
SPECIFICATION Spec
INVARIANTS TypeOK 
