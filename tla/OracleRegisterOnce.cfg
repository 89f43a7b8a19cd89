SPECIFICATION Spec
CONSTANTS
  n1 = n1
  n2 = n2
  Node <- MCNode
  TreeDepth = 2
  StakeAmount = 3
  InitialFunds <- MCFunds
  MaxOthers = 0
  MaxRestarts <- MCRestarts
  MaxKeys = 4
INVARIANT RegisteredOnce
CHECK_DEADLOCK FALSE
