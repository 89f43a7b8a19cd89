SPECIFICATION FairSpec
CONSTANTS
  n1 = n1
  n2 = n2
  Node <- MCNode
  TreeDepth = 2
  StakeAmount = 3
  InitialFunds <- MCFunds
  MaxOthers = 1
  MaxRestarts <- MCRestarts
  MaxKeys = 5
INVARIANTS
  TypeOK
  ArrayMatchesTree
  StakesOfNodesStand
  KeepsItsIdentity
PROPERTY NodeGetsToRun
\* the nodes run, and the bound on restarts is reached
CHECK_DEADLOCK FALSE
