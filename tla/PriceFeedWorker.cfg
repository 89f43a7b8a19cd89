SPECIFICATION Spec
CONSTANTS
  c1 = c1
  c2 = c2
  Channel <- MCChannel
  Price <- MCPrice
  Decimal = {6, 8}
  ObservationDecimal = 6
  RoundLength = 2
  QuorumThreshold = 1
  QueueCapacity = 2
  I64Max = 5
  DebugBuild = TRUE
  MaxSlot = 5
  MaxSends = 3
SYMMETRY Symmetry
INVARIANTS
  TypeOK
  CountedOnce
  AttestedInOrder
  LagsOnlyWhilePending
PROPERTIES
  ImplementsFeed
  ImplementsTask
  OnlySettledLeave
