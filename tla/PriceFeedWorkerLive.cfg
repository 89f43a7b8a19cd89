SPECIFICATION FairSpec
CONSTANTS
  c1 = c1
  c2 = c2
  Channel <- MCChannel
  Price <- MCPrice
  Decimal = {6}
  ObservationDecimal = 6
  RoundLength = 2
  QuorumThreshold = 2
  QueueCapacity = 2
  I64Max = 5
  DebugBuild = FALSE
  MaxSlot = 5
  MaxSends = 3
INVARIANT ClosedRoundSettled
PROPERTIES
  CountedObservationsSettle
  ServesItsQueue
