SPECIFICATION Spec
CONSTANTS
  c1 = c1  c2 = c2  f1 = f1  f2 = f2
  Channel <- MCChannel
  Feed <- MCFeed
  QueueCapacity = 1
  MaxSlot = 2
  MaxSends = 3
  MaxWorkers = 3
SYMMETRY Symmetry
INVARIANTS
  TypeOK
  HandlesInStep
  NothingLostWhileWorkersLive
  DeliveredAtMostOnce
PROPERTIES
  ImplementsRelay
