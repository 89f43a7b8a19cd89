SPECIFICATION FairSpec
CONSTANTS
  c1 = c1  c2 = c2  f1 = f1  f2 = f2
  Channel <- MCOneChannel
  Feed <- MCFeed
  QueueCapacity = 1
  MaxSlot = 3
  MaxSends = 2
  MaxWorkers = 4
INVARIANT
  HandlesInStep
PROPERTIES
  ObservationsArrive
  RegisteredGetsFollowed
  FollowersSettle
  WorkersAreTasks
