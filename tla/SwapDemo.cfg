SPECIFICATION Spec
CONSTANTS
  f1 = f1
  f2 = f2
  u1 = u1
  u2 = u2
  Feed <- MCFeed
  User <- MCUser
  ZeroId = ZeroId
  DefaultAccount = DefaultAccount
  Price = {1, 3}
  Amount = {1, 2}
  U64 = 5
  InitialA = 3
  SupplyB = 4
  MaxPublications = 3
  MaxSwaps = 2
SYMMETRY Symmetry
INVARIANTS
  TypeOK
  FeedsListed
  LatestPriceStands
  SwapsSettle
\* all that may be submitted has been executed or dropped
CHECK_DEADLOCK FALSE
