SPECIFICATION FairSpec
CONSTANTS
  Provider = {"binance", "redstone"}
  MaxDelay = 2
  MaxVecSize = 1
  FirstRound = 1000
  MaxQuotes = 3
  MaxOwed = 1
  MaxBlocks = 1
  MaxLives = 2
INVARIANTS
  TypeOK
  BacklogIsNewest
  PricesAscend
PROPERTIES
  EveryPriceSuperseded
  ObservationsResume
  LeavingEnds
\* the last of MaxLives processes may have ended
CHECK_DEADLOCK FALSE
