SPECIFICATION Spec
CONSTANTS
  I64Max = 2
  Step = 2
  Quotes <- SmallQuotes
  MaxLen = 4
INVARIANTS
  MajorityRules
  MedianByRank
PROPERTIES
  RaiseNeverLowers
CHECK_DEADLOCK FALSE
