SPECIFICATION FairSpec
CONSTANTS
  Calls = {c1, c2, c3}
  Limit = 4
  Window = 4
  MaxFaults = 2
INVARIANTS TimeIsSet
PROPERTIES LimitLifts
