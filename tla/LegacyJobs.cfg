SPECIFICATION FairSpec
CONSTANTS
  j1 = j1  w1 = w1  w2 = w2
  Jobs = {j1}
  Workers = {w1, w2}
  NoJob = NoJob
  MaxReceives = 3
  MaxEarly = 1
  MaxRaises = 2
  MaxCrashes = 1
CHECK_DEADLOCK FALSE
INVARIANTS DeletedIsSettled MergedIsReported
PROPERTIES ReportsForward EveryJobEnds
