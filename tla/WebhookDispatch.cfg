SPECIFICATION FairSpec
CONSTANTS
  d1 = d1  d2 = d2
  Tasks = {t1, t2}
  Dispatchers = {d1, d2}
  Batch = 2
  MaxAttempts <- MCMaxAttempts
  MaxFailures = 2
  MaxRaises = 1
  MaxCrashes = 1
CHECK_DEADLOCK FALSE
INVARIANTS NothingVanishes DuplicatesExplained OneLiveCopy
PROPERTIES EveryEventEnds
