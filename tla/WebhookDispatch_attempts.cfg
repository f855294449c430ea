SPECIFICATION Spec
CONSTANTS
  d1 = d1  d2 = d2
  Tasks = {t1}
  Dispatchers = {d1}
  Batch = 1
  MaxAttempts <- MCMaxAttemptsAlone
  MaxFailures = 3
  MaxRaises = 0
  MaxCrashes = 0
CHECK_DEADLOCK FALSE
INVARIANTS AttemptsBounded
