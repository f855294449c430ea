SPECIFICATION Spec
CONSTANTS
  t1 = t1  t2 = t2  s1 = s1  s2 = s2  k1 = k1
  Tasks = {t1, t2}
  Workers = {w1, w2}
  Students = {s1, s2}
  Works = {k1}
  NoOne = NoOne
  NoBody = NoBody
  StudentOf <- MCStudentOf
  WorkOf <- MCWorkOf
  Kind = "pipeline"
  Mock = FALSE
  Batch = 1
  Expiring = TRUE
  MaxRaises = 1
  MaxCrashes = 1
CHECK_DEADLOCK FALSE
SYMMETRY Symmetry
INVARIANTS CrashStrandsOneBatch HandledOnce AckedIsSettled OutputsAgree
