SPECIFICATION Spec
CONSTANTS
  t1 = t1  t2 = t2  s1 = s1  s2 = s2  k1 = k1
  Tasks = {t1, t2}
  Workers = {w1, w2}
  Students = {s1, s2}
  Works = {k1}
  NoOne = NoOne
  NoBody = NoBody
  StudentOf <- MCStudentOf
  WorkOf <- MCWorkOf
  Kind = "analyze"
  Mock = FALSE
  Batch = 2
  Expiring = FALSE
  MaxRaises = 2
  MaxCrashes = 2
CHECK_DEADLOCK FALSE
SYMMETRY Symmetry
INVARIANTS TypeOK OwnerKept OutputsAgree AddressedToRequester
PROPERTIES StatusForward ImplementsLifecycle
