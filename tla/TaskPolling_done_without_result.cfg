SPECIFICATION PollSpec
CONSTANTS
  t1 = t1  t2 = t2  s1 = s1  s2 = s2  k1 = k1  p1 = p1
  Tasks = {t1, t2}
  Workers = {w1, w2}
  Students = {s1, s2}
  Works = {k1}
  NoOne = NoOne
  NoBody = NoBody
  StudentOf <- MCStudentOf
  WorkOf <- MCWorkOf
  Kind = "pipeline"
  Mock = TRUE
  Batch = 1
  Expiring = FALSE
  MaxRaises = 0
  MaxCrashes = 0
  Polled = {t1}
  Platforms = {p1, p2}
  PlatformOf <- MCPlatformOf
CHECK_DEADLOCK FALSE
INVARIANTS DoneComesWithResult
