SPECIFICATION Spec
CONSTANTS
  m1 = m1  m2 = m2  m3 = m3  r1 = r1  a = a  b = b
  Merges = {m1, m2, m3}
  Readers = {r1}
  Tags = {a, b}
  AnalysisOf <- MCAnalysisOf
  None = None
  Bad = Bad
  HistoryMax = 1
  WeakLimit = 1
  MaxFaults = 1
CHECK_DEADLOCK FALSE
INVARIANTS SerialMergesExact SamplesAreReal HistoryIsNewest WeakTagsHaveStats TimesAreSet
