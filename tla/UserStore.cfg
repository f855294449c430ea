SPECIFICATION Spec
CONSTANTS
  r1 = r1  r2 = r2  r3 = r3  a = a  b = b  old = old
  Served <- MCServed
  Requests = {r1, r2, r3}
  Tags = {a, b}
  NaN = NaN  Bad = Bad  None = None
  Completions <- MCCompletions
  Patches <- MCPatches
  Earlier <- MCEarlier
  HistoryMax = 2
  TagLimit = 1
  PageLimit = 1
  MaxFaults = 1
SYMMETRY Symmetry
CHECK_DEADLOCK FALSE
INVARIANTS UsedTagsKept ProgressMirrored PagesMissNothing StatsAccount
