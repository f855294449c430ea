SPECIFICATION FairAccessSpec
CONSTANTS
  r1 = r1  r2 = r2  r3 = r3  k1 = k1  u1 = u1
  Requests = {r1, r2, r3}
  Keys = {k1, u1}
  Users = {u1}
  KeyOf <- MCKeyOf
  NoRow = NoRow
  Nobody = Nobody
  PlatformKey = PlatformKey
  MaxFaults = 2
CHECK_DEADLOCK FALSE
INVARIANTS OneStudent RaceNeverFails UserIsStudent AccessKept
PROPERTIES RowsFinal EveryRequestEnds
