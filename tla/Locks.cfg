SPECIFICATION LockSpec
CONSTANTS
  Calls = {c1, c2}
  Minimums = {2}
  Balances = {0, 2}
  Budget = 2
  Drip = 1
  MaxSpends = 1
  None = None
  Processes = {p1, p2, p3}
  Keys = {k1, k2, k3}
  MaxEntries = 2
  MaxCalls = 1
  Absent = Absent
INVARIANTS
  TypeOK
  NoPileUp
  NeverOverfunded
  ReturnedIsCached
PROPERTIES
  EveryCallReturns
  EntriesStay
  EveryCallEnds
CHECK_DEADLOCK FALSE
