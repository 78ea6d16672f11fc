SPECIFICATION Spec
CONSTANTS
  Calls = {c1, c2, c3}
  SubIds = {1, 2, 3}
  MaxPerId = 2
  MaxIds = 2
  MaxNotes = 3
  Stoppers = {}
  None = None
PROPERTIES
  EvictsOldestKey
CHECK_DEADLOCK FALSE
