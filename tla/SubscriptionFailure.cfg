SPECIFICATION Spec
CONSTANTS
  Calls = {c1}
  SubIds = {1}
  MaxPerId = 1
  MaxIds = 1
  MaxNotes = 1
  Stoppers = {close}
  None = None
PROPERTIES
  FailureIsAnError
CHECK_DEADLOCK FALSE
