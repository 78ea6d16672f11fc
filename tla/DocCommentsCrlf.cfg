SPECIFICATION DocSpec
CHECK_DEADLOCK FALSE
CONSTANTS
  DocSources <- CrlfSources
  MaxDistance = 3
INVARIANT
  AdjacentAttached
