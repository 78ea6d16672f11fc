SPECIFICATION DocSpec
CHECK_DEADLOCK FALSE
CONSTANTS
  DocSources <- PlainSources
  MaxDistance = 4
INVARIANT
  DocsAreOwn
