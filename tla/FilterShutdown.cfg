SPECIFICATION FilterSpec
CONSTANTS
  Listeners = {l1}
  Topics = {t1, t2}
  Decoded = {t1}
  MaxRetries = 0
  MaxLogs = 3
  MaxFaults = 2
  MaxStarts = 2
  NoFilter = NoFilter
CHECK_DEADLOCK FALSE
PROPERTIES
  ShutdownLeavesNoFilter
