SPECIFICATION ConfirmSpec
CHECK_DEADLOCK FALSE
CONSTANTS
  Unset = Unset
  Timeout = 3
  Interval = 2
  RequestLimit = 4
  Latency = 1
INVARIANT
  WaitIsMaximal
