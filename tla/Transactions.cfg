SPECIFICATION SendSpec
CHECK_DEADLOCK FALSE
CONSTANTS
  c1 = c1
  c2 = c2
  Signer = Signer
  Nobody = Nobody
  None = None
  Calls = {c1, c2}
  Fees = {1, 2, 3}
  Tries = {"verify", "estimate"}
  Selector = "pending"
  MaxRetries = 2
  From = Signer
  Contracts = {{Signer}, {}}
  Unset = Unset
  Timeout = 3
  Interval = 2
  RequestLimit = 4
  Latency = 1
INVARIANTS
  OncePerCall
  NoGap
  OkStays
  AnswerHolds
  EndsInTime
  TimeoutIsLate
PROPERTIES
  Concludes
  EveryCallAnswers
  OkIsMined
  CallReturns
