SPECIFICATION Spec
CHECK_DEADLOCK FALSE
CONSTANTS
  c1 = c1
  Signer = Signer
  Nobody = Nobody
  None = None
  Calls = {c1}
  Fees = {1}
  Tries = {"verify", "estimate"}
  Selector = "latest"
  MaxRetries = 0
  From = None
  Contracts = {{Signer}, {Nobody}, {Signer, Nobody}}
INVARIANT RevertIsTheSigners
