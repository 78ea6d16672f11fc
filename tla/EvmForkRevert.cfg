SPECIFICATION ForkSpec
CONSTANTS
  c = c
  k = k
  Nil = Nil
  Accounts = {c, k}
  MaxNonce = 2
  MaxWord = 1
  MaxBlocks = 2
  MaxChanges = 2
  Origins <- MCOrigins
  Genesis <- MCGenesis
  Simulations <- MCSimulations
INVARIANT
  RevertIsAnError
