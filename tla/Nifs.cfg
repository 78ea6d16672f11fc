SPECIFICATION NifSpec
CONSTANTS
  A = A
  B = B
  C = C
  u = u
  x = x
  alice = alice
  bob = bob
  carol = carol
  usd = usd
  None = None
  Stranger = Stranger
  Structs = {A, B, C}
  Atomic = {u}
  Unknown = {x}
  Schemas <- MCSchemas
  MaxPath = 3
  MaxNodes = 10
  SolidityCalls <- MCSolidityCalls
  DocSources <- MCDocSources
  AbiCalls <- MCAbiCalls
  AbiTypes <- MCAbiTypes
  Requests <- MCRequests
  ConsensusCalls <- MCConsensusCalls
  TempoCalls <- MCTempoCalls
  BatchCalls <- MCBatchCalls
  MaxTypeDepth = 3
  MaxDistance = 3
  Stack = 5
  AbiNodes = 8
  MaxPayload = 8
  SmallNodes = 5
  SmallPayload = 6
  MaxLogs = 3
  MaxU64 = 50
  RlpNodes = 14
  c = c
  k = k
  Nil = Nil
  Accounts = {c, k}
  MaxNonce = 2
  MaxWord = 1
  MaxBlocks = 2
  MaxChanges = 2
  Origins <- MCOrigins
  Genesis <- MCGenesis
  Simulations <- MCSimulations
INVARIANTS
  EncodesWhatIsReached
  RecursiveIsCyclic
  SourceAndJsonAgree
  DocsRight
  AbiRoundTrips
  BudgetsBound
  BatchAgrees
  EnvelopeRoundTrips
  SponsorKeepsSender
  BatchAsOneByOne
  NonceInSequence
  TagNamesTheCause
PROPERTY
  RunsOnACopy
