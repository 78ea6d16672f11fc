SPECIFICATION WatchSpec
CONSTANTS
  Calls = {c1, c2}
  SubIds = {1, 2}
  MaxPerId = 2
  MaxIds = 1
  MaxNotes = 3
  Stoppers = {close}
  None = None
  Listeners = {l1}
  Topics = {t1, t2, t3}
  Decoded = {t1, t2}
  MaxRetries = 1
  MaxLogs = 2
  MaxFaults = 2
  MaxStarts = 2
  NoFilter = NoFilter
INVARIANTS
  InFlightCounts
  AwaitedNeverDropped
  OneHome
  EvictsOnlyOlder
  InboxInChainOrder
  NoSilentLoss
PROPERTIES
  NoneTakenUpAfterUnsubscribe
  ImplementsDelivery
  SubscribeReturns
  ListenersCatchUp
CHECK_DEADLOCK FALSE
