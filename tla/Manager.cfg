\* Two accessors of one node, every operation, one loss of the connection.
SPECIFICATION Spec
CONSTANTS
  n1 = n1
  n2 = n2
  n3 = n3
  a1 = a1
  a2 = a2
  a3 = a3
  app = app
  Apps = {app}
  Client = Client
  Free = Free
  Ops = {"open", "close", "activate", "construct", "destruct", "transfer", "read"}
  MaxLoss = 1
  Reconnects = FALSE
  Nodes = {n1}
  Accessors = {a1, a2}
  NodeOf <- SharedNodeOf
  Handlers = {app, Client}
  MonIds = {1}
  Values = {v1}
  Exception = Exception
  NoData = NoData
  QueueLen = 1
INVARIANTS
  LockHeldInSection
  ReadingNeedsFunctional
  CloseStopsThread
  JoinHasReason
  OnlyClientRelocks
  EntriesServed
PROPERTIES
  LastAccessorCleans
  HandleContract
SYMMETRY Exchange
CHECK_DEADLOCK FALSE
