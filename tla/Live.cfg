\* Two accessors of one node, of which the application does not read, and one
\* loss of the connection beside those of failed transfers, under fairness.
SPECIFICATION FairSpec
CONSTANTS
  n1 = n1
  n2 = n2
  n3 = n3
  a1 = a1
  a2 = a2
  a3 = a3
  app = app
  Apps = {app}
  Client = Client
  Free = Free
  Ops = {"open", "activate", "construct", "destruct", "transfer"}
  MaxLoss = 1
  Reconnects = FALSE
  Nodes = {n1}
  Accessors = {a1, a2}
  NodeOf <- SharedNodeOf
  Handlers = {app, Client}
  MonIds = {1}
  Values = {v1}
  Exception = Exception
  NoData = NoData
  QueueLen = 1
PROPERTIES
  OperationReturns
  LossEndsThread
CHECK_DEADLOCK FALSE
