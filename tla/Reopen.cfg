\* One accessor and a reachable server; the device is opened again.
SPECIFICATION Spec
CONSTANTS
  n1 = n1
  n2 = n2
  n3 = n3
  a1 = a1
  a2 = a2
  a3 = a3
  app = app
  Apps = {app}
  Client = Client
  Free = Free
  Ops = {"open", "activate", "construct", "read"}
  MaxLoss = 0
  Reconnects = FALSE
  Nodes = {n1}
  Accessors = {a1}
  NodeOf <- SharedNodeOf
  Handlers = {app, Client}
  MonIds = {1}
  Values = {v1}
  Exception = Exception
  NoData = NoData
  QueueLen = 1
INVARIANTS
  AsyncReadServed
CHECK_DEADLOCK FALSE
