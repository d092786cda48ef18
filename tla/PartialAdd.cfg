\* Two accessors, each of a node of its own, and a reachable server.
SPECIFICATION Spec
CONSTANTS
  n1 = n1
  n2 = n2
  n3 = n3
  a1 = a1
  a2 = a2
  a3 = a3
  app = app
  Apps = {app}
  Client = Client
  Free = Free
  Ops = {"open", "close", "activate", "construct", "read"}
  MaxLoss = 0
  Reconnects = FALSE
  Nodes = {n1, n2}
  Accessors = {a1, a2}
  NodeOf <- OwnNodeOf
  Handlers = {app, Client}
  MonIds = {1, 2}
  Values = {v1}
  Exception = Exception
  NoData = NoData
  QueueLen = 1
INVARIANTS
  ActiveItemServed
CHECK_DEADLOCK FALSE
