\* Two accessors of one node, room for the queue to overflow, and a block more
\* than an accessor's values need at a time.
SPECIFICATION ValuesSpec
CONSTANTS
  n1 = n1
  Nodes = {n1}
  Accessors = {a1, a2}
  NodeOf <- SharedNodeOf
  Handlers = {h1}
  MonIds = {1}
  Values = {v1, v2}
  Exception = Exception
  NoData = NoData
  QueueLen = 2
  Blocks = {1, 2, 3, 4}
  Null = Null
INVARIANTS
  ItemsTypeOK
  ItemsInUse
  NoRepeatedException
  NewestKept
  MemorySafe
  NothingLeaked
  ValuesBacked
SYMMETRY Exchange
CHECK_DEADLOCK FALSE
