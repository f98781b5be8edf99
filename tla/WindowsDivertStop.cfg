SPECIFICATION FairSpec
CONSTANTS
  w1 = w1
  w2 = w2
  Workers = {w1}
  Packets = {"query"}
  Kind <- Kinds
  Tuple <- TuplesOf
  Rule <- Rules
  Size <- Sizes
  BlockTcp = {}
  QueueLimit = 1
  ByteLimit = 1
  MaxCaptured = 1
  Tuples = {"t1"}
  Connections = {c1}
  ExpectedLimit = 1
  Lifetime = 1
  HandlerThreads = 1
  HandlerQueue = 1
  MaxTime = 1
PROPERTIES StopReturns
CHECK_DEADLOCK FALSE
