CONSTANTS
  Producers = {p1, p2}
  Consumers = {c1, c2}
  Main = main
  Messages = {m1, m2}
  NoMessage = NoMessage
  Nodes = {n1, n2, n3, n4}
  NoNode = NoNode
  Capacity = 2
  MallocMayFail = TRUE
SPECIFICATION Spec
SYMMETRY Symmetry
INVARIANTS
  ListExclusive
  PermitsBalance
  GetFindsMessage
  ListAliveWhenUsed
  NodesAccounted
PROPERTIES
  FifoChannel
  FrozenAfterNoMemory
CHECK_DEADLOCK FALSE
