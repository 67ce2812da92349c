CONSTANTS
  Producers = {p1, p2}
  Consumers = {c1, c2}
  Main = main
  Messages = {m1}
  NoMessage = NoMessage
  Nodes = {n1, n2, n3}
  NoNode = NoNode
  Capacity = 1
  MallocMayFail = FALSE
SPECIFICATION LiveSpec
PROPERTIES
  EveryThreadJoined
  MessagesMove
