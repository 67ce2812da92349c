CONSTANTS
  Producers = {p1}
  Consumers = {c1}
  Main = main
  NoThread = NoThread
  Messages = {m1}
  NoMessage = NoMessage
  Capacity = 2
  QueueBound = 3
  MallocMayFail = FALSE
  SpuriousWakeups = FALSE
SPECIFICATION DropSpec
PROPERTY EveryThreadJoined
CHECK_DEADLOCK FALSE
