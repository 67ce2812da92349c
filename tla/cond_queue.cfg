CONSTANTS
  Producers = {p1, p2}
  Consumers = {c1, c2}
  Main = main
  NoThread = NoThread
  Messages = {m1, m2}
  NoMessage = NoMessage
  Capacity = 2
  QueueBound = 3
  MallocMayFail = TRUE
  SpuriousWakeups = TRUE
SPECIFICATION LiveSpec
INVARIANTS
  MutexDiscipline
  CountBalance
  ListAliveWhenUsed
  SomebodyAwake
PROPERTIES
  FifoChannel
  ConsumersServed
CHECK_DEADLOCK FALSE
