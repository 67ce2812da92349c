CONSTANTS
  Producers = {p1}
  Consumers = {c1, c2}
  Main = main
  NoThread = NoThread
  Messages = {m1}
  NoMessage = NoMessage
  Capacity = 2
  QueueBound = 3
  MallocMayFail = FALSE
  SpuriousWakeups = FALSE
SPECIFICATION Spec
INVARIANT GetFindsMessage
CHECK_DEADLOCK FALSE
