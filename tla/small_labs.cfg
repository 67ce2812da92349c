CONSTANTS
  Lines = 3
  SpuriousWakeups = TRUE
  MaxRuns = 3
  countOfThreads = 3
  num_global_iteration = 4
  MaxIteration = 3
  SEM_VALUE_MAX = 2
  MaxParts = 3
  Producers = {p1}
  Consumers = {c1, c2}
  Messages = {m1, m2}
  NoMessage = NoMessage
  Nodes = {n1, n2, n3}
  Null = Null
  Wild = Wild
SPECIFICATION LiveSpec
INVARIANTS
  UsedInOrder
  RefusedAfterMishapOnly
  Abreast
  PiInStep
  PartsAccounted
  ListShape
  DropFreesAll
PROPERTIES
  TakesTurns
  FifoList
  ProgramsEnd
