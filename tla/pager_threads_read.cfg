CONSTANTS
  BUF_SIZE = 3
  Total = 4
  MaxLines = 1
  MaxKeys = 2
  ShortWrites = TRUE
  SpuriousWakeups = TRUE
  MaxLost = 1
  AioSize = 2
  AioTotal = 3
  Programs = {"lab28"}
SPECIFICATION Spec
INVARIANT ReadFailureIsReal
