CONSTANTS
  BUF_SIZE = 3
  Total = 4
  MaxLines = 1
  MaxKeys = 2
  ShortWrites = TRUE
  SpuriousWakeups = TRUE
  MaxLost = 1
  AioSize = 2
  AioTotal = 3
  Programs = {"lab26", "lab27", "lab28"}
SPECIFICATION LiveSpec
INVARIANTS
  BytesInOrder
  AllShown
  Disjoint
  TerminalFollowsScreen
PROPERTIES
  ShowsThePage
  Ends
