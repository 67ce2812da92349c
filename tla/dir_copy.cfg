CONSTANTS
  Root = root
  Subdirs = {d1}
  Files = {f1, f2}
  Others = {fifo}
  Size = 3
  BufSize = 2
  OpenMax = 5
  ThreadMax = 4
  Faults = TRUE
SPECIFICATION LiveSpec
INVARIANTS
  DescriptorsAccounted
  ParentsFirst
  CopiedMeansWhole
PROPERTY CopyEnds
CHECK_DEADLOCK FALSE
