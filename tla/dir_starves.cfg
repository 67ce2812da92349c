CONSTANTS
  Root = root
  Subdirs = {d1}
  Files = {f1, f2}
  Others = {}
  Size = 3
  BufSize = 2
  OpenMax = 2
  ThreadMax = 4
  Faults = FALSE
SPECIFICATION LiveSpec
PROPERTY WaitingEnds
CHECK_DEADLOCK FALSE
