\* The reap race: a slot reused between the two stores of process_wait.
SPECIFICATION Spec
CONSTANTS
  f1 = f1
  MAX_PROCS = 4
  MAX_FDS = 3
  MAX_OPEN_FILES = 1
  HeapStacks = 6
  Nodes = {f1}
  Length <- MCLength
  Codes = {1}
  MaxRead = 1
INVARIANT LiveHasStack
CHECK_DEADLOCK FALSE
