\* A tick inside yield.
SPECIFICATION WindowSpec
CONSTANTS
  MAX_PROCS = 3
  HeapStacks = 4
INVARIANT ContextOwn
