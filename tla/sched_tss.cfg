\* Process 0 in user mode with the stack of another process in the TSS.
SPECIFICATION TssSpec
CONSTANTS
  MAX_PROCS = 3
  HeapStacks = 4
INVARIANT FramesIntact
