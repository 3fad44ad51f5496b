\* Machines of sixteen frames, of which up to twelve are below the top of memory.
SPECIFICATION BootSpec
CONSTANTS
  PAGE_SIZE = 8
  SPACE = 128
  BYTE = 2
  LOW = 8
  KernelStart = 8
  KernelEnd = 19
  DESCRIPTOR = 2
  BLOCK = 2
  DIGITS = 3
  IDENTITY = 64
  MAX_FILES = 3
  Machines <- MCMachines
INVARIANTS TypeOK Exact HintSound KernelSafe PoolIsRam InitrdServed
PROPERTIES LowestFirst PoolSpec
CHECK_DEADLOCK FALSE
