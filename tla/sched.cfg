\* Three slots and four kernel stacks: slots are reused.
SPECIFICATION QuietSpec
CONSTANTS
  MAX_PROCS = 3
  HeapStacks = 4
INVARIANTS TypeOK RingOK ContextOwn FramesIntact AddressSpaces
PROPERTIES Scheduled
CHECK_DEADLOCK TRUE
