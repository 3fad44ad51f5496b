\* Two processes; memory for about one and a half besides the boot image.
SPECIFICATION Spec
CONSTANTS
  TotalFrames = 15
  ENTRIES = 3
  MAX_PROCS = 2
  MAX_COPY_PAGES = 4
  PAGE_SIZE = 2
  AddressTop = 24
  USER_BRK_LIMIT = 14
  StackPages = {7, 8}
  Images <- MCImages
  Lengths = {3, 23}
  Increments <- MCIncrements
  Values = {0, 1}
INVARIANTS TypeOK FramesExact HeapBacked PointersChecked
PROPERTIES MemorySpec
CHECK_DEADLOCK FALSE
