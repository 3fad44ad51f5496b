\* Pages of 16 words, two of them and some of the program's own, and then a page
\* beyond the break that sbrk can still answer with.
SPECIFICATION Spec
CONSTANTS
  HDR = 3
  ALIGN = 2
  PAGE = 16
  SizeMax = 127
  BreakLimit = 40
  SignLimit = 22
  Requests = {1, 4, 12}
  Arrays <- MCArrays
  Steps = {4}
INVARIANTS Tiling Honoured
PROPERTIES HeapSpec
CHECK_DEADLOCK FALSE
