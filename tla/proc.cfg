\* The process and open-file tables: four slots, kernel stacks for four forks, a
\* descriptor each besides the console's three, one open file to share.
SPECIFICATION FairSpec
CONSTANTS
  f1 = f1
  MAX_PROCS = 4
  MAX_FDS = 4
  MAX_OPEN_FILES = 1
  HeapStacks = 4
  Nodes = {f1}
  Length <- MCLength
  Codes = {1}
  MaxRead = 1
INVARIANTS TypeOK RefcountExact FilesClean FamilyTree ZombiesDue EchildSound
PROPERTIES SlotLifecycle WaitReturns
CHECK_DEADLOCK FALSE
