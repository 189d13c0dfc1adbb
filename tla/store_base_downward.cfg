SPECIFICATION Spec
CONSTANTS
  WordBits = 20
  PAGESIZE = 8
  DataPages = {1, 2, 3, 4}
  GlobalPages = {1}
  StackEnd = 40
  RLimit = 8
  StackLimitCap = 32
  DefaultStackLimit = 8
  Executable = TRUE
  MetaLo = 64
  MetaHi = 84
  MetaBytes = 2
  STACKALIGN = 2
  STACKALIGN_LARGE = 3
  GLOBALALIGN = 1
  Values = {1}
  Trap = Trap
  MaxObjGranules = 2
  MaxWrites = 2
INVARIANTS
  BaseGetAgrees
CHECK_DEADLOCK FALSE
