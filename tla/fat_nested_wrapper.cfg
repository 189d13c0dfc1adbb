CONSTANTS
  WordBits = 16
  PTR_BITS = 6
  PAGESIZE = 8
  PageTable <- MC_PageTable
  MetaAddrs = {40, 41, 42, 43, 44, 45, 46, 47}
  MetadataBytes = 2
  Objects <- MC_Objects
  Funcs = {m, w1, w2}
  Main = m
  Libc = Libc
  Programs <- AllPrograms
  Trap = Trap
SPECIFICATION Spec
INVARIANTS
  FatDecodesToObject
CHECK_DEADLOCK FALSE
