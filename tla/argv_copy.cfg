CONSTANTS
  MaxArgc = 2
  MaxEnv = 2
SPECIFICATION Spec
INVARIANTS
  TypeOK
  MainSeesHeapCopies
