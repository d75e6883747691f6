SPECIFICATION Spec
CONSTANTS
  BytesPerWord = 3
  Memupb = 200000
  G = 2000
  Regs = 100
  Fill <- MCFill
  SysResults = {0, 1}
  FloatResults = {42}
  Operations <- MCOperations
  Frame = 1000
  Words <- MCWords
  Starts = {1801, 1802}
  Counts <- MCCounts
INVARIANTS
  TypeOK 
PROPERTY OperationsEnd
CHECK_DEADLOCK FALSE
