SPECIFICATION Spec
CONSTANTS
  Size = 18
  Frame = 14
  Entered = 5
  Globals = 2
  Initial <- MCInitial
  Programs <- MCPrograms
INVARIANTS TypeOK RegistersHold ItemsDenote
PROPERTY ImplementsOcode
VIEW View
CHECK_DEADLOCK FALSE
