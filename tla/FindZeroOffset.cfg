SPECIFICATION Spec
CONSTANTS
  Size = 18
  Frame = 14
  Entered = 5
  Globals = 2
  Initial <- MCInitial
  Programs <- ZeroOffset
PROPERTY AssignmentsEnd
VIEW View
CHECK_DEADLOCK FALSE
