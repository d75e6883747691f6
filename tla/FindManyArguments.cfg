SPECIFICATION Spec
CONSTANTS
  Size = 18
  Frame = 14
  Entered = 5
  Globals = 2
  Initial <- MCInitial
  Programs <- ManyArguments
PROPERTY CallsPassArguments
VIEW View
CHECK_DEADLOCK FALSE
