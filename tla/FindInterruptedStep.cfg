SPECIFICATION Spec
CONSTANTS
  Addr <- MCAddr
  Program <- MCProgram
  Reloadable = {1}
  Slot = {0, 1}
  Limit <- MCLimit
INVARIANT BrksRemoved
CHECK_DEADLOCK FALSE
