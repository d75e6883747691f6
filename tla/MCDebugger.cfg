SPECIFICATION Spec
CONSTANTS
  Addr <- MCAddr
  Program <- MCProgram
  Reloadable = {1}
  Slot = {0, 1}
  Limit <- MCLimit
INVARIANTS TypeOK ProgramIntact
PROPERTIES Transparent StepsEnd
