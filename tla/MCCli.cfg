SPECIFICATION Spec
CONSTANTS
  x = x
  y = y
  none = none
  Unset = Unset
  InLibrary = InLibrary
  NoFile = none
  Vec <- MCVec
  Name <- MCName
  Image <- MCImage
  Disc <- MCDisc
  Start = 1
  GlobinG = 2
  Library = {2, 3}
  Other = {4}
  User = {5}
  GlobSize = 5
  MaxCalls = 1
INVARIANTS TypeOK OwnersApart GlobalsGivenBack
PROPERTIES LostOnly CodeStays
CHECK_DEADLOCK FALSE
