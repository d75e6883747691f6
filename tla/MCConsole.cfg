SPECIFICATION Spec
CONSTANTS
  Place = {1, 2, 3, 4, 5, 6}
  Char <- MCChar
  Typed <- MCTyped
  Writable = {"x", "nl"}
  Direction = {"inout"}
  BufEnd = 2
  MaxHeld = 2
  MaxWritten = 3
INVARIANTS TypeOK BlocksKept ScreenShowsWritten
PROPERTIES ImplementsTypedText NumberRead
VIEW View
