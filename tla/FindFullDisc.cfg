SPECIFICATION Spec
CONSTANTS
  Byte = {1, 2}
  Junk = 9
  BufLen = 2
  RamLen = 1
  RamMax = 4
  BytesPerWord = 1
  RecLen = 3
  Capacity = 2
  MaxFile = 5
  MaxLen = 5
  Kinds = {"inout"}
VIEW View
INVARIANTS DepleteStores
