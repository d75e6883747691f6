SPECIFICATION Spec
CONSTANTS
  Byte = {1, 2}
  Junk = 9
  BufLen = 2
  RamLen = 1
  RamMax = 4
  BytesPerWord = 1
  RecLen = 3
  Capacity = 99
  MaxFile = 5
  MaxLen = 6
  Kinds = {"in", "out", "inout", "append", "ram"}
VIEW View
INVARIANTS TypeOK RecordPlace DepleteIsTransparent DepleteStores
PROPERTIES ImplementsByteFile CoherenceKept
