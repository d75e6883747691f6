CONSTANTS
  Memupb = 40
  Requests = {0, 9}
  Vecstatsvupb = 1
  MaxOver = 2
SPECIFICATION FairSpec
INVARIANTS
  TypeOK
  BlocksTile
  VectorsDisjoint
  ScanMissesNothing
  StaleReported
PROPERTIES
  HeldUntouched
  GetvecReturns
  ImplementsStorage
