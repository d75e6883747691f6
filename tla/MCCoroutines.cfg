CONSTANTS
  Root = root
  Co = {root, c1, c2, c3}
  Null = null
  Bottom = bottom
SPECIFICATION Spec
SYMMETRY Symmetry
INVARIANTS
  TypeOK
  ActiveChain
  FrameDiscipline
  ListIsLive
PROPERTY ImplementsCallChain
CHECK_DEADLOCK FALSE
