SPECIFICATION Spec
CONSTANTS
  Pieces <- AllPieces
  MaxPieces = 2
  BlockBytes = 4
INVARIANT OutputStaysInside
CHECK_DEADLOCK FALSE
