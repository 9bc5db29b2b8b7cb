SPECIFICATION Spec
CONSTANTS
  Pieces <- AllPieces
  MaxPieces = 2
  BlockBytes = 4
INVARIANTS TypeOK CountPredicts RoundTrip OutputIsWellFormed WritesStayInside
CHECK_DEADLOCK FALSE
