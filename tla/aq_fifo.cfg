\* Both threads push, pop and ask for the size; resizes grow the ring twice, and may fail.
CONSTANTS
  Pushers = {p1,p2}
  Poppers = {p1,p2}
  Sizers = {p1,p2}
  InitialCapa = 2
  MaxPushes = 6
  AllocMayFail = TRUE
SPECIFICATION FittingSpec
SYMMETRY Symmetry
INVARIANTS
  SlotOwnership
  WindowHoldsItems
  NothingLeaks
  SizeIsNoOverestimate
PROPERTIES
  FifoQueue
CHECK_DEADLOCK FALSE
