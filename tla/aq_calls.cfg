\* Two pushers, one of which also pops, and a popper; the ring of two slots has to
\* grow.
CONSTANTS
  Pushers = {p1, p2}
  Poppers = {c1, p2}
  Sizers = {}
  InitialCapa = 2
  MaxPushes = 3
  AllocMayFail = FALSE
SPECIFICATION LiveSpec
INVARIANTS
  TypeOK
  ActiveIsExact
  QuiescentResize
  NoStaleMap
PROPERTIES
  CallsReturn
