\* A resize that is delayed while two others run.
CONSTANTS
  Pushers = {p1,p2}
  Poppers = {}
  Sizers = {}
  InitialCapa = 2
  MaxPushes = 6
  AllocMayFail = FALSE
SPECIFICATION Spec
PROPERTIES
  MigrationKeepsItems
