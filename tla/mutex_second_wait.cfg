\* A thread that waits twice in one call of lock().
CONSTANTS
  Threads = {t1,t2}
  CountMod = 4
  LoadMayPassStore = FALSE
SPECIFICATION HistorySpec
SYMMETRY Symmetry
INVARIANTS
  FreeLockIsRemembered
