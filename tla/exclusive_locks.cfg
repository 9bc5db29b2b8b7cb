\* Three threads lock and unlock a mutex or a spin_lock for ever and set the thresholds
\* of the spin_lock; loads may pass stores.
CONSTANTS
  Threads = {t1, t2, t3}
  CountMod = 4
  LoadMayPassStore = TRUE
  low = low
  high = high
SPECIFICATION MCSpec
SYMMETRY Symmetry
INVARIANTS
  TypeOK
  MutualExclusion
  WakeupsAreKept
  SpinTypeOK
  LockIsExact
  CountIsExact
  ForgottenIsStale
