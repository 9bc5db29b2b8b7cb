\* Three threads lock, unlock and set thresholds; one ends up asleep on a free lock.
CONSTANTS
  Threads = {t1, t2, t3}
  CountMod = 4
  low = low
  high = high
  Bits <- TwoBits
  Short <- LowOnly
SPECIFICATION Spec
SYMMETRY Symmetry
INVARIANT FreeLockIsRemembered
