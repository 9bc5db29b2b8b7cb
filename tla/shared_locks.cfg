\* Two writers and two readers lock and unlock an rw_lock for ever, or one of the writers
\* and the readers a shared_mutex, scheduled fairly.
CONSTANTS
  Threads = {w1, w2, r1, r2}
  Writers = {w1, w2}
  Readers = {r1, r2}
  SharedWriters = {w1}
  CountMod = 5
SPECIFICATION MCSpec
INVARIANTS
  TypeOK
  WordIsExact
  RegistrationsAreExact
  NoForgottenSleeper
  SharedTypeOK
  Exclusion
  StateIsExact
  WaitersAreExact
  PendingIsJustified
  NoForgottenReader
PROPERTIES
  WriterGetsIn
  WriterGetsLock
  ReaderWakes
