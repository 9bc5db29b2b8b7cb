-------------------------- MODULE MCExclusiveLocks --------------------------
(* Three threads use a mutex or a spin_lock, which know nothing of each other: a *)
(* behaviour is one of the lock that which names, and the other stays as it was  *)
(* made.                                                                         *)
EXTENDS MCMutex

CONSTANTS low, high   \* the bits of a threshold; the low one alone is reached

VARIABLES which,
          word, global_short, spin_pc, old_val, has_incremented_wait  \* of the spin_lock

Spin == INSTANCE SpinLock
  WITH Bits <- {low, high}, Short <- {{}, {low}}, flag <- word, pc <- spin_pc, seen <- old_val

mutex_vars == <<vars, lapsed>>
spin_vars == <<word, global_short, spin_pc, old_val, has_incremented_wait>>

MCInit == which \in {"mutex", "spin_lock"} /\ HistoryInit /\ Spin!Init

\* A mutex stops for good when all threads sleep on it; nothing else stops.
AllAsleep == At("asleep") = Threads /\ UNCHANGED mutex_vars

MCNext ==
  \/ which = "mutex" /\ (HistoryNext \/ AllAsleep) /\ UNCHANGED <<which, spin_vars>>
  \/ which = "spin_lock" /\ Spin!Next /\ UNCHANGED <<which, mutex_vars>>

MCSpec == MCInit /\ [][MCNext]_<<which, mutex_vars, spin_vars>>

-----------------------------------------------------------------------------
(* The properties of SpinLock, stated and explained there.                 *)

\* The fields of the word and the locals of a caller of spin_lock keep their types.
SpinTypeOK == Spin!TypeOK

\* spin_lock's lock byte is set exactly while one thread holds it.
LockIsExact == Spin!LockIsExact

\* spin_lock's count is that of the threads that have joined it.
CountIsExact == Spin!CountIsExact

\* A thread is left asleep on a free spin_lock only after it slept on a stale word.
ForgottenIsStale == Spin!ForgottenIsStale
=============================================================================
