---------------------------- MODULE MCSharedLocks ----------------------------
(* Writers and readers use an rw_lock or a shared_mutex, which know nothing of   *)
(* each other: a behaviour is one of the lock that which names, and the other    *)
(* stays as it was made.  No symmetry set: the run checks liveness, for which a  *)
(* reduction by symmetry is not sound.                                           *)
EXTENDS RwLock

CONSTANT SharedWriters   \* those of the writers that use the shared_mutex

VARIABLES
  which,
  locked, pending, readers, write_wait_count, read_wait_count, shared_pc,
  phase, shared_seen, shared_added, shared_fresh, has_writer   \* of the shared_mutex

Shared == INSTANCE SharedMutex
  WITH Writers <- SharedWriters, pc <- shared_pc, seen <- shared_seen,
       added <- shared_added, fresh <- shared_fresh

shared_vars == <<locked, pending, readers, write_wait_count, read_wait_count, shared_pc,
                 phase, shared_seen, shared_added, shared_fresh, has_writer>>

MCInit == which \in {"rw_lock", "shared_mutex"} /\ Init /\ Shared!Init

MCNext ==
  \/ which = "rw_lock" /\ Next /\ UNCHANGED <<which, shared_vars>>
  \/ which = "shared_mutex" /\ Shared!Next /\ UNCHANGED <<which, vars>>

\* The fairness of RwLock and of SharedMutex in terms of the labels.  In both a thread
\* that is neither idle nor asleep can always take a step, every step of it changes its
\* label, and asleep or idle it has no step under fairness: a thread is therefore treated
\* fairly just when it rests again and again or moves for ever.
Resting(t) == pc[t] \in {"idle", "asleep"} /\ shared_pc[t] \in {"idle", "w_asleep", "r_asleep"}
Moves(t) == pc'[t] # pc[t] \/ shared_pc'[t] # shared_pc[t]
MCFairness == \A t \in Threads : []<>Resting(t) \/ []<><<Moves(t)>>_<<pc, shared_pc>>

MCSpec == MCInit /\ [][MCNext]_<<which, vars, shared_vars>> /\ MCFairness

-----------------------------------------------------------------------------
(* The properties of SharedMutex, stated and explained there.              *)

\* The word, the counts and the locals of a caller of shared_mutex keep their types.
SharedTypeOK == Shared!TypeOK

\* A writer holds a shared_mutex alone.
Exclusion == Shared!Exclusion

\* lock_state_ says exactly who holds a shared_mutex.
StateIsExact == Shared!StateIsExact

\* The waiting counts of a shared_mutex are those of the registered threads.
WaitersAreExact == Shared!WaitersAreExact

\* The pending bit is never left behind without a writer.
PendingIsJustified == Shared!PendingIsJustified

\* A reader of a shared_mutex sleeps only while somebody keeps it out or will wake it.
NoForgottenReader == Shared!NoForgottenReader

\* A writer that has failed its first attempt gets the shared_mutex.
WriterGetsLock == Shared!WriterGetsLock

\* A sleeping reader of a shared_mutex is woken.
ReaderWakes == Shared!ReaderWakes
=============================================================================
