---------------------------- MODULE SharedMutex ----------------------------
(***************************************************************************)
(* chenc::lock::shared_mutex (thread/lock.hpp): writers and readers share  *)
(* the word lock_state_ (a locked bit, a pending bit, a count of readers); *)
(* those that have to wait long register in a count and sleep on a signal. *)
(*                                                                         *)
(* One action is one access to shared memory.  The signals are versions    *)
(* that are only compared with a value loaded before, so a thread keeps    *)
(* just whether the version it loaded is still the current one (fresh);    *)
(* 2^32 signals between a load and its comparison are ignored.  lock_state_*)
(* is the record of its three fields, read and written in one step.        *)
(***************************************************************************)
EXTENDS LockThreads

CONSTANTS Writers, Readers    \* the threads that call lock(), and lock_shared()

VARIABLES
  locked, pending, readers,      \* lock_state_
  write_wait_count, read_wait_count,
  pc,
  phase,     \* first attempt, slow path, or slow path with its threshold passed
  seen,      \* the part of lock_state_ a compare-exchange will compare
  added,     \* is_add_wait
  fresh,     \* the signal has not changed since this thread loaded it
  has_writer \* local variable of unlock()

lock_state == <<locked, pending, readers>>
vars == <<lock_state, write_wait_count, read_wait_count, pc, phase, seen, added,
          fresh, has_writer>>

WriteSlow == {"w_pend", "w_load", "w_cas", "w_decide", "w_count", "w_sig", "w_state",
              "w_sleep", "w_asleep"}
WriteHolding == {"w_uncount", "w_held", "w_unlock", "w_has", "w_store"}
ReadSlow == {"r_load", "r_cas", "r_fail", "r_count", "r_sig", "r_state", "r_sleep",
             "r_asleep"}
ReadHolding == {"r_uncount", "r_held", "r_unlock", "r_sub"}
Announcing == {"u_readers", "u_rsig", "u_rnotify", "u_writers", "u_wsig", "u_wnotify"}
Labels == {"idle", "w_try"} \cup WriteSlow \cup WriteHolding \cup ReadSlow
            \cup ReadHolding \cup Announcing

At(l) == {t \in Threads : pc[t] = l}
In(L) == {t \in Threads : pc[t] \in L}
Goto(t, l) == pc' = [pc EXCEPT ![t] = l]

TypeOK ==
  /\ locked \in BOOLEAN /\ pending \in BOOLEAN /\ readers \in Nat
  /\ write_wait_count \in 0..(CountMod - 1) /\ read_wait_count \in 0..(CountMod - 1)
  /\ pc \in [Threads -> Labels]
  /\ phase \in [Threads -> {"fast", "slow", "late"}]
  /\ seen \in [Threads -> [pending : BOOLEAN, readers : Nat]]
  /\ added \in [Threads -> BOOLEAN]
  /\ fresh \in [Threads -> BOOLEAN]
  /\ has_writer \in [Threads -> BOOLEAN]

NotSeen == [pending |-> FALSE, readers |-> 0]

Init ==
  /\ locked = FALSE /\ pending = FALSE /\ readers = 0
  /\ write_wait_count = 0 /\ read_wait_count = 0
  /\ pc = [t \in Threads |-> "idle"]
  /\ phase = [t \in Threads |-> "fast"]
  /\ seen = [t \in Threads |-> NotSeen]
  /\ added = [t \in Threads |-> FALSE]
  /\ fresh = [t \in Threads |-> FALSE]
  /\ has_writer = [t \in Threads |-> FALSE]

-----------------------------------------------------------------------------
(* lock().                                                                 *)

Lock(t) ==
  /\ t \in Writers /\ pc[t] = "idle"
  /\ Goto(t, "w_try")
  /\ UNCHANGED <<lock_state, write_wait_count, read_wait_count, phase, seen, added,
                 fresh, has_writer>>

\* Mutant: try_lock() looks at the locked bit only.
TryLockLockedOnly(t) ==
  /\ pc[t] = "w_try"
  /\ IF ~locked
     THEN locked' = TRUE /\ Goto(t, "w_held")
     ELSE UNCHANGED locked /\ Goto(t, "w_pend")
  /\ UNCHANGED <<pending, readers, write_wait_count, read_wait_count, phase, seen,
                 added, fresh, has_writer>>

\* try_lock(): the whole word must be zero.  When it fails lock() goes on, and a
\* try_lock() by itself returns false.
TryLock(t) ==
  /\ pc[t] = "w_try"
  /\ IF ~locked /\ ~pending /\ readers = 0
     THEN locked' = TRUE /\ Goto(t, "w_held")
     ELSE UNCHANGED locked /\ \E l \in {"w_pend", "idle"} : Goto(t, l)
  /\ UNCHANGED <<pending, readers, write_wait_count, read_wait_count, phase, seen,
                 added, fresh, has_writer>>

SetPending(t) ==
  /\ pc[t] = "w_pend"
  /\ pending' = TRUE
  /\ phase' = [phase EXCEPT ![t] = "slow"]
  /\ Goto(t, "w_load")
  /\ UNCHANGED <<locked, readers, write_wait_count, read_wait_count, seen, added,
                 fresh, has_writer>>

LoadState(t) ==
  /\ pc[t] = "w_load"
  /\ IF ~locked /\ readers = 0
     THEN /\ seen' = [seen EXCEPT ![t] = [pending |-> pending, readers |-> 0]]
          /\ Goto(t, "w_cas")
     ELSE UNCHANGED seen /\ Goto(t, "w_decide")
  /\ UNCHANGED <<lock_state, write_wait_count, read_wait_count, phase, added, fresh,
                 has_writer>>

\* The compare-exchange keeps the pending bit it has seen.
WriteCas(t) ==
  /\ pc[t] = "w_cas"
  /\ IF ~locked /\ readers = 0 /\ pending = seen[t].pending
     THEN locked' = TRUE /\ Goto(t, "w_uncount")
     ELSE UNCHANGED locked /\ Goto(t, "w_decide")
  /\ seen' = [seen EXCEPT ![t] = NotSeen]
  /\ UNCHANGED <<pending, readers, write_wait_count, read_wait_count, phase, added,
                 fresh, has_writer>>

\* Before the threshold the thread spins and tries again, after it it waits.
WriteDecide(t) ==
  /\ pc[t] = "w_decide"
  /\ \/ phase[t] = "slow" /\ Goto(t, "w_load") /\ UNCHANGED phase
     \/ phase' = [phase EXCEPT ![t] = "late"] /\ Goto(t, "w_count")
  /\ UNCHANGED <<lock_state, write_wait_count, read_wait_count, seen, added, fresh,
                 has_writer>>

WriteCount(t) ==
  /\ pc[t] = "w_count"
  /\ write_wait_count' =
       IF added[t] THEN write_wait_count ELSE (write_wait_count + 1) % CountMod
  /\ added' = [added EXCEPT ![t] = TRUE]
  /\ Goto(t, "w_sig")
  /\ UNCHANGED <<lock_state, read_wait_count, phase, seen, fresh, has_writer>>

WriteSignalLoad(t) ==
  /\ pc[t] = "w_sig"
  /\ fresh' = [fresh EXCEPT ![t] = TRUE]
  /\ Goto(t, "w_state")
  /\ UNCHANGED <<lock_state, write_wait_count, read_wait_count, phase, seen, added,
                 has_writer>>

\* The double check before sleeping.
WriteState(t) ==
  /\ pc[t] = "w_state"
  /\ IF locked \/ readers > 0
     THEN Goto(t, "w_sleep") /\ UNCHANGED fresh
     ELSE Goto(t, "w_load") /\ fresh' = [fresh EXCEPT ![t] = FALSE]
  /\ UNCHANGED <<lock_state, write_wait_count, read_wait_count, phase, seen, added,
                 has_writer>>

\* write_signal_.wait(old_sig) compares and sleeps in one step, or returns.
WriteSleep(t) ==
  /\ pc[t] = "w_sleep"
  /\ Goto(t, IF fresh[t] THEN "w_asleep" ELSE "w_load")
  /\ UNCHANGED <<lock_state, write_wait_count, read_wait_count, phase, seen, added,
                 fresh, has_writer>>

\* Mutant: the writer never leaves the count, so every unlock() prefers writers.
WriteUncountForgotten(t) ==
  /\ pc[t] = "w_uncount"
  /\ added' = [added EXCEPT ![t] = FALSE]
  /\ phase' = [phase EXCEPT ![t] = "fast"]
  /\ Goto(t, "w_held")
  /\ UNCHANGED <<lock_state, write_wait_count, read_wait_count, seen, fresh, has_writer>>

\* lock() returns; a registered writer leaves the count.
WriteUncount(t) ==
  /\ pc[t] = "w_uncount"
  /\ write_wait_count' =
       IF added[t] THEN (write_wait_count - 1) % CountMod ELSE write_wait_count
  /\ added' = [added EXCEPT ![t] = FALSE]
  /\ phase' = [phase EXCEPT ![t] = "fast"]
  /\ Goto(t, "w_held")
  /\ UNCHANGED <<lock_state, read_wait_count, seen, fresh, has_writer>>

-----------------------------------------------------------------------------
(* lock_shared().                                                          *)

LockShared(t) ==
  /\ t \in Readers /\ pc[t] = "idle"
  /\ Goto(t, "r_load")
  /\ UNCHANGED <<lock_state, write_wait_count, read_wait_count, phase, seen, added,
                 fresh, has_writer>>

\* try_lock_shared(): a writer that holds or waits keeps new readers out.
ReadLoad(t) ==
  /\ pc[t] = "r_load"
  /\ IF locked \/ pending
     THEN Goto(t, "r_fail") /\ UNCHANGED seen
     ELSE Goto(t, "r_cas") /\ seen' = [seen EXCEPT ![t] = [pending |-> FALSE, readers |-> readers]]
  /\ UNCHANGED <<lock_state, write_wait_count, read_wait_count, phase, added, fresh,
                 has_writer>>

\* Mutant: a store of the count that was loaded, in place of the compare-exchange.
ReadCasUnchecked(t) ==
  /\ pc[t] = "r_cas"
  /\ readers' = seen[t].readers + 1
  /\ seen' = [seen EXCEPT ![t] = NotSeen]
  /\ Goto(t, "r_uncount")
  /\ UNCHANGED <<locked, pending, write_wait_count, read_wait_count, phase, added,
                 fresh, has_writer>>

ReadCas(t) ==
  /\ pc[t] = "r_cas"
  /\ ~locked /\ ~pending /\ readers = seen[t].readers
  /\ readers' = readers + 1
  /\ seen' = [seen EXCEPT ![t] = NotSeen]
  /\ Goto(t, "r_uncount")
  /\ UNCHANGED <<locked, pending, write_wait_count, read_wait_count, phase, added,
                 fresh, has_writer>>

\* The word changed, or compare_exchange_weak fails spuriously.
ReadCasFails(t) ==
  /\ pc[t] = "r_cas"
  /\ seen' = [seen EXCEPT ![t] = NotSeen]
  /\ Goto(t, "r_fail")
  /\ UNCHANGED <<lock_state, write_wait_count, read_wait_count, phase, added, fresh,
                 has_writer>>

\* A try_lock_shared() by itself returns false; after the first failure in
\* lock_shared() the slow path begins with another attempt.
ReadFail(t) ==
  /\ pc[t] = "r_fail"
  /\ \/ phase[t] = "fast" /\ UNCHANGED phase /\ Goto(t, "idle")
     \/ phase[t] \in {"fast", "slow"}
        /\ phase' = [phase EXCEPT ![t] = "slow"] /\ Goto(t, "r_load")
     \/ phase[t] \in {"slow", "late"}
        /\ phase' = [phase EXCEPT ![t] = "late"] /\ Goto(t, "r_count")
  /\ UNCHANGED <<lock_state, write_wait_count, read_wait_count, seen, added, fresh,
                 has_writer>>

\* Mutant: a reader that comes back from its sleep is counted again.
ReadCountAgain(t) ==
  /\ pc[t] = "r_count"
  /\ read_wait_count' = (read_wait_count + 1) % CountMod
  /\ added' = [added EXCEPT ![t] = TRUE]
  /\ Goto(t, "r_sig")
  /\ UNCHANGED <<lock_state, write_wait_count, phase, seen, fresh, has_writer>>

ReadCount(t) ==
  /\ pc[t] = "r_count"
  /\ read_wait_count' =
       IF added[t] THEN read_wait_count ELSE (read_wait_count + 1) % CountMod
  /\ added' = [added EXCEPT ![t] = TRUE]
  /\ Goto(t, "r_sig")
  /\ UNCHANGED <<lock_state, write_wait_count, phase, seen, fresh, has_writer>>

ReadSignalLoad(t) ==
  /\ pc[t] = "r_sig"
  /\ fresh' = [fresh EXCEPT ![t] = TRUE]
  /\ Goto(t, "r_state")
  /\ UNCHANGED <<lock_state, write_wait_count, read_wait_count, phase, seen, added,
                 has_writer>>

\* Mutant: no double check of lock_state_ before a reader sleeps.
ReadStateUnchecked(t) ==
  /\ pc[t] = "r_state"
  /\ Goto(t, "r_sleep")
  /\ UNCHANGED <<lock_state, write_wait_count, read_wait_count, phase, seen, added,
                 fresh, has_writer>>

ReadState(t) ==
  /\ pc[t] = "r_state"
  /\ IF locked \/ pending
     THEN Goto(t, "r_sleep") /\ UNCHANGED fresh
     ELSE Goto(t, "r_load") /\ fresh' = [fresh EXCEPT ![t] = FALSE]
  /\ UNCHANGED <<lock_state, write_wait_count, read_wait_count, phase, seen, added,
                 has_writer>>

ReadSleep(t) ==
  /\ pc[t] = "r_sleep"
  /\ Goto(t, IF fresh[t] THEN "r_asleep" ELSE "r_load")
  /\ UNCHANGED <<lock_state, write_wait_count, read_wait_count, phase, seen, added,
                 fresh, has_writer>>

ReadUncount(t) ==
  /\ pc[t] = "r_uncount"
  /\ read_wait_count' =
       IF added[t] THEN (read_wait_count - 1) % CountMod ELSE read_wait_count
  /\ added' = [added EXCEPT ![t] = FALSE]
  /\ phase' = [phase EXCEPT ![t] = "fast"]
  /\ Goto(t, "r_held")
  /\ UNCHANGED <<lock_state, write_wait_count, seen, fresh, has_writer>>

-----------------------------------------------------------------------------
(* unlock(), which unlock_shared() calls too: the locked bit tells whose     *)
(* lock it is.                                                             *)

Unlock(t) ==
  /\ pc[t] \in {"w_held", "r_held"}
  /\ Goto(t, IF locked THEN "w_has" ELSE "r_sub")
  /\ UNCHANGED <<lock_state, write_wait_count, read_wait_count, phase, seen, added,
                 fresh, has_writer>>

HasWriter(t) ==
  /\ pc[t] = "w_has"
  /\ has_writer' = [has_writer EXCEPT ![t] = write_wait_count > 0]
  /\ Goto(t, "w_store")
  /\ UNCHANGED <<lock_state, write_wait_count, read_wait_count, phase, seen, added, fresh>>

\* Mutant: unlock() clears the locked bit and leaves the pending bit as it is.
StoreStateKeepsPending(t) ==
  /\ pc[t] = "w_store"
  /\ locked' = FALSE /\ readers' = 0
  /\ has_writer' = [has_writer EXCEPT ![t] = FALSE]
  /\ Goto(t, IF has_writer[t] THEN "u_wsig" ELSE "u_readers")
  /\ UNCHANGED <<pending, write_wait_count, read_wait_count, phase, seen, added, fresh>>

\* The store overwrites the whole word.
StoreState(t) ==
  /\ pc[t] = "w_store"
  /\ locked' = FALSE /\ pending' = has_writer[t] /\ readers' = 0
  /\ has_writer' = [has_writer EXCEPT ![t] = FALSE]
  /\ Goto(t, IF has_writer[t] THEN "u_wsig" ELSE "u_readers")
  /\ UNCHANGED <<write_wait_count, read_wait_count, phase, seen, added, fresh>>

\* Mutant: a release subtracts the reader twice.
ReadReleaseTwice(t) ==
  /\ pc[t] = "r_sub"
  /\ readers' = readers - 2
  /\ Goto(t, IF readers = 1 /\ pending THEN "u_writers" ELSE "idle")
  /\ UNCHANGED <<locked, pending, write_wait_count, read_wait_count, phase, seen,
                 added, fresh, has_writer>>

\* One reader less; the last one looks for a waiting writer.
ReadRelease(t) ==
  /\ pc[t] = "r_sub"
  /\ readers' = readers - 1
  /\ Goto(t, IF readers = 1 /\ pending THEN "u_writers" ELSE "idle")
  /\ UNCHANGED <<locked, pending, write_wait_count, read_wait_count, phase, seen,
                 added, fresh, has_writer>>

\* Mutant: the last reader does not look for waiting writers.
LoadWritersNever(t) ==
  /\ pc[t] = "u_writers"
  /\ Goto(t, "idle")
  /\ UNCHANGED <<lock_state, write_wait_count, read_wait_count, phase, seen, added,
                 fresh, has_writer>>

LoadWriters(t) ==
  /\ pc[t] = "u_writers"
  /\ Goto(t, IF write_wait_count > 0 THEN "u_wsig" ELSE "idle")
  /\ UNCHANGED <<lock_state, write_wait_count, read_wait_count, phase, seen, added,
                 fresh, has_writer>>

LoadReaders(t) ==
  /\ pc[t] = "u_readers"
  /\ Goto(t, IF read_wait_count > 0 THEN "u_rsig" ELSE "idle")
  /\ UNCHANGED <<lock_state, write_wait_count, read_wait_count, phase, seen, added,
                 fresh, has_writer>>

\* A signal makes stale what the threads that wait for it have loaded.
Outdate(L) == fresh' = [t \in Threads |-> fresh[t] /\ pc[t] \notin L]

WriteSignal(t) ==
  /\ pc[t] = "u_wsig"
  /\ Outdate({"w_state", "w_sleep", "w_asleep"})
  /\ Goto(t, "u_wnotify")
  /\ UNCHANGED <<lock_state, write_wait_count, read_wait_count, phase, seen, added,
                 has_writer>>

ReadSignal(t) ==
  /\ pc[t] = "u_rsig"
  /\ Outdate({"r_state", "r_sleep", "r_asleep"})
  /\ Goto(t, "u_rnotify")
  /\ UNCHANGED <<lock_state, write_wait_count, read_wait_count, phase, seen, added,
                 has_writer>>

\* notify_one(): one sleeping writer, if any, evaluates its wait again.
WriteNotify(t) ==
  /\ pc[t] = "u_wnotify"
  /\ \/ At("w_asleep") = {} /\ Goto(t, "idle")
     \/ \E u \in At("w_asleep") : pc' = [pc EXCEPT ![t] = "idle", ![u] = "w_sleep"]
  /\ UNCHANGED <<lock_state, write_wait_count, read_wait_count, phase, seen, added,
                 fresh, has_writer>>

\* notify_all(): every sleeping reader evaluates its wait again.
ReadNotify(t) ==
  /\ pc[t] = "u_rnotify"
  /\ pc' = [u \in Threads |-> IF u = t THEN "idle"
                              ELSE IF pc[u] = "r_asleep" THEN "r_sleep" ELSE pc[u]]
  /\ UNCHANGED <<lock_state, write_wait_count, read_wait_count, phase, seen, added,
                 fresh, has_writer>>

-----------------------------------------------------------------------------
Writing(t) ==
  \/ TryLock(t) \/ SetPending(t) \/ LoadState(t) \/ WriteCas(t) \/ WriteDecide(t)
  \/ WriteCount(t) \/ WriteSignalLoad(t) \/ WriteState(t) \/ WriteSleep(t)
  \/ WriteUncount(t)

Reading(t) ==
  \/ ReadLoad(t) \/ ReadCas(t) \/ ReadCasFails(t) \/ ReadFail(t) \/ ReadCount(t)
  \/ ReadSignalLoad(t) \/ ReadState(t) \/ ReadSleep(t) \/ ReadUncount(t)

Unlocking(t) ==
  \/ Unlock(t) \/ HasWriter(t) \/ StoreState(t) \/ ReadRelease(t) \/ LoadWriters(t)
  \/ LoadReaders(t) \/ WriteSignal(t) \/ ReadSignal(t) \/ WriteNotify(t) \/ ReadNotify(t)

Next == \E t \in Threads :
          Lock(t) \/ LockShared(t) \/ Writing(t) \/ Reading(t) \/ Unlocking(t)

Spec == Init /\ [][Next]_vars

\* Every thread in a call keeps being scheduled, and a holder unlocks some day.
Fairness == \A t \in Threads : WF_vars(Writing(t) \/ Reading(t) \/ Unlocking(t))

LiveSpec == Spec /\ Fairness

-----------------------------------------------------------------------------
(* Properties.                                                             *)

\* A writer holds the lock alone; readers share it only among themselves.
Exclusion ==
  /\ \A t, u \in In(WriteHolding) : t = u
  /\ In(WriteHolding) # {} => In(ReadHolding) = {}

\* lock_state_ says who holds the lock: the blind store of a writer's unlock never
\* erases a reader, and the count of readers never falls below zero.
StateIsExact ==
  /\ locked <=> In(WriteHolding) # {}
  /\ readers = Cardinality(In(ReadHolding))

\* The waiting counts, which decide whom an unlock wakes, are the threads that have
\* registered and not yet left, on every path; the 16 bits do not wrap.
WaitersAreExact ==
  /\ write_wait_count =
       Cardinality({t \in Threads : added[t] /\ pc[t] \in WriteSlow \cup {"w_uncount"}})
  /\ read_wait_count =
       Cardinality({t \in Threads : added[t] /\ pc[t] \in ReadSlow \cup {"r_uncount"}})

\* The pending bit, which shuts readers out, is set only while a writer is there
\* that will get the lock and clear it: it is never left behind.
PendingIsJustified == pending => In(WriteSlow \cup WriteHolding) # {}

\* A reader sleeps only while a writer keeps it out or somebody is about to wake
\* the readers.
NoForgottenReader ==
  At("r_asleep") # {} =>
    locked \/ pending \/ In({"u_readers", "u_rsig", "u_rnotify"}) # {}

\* A writer sleeps only while somebody holds the lock, is about to wake a writer,
\* or is a writer that is awake and on its way to the lock ("if writers wait, keep
\* the pending bit", "make sure that no wakeup is lost").
NoForgottenWriter ==
  At("w_asleep") # {} =>
    \/ locked \/ readers > 0
    \/ In({"u_writers", "u_wsig", "u_wnotify", "w_try"} \cup (WriteSlow \ {"w_asleep"})) # {}

\* Writers are preferred: once a writer has failed its first attempt, readers
\* cannot keep it out for ever.  Checked for one writer.
WriterGetsLock == \A t \in Writers : pc[t] \in WriteSlow ~> pc[t] \in WriteHolding

\* A sleeping reader is woken in the end.  Checked for one writer.
ReaderWakes == \A t \in Readers : pc[t] = "r_asleep" ~> pc[t] # "r_asleep"

=============================================================================
