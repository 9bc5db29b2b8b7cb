------------------------------- MODULE RwLock -------------------------------
(***************************************************************************)
(* chenc::rw_lock (thread/olock.hpp): one word counts the readers and      *)
(* writers that hold the lock (active) and those that have announced that  *)
(* they want it (prepared).  A thread that waits long registers in the     *)
(* wait word of its kind, a count and a version in one atomic variable,    *)
(* and sleeps until that word changes and it is notified.                  *)
(*                                                                         *)
(* One action is one access to shared memory, with two exceptions: the     *)
(* compare-exchange loops that announce a thread and that release the lock *)
(* retry until they succeed, so each is one update of the word.  A version *)
(* is only compared with one loaded before, so a thread keeps whether it   *)
(* has changed since (fresh) and, while it has not, the count it expects.  *)
(***************************************************************************)
EXTENDS LockThreads

CONSTANTS Writers, Readers

\* A thread stands for one handle, and a handle reads or writes.
ASSUME KindsAssumption == Threads = Writers \cup Readers /\ Writers \cap Readers = {}

VARIABLES
  state,              \* state_
  wait_read, wait_write, \* the counts in wait_read__count_ and wait_write_count_
  pc,
  seen,               \* the word a compare-exchange will compare
  is_wait,            \* registered in the wait word
  expect, fresh       \* wait_expected: its count, and whether its version is current

vars == <<state, wait_read, wait_write, pc, seen, is_wait, expect, fresh>>

Count == 0..(CountMod - 1)
Word == [prep_read : Count, prep_write : Count, acti_read : Count, acti_write : {0, 1}]
Zero == [prep_read |-> 0, prep_write |-> 0, acti_read |-> 0, acti_write |-> 0]

Slow == {"load", "cas", "wait", "register", "reload", "recheck", "deregister", "sleep",
         "asleep"}
Holding == {"retire", "held"}
Waking == {"wake_writers", "notify_writer", "wake_readers", "notify_readers"}
Labels == {"idle", "try", "try_cas", "prepare"} \cup Slow \cup Holding \cup Waking

At(l) == {t \in Threads : pc[t] = l}
In(L) == {t \in Threads : pc[t] \in L}
Goto(t, l) == pc' = [pc EXCEPT ![t] = l]
Writes(t) == t \in Writers

TypeOK ==
  /\ state \in Word
  /\ wait_read \in Count /\ wait_write \in Count
  /\ pc \in [Threads -> Labels]
  /\ seen \in [Threads -> Word]
  /\ is_wait \in [Threads -> BOOLEAN]
  /\ expect \in [Threads -> Count] /\ fresh \in [Threads -> BOOLEAN]

Init ==
  /\ state = Zero /\ wait_read = 0 /\ wait_write = 0
  /\ pc = [t \in Threads |-> "idle"]
  /\ seen = [t \in Threads |-> Zero]
  /\ is_wait = [t \in Threads |-> FALSE]
  /\ expect = [t \in Threads |-> 0] /\ fresh = [t \in Threads |-> FALSE]

-----------------------------------------------------------------------------
(* What each kind of thread requires of the word and does to it.           *)

\* try_lock(): a reader wants no writer, a writer wants nobody, prepared or active.
MayTry(t, w) ==
  /\ w.acti_write = 0 /\ w.prep_write = 0
  /\ Writes(t) => w.acti_read = 0 /\ w.prep_read = 0

\* Mutant: a prepared writer does not bar readers.
MayEnterPastPrepared(t, w) ==
  w.acti_write = 0 /\ (Writes(t) => w.acti_read = 0)

\* The slow path: a prepared writer bars readers, but readers that only prepare do
\* not bar a writer, and prepared writers do not bar each other.
MayEnter(t, w) ==
  IF Writes(t) THEN w.acti_read = 0 /\ w.acti_write = 0
               ELSE w.acti_write = 0 /\ w.prep_write = 0

Activated(t, w) == IF Writes(t) THEN [w EXCEPT !.acti_write = 1]
                                ELSE [w EXCEPT !.acti_read = (@ + 1) % CountMod]
Prepared(t, w, d) == IF Writes(t) THEN [w EXCEPT !.prep_write = (@ + d) % CountMod]
                                  ELSE [w EXCEPT !.prep_read = (@ + d) % CountMod]
Active(t) == IF Writes(t) THEN state.acti_write ELSE state.acti_read

\* Mutant: both kinds of handle release the field of the writers.
ReleasedByWriters(t, w) == [w EXCEPT !.acti_write = (@ - 1) % CountMod]

Released(t, w) == IF Writes(t) THEN [w EXCEPT !.acti_write = 0]
                               ELSE [w EXCEPT !.acti_read = (@ - 1) % CountMod]

\* Adds d to the wait count of t's kind.
Register(t, d) ==
  IF Writes(t) THEN wait_write' = (wait_write + d) % CountMod /\ UNCHANGED wait_read
               ELSE wait_read' = (wait_read + d) % CountMod /\ UNCHANGED wait_write
Waiters(t) == IF Writes(t) THEN wait_write ELSE wait_read

-----------------------------------------------------------------------------
(* try_lock(), alone or as the first attempt of lock().                    *)

Lock(t) ==
  /\ pc[t] = "idle"
  /\ Goto(t, "try")
  /\ UNCHANGED <<state, wait_read, wait_write, seen, is_wait, expect, fresh>>

\* lock() goes on, a try_lock() by itself returns false.
AfterFailure(t) == \E l \in {"prepare", "idle"} : Goto(t, l)

TryLoad(t) ==
  /\ pc[t] = "try"
  /\ IF MayTry(t, state)
     THEN seen' = [seen EXCEPT ![t] = state] /\ Goto(t, "try_cas")
     ELSE UNCHANGED seen /\ AfterFailure(t)
  /\ UNCHANGED <<state, wait_read, wait_write, is_wait, expect, fresh>>

TryCas(t) ==
  /\ pc[t] = "try_cas"
  /\ IF state = seen[t]
     THEN state' = Activated(t, state) /\ Goto(t, "held")
     ELSE UNCHANGED state /\ AfterFailure(t)
  /\ seen' = [seen EXCEPT ![t] = Zero]
  /\ UNCHANGED <<wait_read, wait_write, is_wait, expect, fresh>>

-----------------------------------------------------------------------------
(* The slow path of lock().                                                *)

\* The announcing loop; the compare-exchange that succeeds.
Prepare(t) ==
  /\ pc[t] = "prepare"
  /\ state' = Prepared(t, state, 1)
  /\ Goto(t, "load")
  /\ UNCHANGED <<wait_read, wait_write, seen, is_wait, expect, fresh>>

Load(t) ==
  /\ pc[t] = "load"
  /\ IF MayEnter(t, state)
     THEN seen' = [seen EXCEPT ![t] = state] /\ Goto(t, "cas")
     ELSE UNCHANGED seen /\ Goto(t, "wait")
  /\ UNCHANGED <<state, wait_read, wait_write, is_wait, expect, fresh>>

\* Mutant: the thread that enters stays announced.
CasStaysPrepared(t) ==
  /\ pc[t] = "cas"
  /\ IF state = seen[t]
     THEN state' = Activated(t, state) /\ Goto(t, "retire")
     ELSE UNCHANGED state /\ Goto(t, "load")
  /\ seen' = [seen EXCEPT ![t] = Zero]
  /\ UNCHANGED <<wait_read, wait_write, is_wait, expect, fresh>>

Cas(t) ==
  /\ pc[t] = "cas"
  /\ IF state = seen[t]
     THEN state' = Activated(t, Prepared(t, state, -1)) /\ Goto(t, "retire")
     ELSE UNCHANGED state /\ Goto(t, "load")
  /\ seen' = [seen EXCEPT ![t] = Zero]
  /\ UNCHANGED <<wait_read, wait_write, is_wait, expect, fresh>>

\* Before the threshold the thread spins for now_sleep_ns and tries again, after it
\* it waits; it registers unless it still is registered.  The thresholds of the lock
\* and of all locks may be set at any time, so any comparison may go either way.
Decide(t) ==
  /\ pc[t] = "wait"
  /\ \E l \in {"load", IF is_wait[t] THEN "reload" ELSE "register"} : Goto(t, l)
  /\ UNCHANGED <<state, wait_read, wait_write, seen, is_wait, expect, fresh>>

RegisterWaiter(t) ==
  /\ pc[t] = "register"
  /\ Register(t, 1)
  /\ is_wait' = [is_wait EXCEPT ![t] = TRUE]
  /\ expect' = [expect EXCEPT ![t] = (Waiters(t) + 1) % CountMod]
  /\ fresh' = [fresh EXCEPT ![t] = TRUE]
  /\ Goto(t, "recheck")
  /\ UNCHANGED <<state, seen>>

Reload(t) ==
  /\ pc[t] = "reload"
  /\ expect' = [expect EXCEPT ![t] = Waiters(t)]
  /\ fresh' = [fresh EXCEPT ![t] = TRUE]
  /\ Goto(t, "recheck")
  /\ UNCHANGED <<state, wait_read, wait_write, seen, is_wait>>

\* Mutant: no check of the lock between registering and sleeping.
RecheckNothing(t) ==
  /\ pc[t] = "recheck"
  /\ Goto(t, "sleep")
  /\ UNCHANGED <<state, wait_read, wait_write, seen, is_wait, expect, fresh>>

\* The lock is checked again between registering and sleeping.
Recheck(t) ==
  /\ pc[t] = "recheck"
  /\ Goto(t, IF MayEnter(t, state) THEN "deregister" ELSE "sleep")
  /\ UNCHANGED <<state, wait_read, wait_write, seen, is_wait, expect, fresh>>

Forget(t) ==
  /\ expect' = [expect EXCEPT ![t] = 0]
  /\ fresh' = [fresh EXCEPT ![t] = FALSE]

\* Mutant: is_wait stays set when the thread leaves the count.
DeregisterKeepsFlag(t) ==
  /\ pc[t] = "deregister"
  /\ Register(t, -1)
  /\ UNCHANGED is_wait
  /\ Forget(t)
  /\ Goto(t, "load")
  /\ UNCHANGED <<state, seen>>

Deregister(t) ==
  /\ pc[t] = "deregister"
  /\ Register(t, -1)
  /\ is_wait' = [is_wait EXCEPT ![t] = FALSE]
  /\ Forget(t)
  /\ Goto(t, "load")
  /\ UNCHANGED <<state, seen>>

\* atomic wait: compares the whole wait word and sleeps in one step, or returns.
Sleep(t) ==
  /\ pc[t] = "sleep"
  /\ IF fresh[t] /\ Waiters(t) = expect[t]
     THEN Goto(t, "asleep") /\ UNCHANGED <<expect, fresh>>
     ELSE Goto(t, "load") /\ Forget(t)
  /\ UNCHANGED <<state, wait_read, wait_write, seen, is_wait>>

\* lock() returns; a registered thread leaves the count.
Retire(t) ==
  /\ pc[t] = "retire"
  /\ IF is_wait[t] THEN Register(t, -1) ELSE UNCHANGED <<wait_read, wait_write>>
  /\ is_wait' = [is_wait EXCEPT ![t] = FALSE]
  /\ Goto(t, "held")
  /\ UNCHANGED <<state, seen, expect, fresh>>

-----------------------------------------------------------------------------
(* unlock(): readers and writers alike wake one waiting writer, or, if no  *)
(* writer is registered, all waiting readers.                              *)

\* A handle of whose kind nobody holds the lock returns at once.
UnlockUnheld(t) ==
  /\ pc[t] \in {"idle", "held"} /\ Active(t) = 0
  /\ Goto(t, "idle")
  /\ UNCHANGED <<state, wait_read, wait_write, seen, is_wait, expect, fresh>>

Unlock(t) ==
  /\ pc[t] = "held" /\ Active(t) # 0
  /\ state' = Released(t, state)
  /\ Goto(t, "wake_writers")
  /\ UNCHANGED <<wait_read, wait_write, seen, is_wait, expect, fresh>>

\* A new version makes stale what the threads of that kind expect.
Outdate(K) ==
  /\ fresh' = [t \in Threads |-> fresh[t] /\ t \notin K]
  /\ expect' = [t \in Threads |-> IF t \in K THEN 0 ELSE expect[t]]

WakeWriters(t) ==
  /\ pc[t] = "wake_writers"
  /\ Outdate(Writers)
  /\ Goto(t, IF wait_write # 0 THEN "notify_writer" ELSE "wake_readers")
  /\ UNCHANGED <<state, wait_read, wait_write, seen, is_wait>>

NotifyWriter(t) ==
  /\ pc[t] = "notify_writer"
  /\ \/ At("asleep") \cap Writers = {} /\ Goto(t, "idle")
     \/ \E u \in At("asleep") \cap Writers :
          pc' = [pc EXCEPT ![t] = "idle", ![u] = "sleep"]
  /\ UNCHANGED <<state, wait_read, wait_write, seen, is_wait, expect, fresh>>

WakeReaders(t) ==
  /\ pc[t] = "wake_readers"
  /\ Outdate(Readers)
  /\ Goto(t, IF wait_read # 0 THEN "notify_readers" ELSE "idle")
  /\ UNCHANGED <<state, wait_read, wait_write, seen, is_wait>>

NotifyReaders(t) ==
  /\ pc[t] = "notify_readers"
  /\ pc' = [u \in Threads |-> IF u = t THEN "idle"
                              ELSE IF u \in Readers /\ pc[u] = "asleep" THEN "sleep"
                              ELSE pc[u]]
  /\ UNCHANGED <<state, wait_read, wait_write, seen, is_wait, expect, fresh>>

-----------------------------------------------------------------------------
Locking(t) ==
  \/ TryLoad(t) \/ TryCas(t) \/ Prepare(t) \/ Load(t) \/ Cas(t) \/ Decide(t)
  \/ RegisterWaiter(t) \/ Reload(t) \/ Recheck(t) \/ Deregister(t) \/ Sleep(t) \/ Retire(t)

Unlocking(t) ==
  Unlock(t) \/ WakeWriters(t) \/ NotifyWriter(t) \/ WakeReaders(t) \/ NotifyReaders(t)

Next == \E t \in Threads : Lock(t) \/ Locking(t) \/ UnlockUnheld(t) \/ Unlocking(t)

Spec == Init /\ [][Next]_vars

\* Every thread in a call keeps being scheduled, and a holder unlocks some day.
Fairness == \A t \in Threads : WF_vars(Locking(t) \/ Unlocking(t))

LiveSpec == Spec /\ Fairness

-----------------------------------------------------------------------------
(* Properties.                                                             *)

\* The word counts exactly: active fields the holders, prepared fields those on
\* the slow path; a writer holds the lock alone.
WordIsExact ==
  /\ state.acti_write = Cardinality(In(Holding) \cap Writers)
  /\ state.acti_read = Cardinality(In(Holding) \cap Readers)
  /\ state.prep_write = Cardinality(In(Slow) \cap Writers)
  /\ state.prep_read = Cardinality(In(Slow) \cap Readers)
  /\ state.acti_write > 0 => state.acti_write = 1 /\ state.acti_read = 0

\* Registrations are balanced: a wait count is the number of threads of its kind
\* that have registered and not retired.
RegistrationsAreExact ==
  /\ wait_write = Cardinality({t \in Writers : is_wait[t]})
  /\ wait_read = Cardinality({t \in Readers : is_wait[t]})

\* A thread of either kind sleeps only while somebody will still wake it: a holder
\* that has yet to unlock, a thread that is waking others, or, for a writer,
\* another writer that is awake on its way to the lock; for a reader, a writer
\* that keeps it out.
NoForgottenSleeper ==
  /\ At("asleep") \cap Writers # {} =>
       \/ In(Holding) # {} \/ In({"wake_writers", "notify_writer"}) # {}
       \/ In(Slow \ {"asleep"}) \cap Writers # {}
  /\ At("asleep") \cap Readers # {} =>
       state.acti_write + state.prep_write > 0 \/ In(Waking) # {}

\* Writers are preferred: while a writer waits, awake or asleep, readers that come and
\* go cannot keep all writers out for ever, nor can the writers each other.
WriterGetsIn == In(Slow) \cap Writers # {} ~> In(Holding) \cap Writers # {}

=============================================================================
