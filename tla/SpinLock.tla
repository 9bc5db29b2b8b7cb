------------------------------ MODULE SpinLock ------------------------------
(***************************************************************************)
(* chenc::spin_lock (thread/olock.hpp:13): one 64-bit word holds a lock    *)
(* byte, a count of waiting threads and the wait start, a threshold in ns: *)
(* a thread that finds the lock taken sleeps on the word once now_sleep_ns *)
(* (always 1000) has reached the threshold, and spins before.              *)
(*                                                                         *)
(* One action is one access to shared memory; the compare-exchange loop    *)
(* that counts a waiter retries until it succeeds and is one update.  A    *)
(* wait start is the set of its bits; Short holds those of at most 1000.   *)
(* Of the global threshold only whether it is at most 1000 is kept.        *)
(***************************************************************************)
EXTENDS LockThreads

CONSTANTS Bits, Short

VARIABLES
  flag,          \* flag_, as the record of its three fields
  global_short,  \* global_wait_start_time_ is at most 1000
  pc,
  seen,          \* old_val
  has_incremented_wait

vars == <<flag, global_short, pc, seen, has_incremented_wait>>

State == [wait_start : SUBSET Bits, wait_count : 0 .. CountMod - 1, lock : BOOLEAN]
Zero == [wait_start |-> {}, wait_count |-> 0, lock |-> FALSE]

Trying == {"try", "try_cas"}
Slow == {"load", "cas", "measure", "global", "count", "sleep", "asleep"}
Labels == {"idle", "held", "notify", "set"} \cup Trying \cup Slow

At(l) == {t \in Threads : pc[t] = l}
In(L) == {t \in Threads : pc[t] \in L}
Goto(t, l) == pc' = [pc EXCEPT ![t] = l]
See(t, word) == seen' = [seen EXCEPT ![t] = word]

TypeOK ==
  /\ flag \in State /\ global_short \in BOOLEAN
  /\ pc \in [Threads -> Labels]
  /\ seen \in [Threads -> State]
  /\ has_incremented_wait \in [Threads -> BOOLEAN]

Init ==
  /\ flag = Zero /\ global_short = FALSE
  /\ pc = [t \in Threads |-> "idle"]
  /\ seen = [t \in Threads |-> Zero]
  /\ has_incremented_wait = [t \in Threads |-> FALSE]

-----------------------------------------------------------------------------
(* try_lock(), alone or as the first attempt of lock().                    *)

Lock(t) ==
  /\ pc[t] = "idle"
  /\ Goto(t, "try")
  /\ UNCHANGED <<flag, global_short, seen, has_incremented_wait>>

\* lock() goes on, a try_lock() by itself returns false.
AfterFailure(t) == \E l \in {"load", "idle"} : Goto(t, l)

TryLoad(t) ==
  /\ pc[t] = "try"
  /\ IF flag.lock THEN AfterFailure(t) /\ UNCHANGED seen
                  ELSE Goto(t, "try_cas") /\ See(t, flag)
  /\ UNCHANGED <<flag, global_short, has_incremented_wait>>

\* Mutant: a store in place of the compare-exchange.
TryCasUnchecked(t) ==
  /\ pc[t] = "try_cas"
  /\ flag' = [seen[t] EXCEPT !.lock = TRUE]
  /\ See(t, Zero) /\ Goto(t, "held")
  /\ UNCHANGED <<global_short, has_incremented_wait>>

TryCas(t) ==
  /\ pc[t] = "try_cas" /\ flag = seen[t]
  /\ flag' = [flag EXCEPT !.lock = TRUE]
  /\ See(t, Zero) /\ Goto(t, "held")
  /\ UNCHANGED <<global_short, has_incremented_wait>>

\* The word changed, or compare_exchange_weak fails spuriously.
TryCasFails(t) ==
  /\ pc[t] = "try_cas"
  /\ See(t, Zero) /\ AfterFailure(t)
  /\ UNCHANGED <<flag, global_short, has_incremented_wait>>

-----------------------------------------------------------------------------
(* The loop of lock().                                                     *)

Load(t) ==
  /\ pc[t] = "load"
  /\ See(t, flag)
  /\ Goto(t, IF flag.lock THEN "measure" ELSE "cas")
  /\ UNCHANGED <<flag, global_short, has_incremented_wait>>

\* Mutant: the count is decremented whether or not the thread is in it.
TakenAlways(t, w) == [w EXCEPT !.lock = TRUE, !.wait_count = @ - 1]

\* What t makes of the word when it takes the lock: a counted thread leaves the count.
Taken(t, w) ==
  [w EXCEPT !.lock = TRUE,
            !.wait_count = IF has_incremented_wait[t] /\ @ > 0 THEN @ - 1 ELSE @]

Cas(t) ==
  /\ pc[t] = "cas" /\ flag = seen[t]
  /\ flag' = Taken(t, flag)
  /\ has_incremented_wait' = [has_incremented_wait EXCEPT ![t] = FALSE]
  /\ See(t, Zero) /\ Goto(t, "held")
  /\ UNCHANGED global_short

CasFails(t) ==
  /\ pc[t] = "cas"
  /\ See(t, Zero) /\ Goto(t, "load")
  /\ UNCHANGED <<flag, global_short, has_incremented_wait>>

\* Past its threshold the thread sleeps, and is counted first if it is not yet;
\* before, it relaxes and starts over.
Decide(t, past) ==
  IF ~past THEN Goto(t, "load") /\ See(t, Zero)
  ELSE IF has_incremented_wait[t] THEN Goto(t, "sleep") /\ UNCHANGED seen
  ELSE Goto(t, "count") /\ See(t, Zero)

\* get_and_set_wait_start_time() answers the whole word, lock byte and count
\* included, or the global threshold if the word is zero.
Measure(t) ==
  /\ pc[t] = "measure"
  /\ IF flag = Zero THEN Goto(t, "global") /\ UNCHANGED seen
     ELSE Decide(t, ~flag.lock /\ flag.wait_count = 0 /\ flag.wait_start \in Short)
  /\ UNCHANGED <<flag, global_short, has_incremented_wait>>

MeasureGlobal(t) ==
  /\ pc[t] = "global"
  /\ Decide(t, global_short)
  /\ UNCHANGED <<flag, global_short, has_incremented_wait>>

\* Mutant: the waiter does not count itself.
CountNobody(t) ==
  /\ pc[t] = "count"
  /\ See(t, flag)
  /\ has_incremented_wait' = [has_incremented_wait EXCEPT ![t] = TRUE]
  /\ Goto(t, "sleep")
  /\ UNCHANGED <<flag, global_short>>

\* old_val is what the compare-exchange compared: the word before the increment.
Count(t) ==
  /\ pc[t] = "count"
  /\ See(t, flag)
  /\ flag' = [flag EXCEPT !.wait_count = (@ + 1) % CountMod]
  /\ has_incremented_wait' = [has_incremented_wait EXCEPT ![t] = TRUE]
  /\ Goto(t, "sleep")
  /\ UNCHANGED global_short

\* flag_.wait(old_val) compares and sleeps in one step, or returns.
Sleep(t) ==
  /\ pc[t] = "sleep"
  /\ IF flag = seen[t] THEN Goto(t, "asleep") /\ UNCHANGED seen
                       ELSE Goto(t, "load") /\ See(t, Zero)
  /\ UNCHANGED <<flag, global_short, has_incremented_wait>>

-----------------------------------------------------------------------------
(* unlock(), and the two setters of the threshold.                         *)

\* Mutant: unlock() stores a fresh word.
UnlockClears(t) ==
  /\ pc[t] = "held"
  /\ flag' = [flag EXCEPT !.lock = FALSE, !.wait_count = 0]
  /\ Goto(t, IF flag.wait_count > 0 THEN "notify" ELSE "idle")
  /\ UNCHANGED <<global_short, seen, has_incremented_wait>>

Unlock(t) ==
  /\ pc[t] = "held"
  /\ flag' = [flag EXCEPT !.lock = FALSE]
  /\ Goto(t, IF flag.wait_count > 0 THEN "notify" ELSE "idle")
  /\ UNCHANGED <<global_short, seen, has_incremented_wait>>

\* flag_.notify_one(): one sleeper, if there is one, evaluates its wait again.
Notify(t) ==
  /\ pc[t] = "notify"
  /\ \/ At("asleep") = {} /\ Goto(t, "idle")
     \/ \E u \in At("asleep") : pc' = [pc EXCEPT ![t] = "idle", ![u] = "sleep"]
  /\ UNCHANGED <<flag, global_short, seen, has_incremented_wait>>

\* get_and_set_wait_start_time(ns): the old bits are cleared, then the new ones set.
ClearStart(t) ==
  /\ pc[t] = "idle"
  /\ flag' = [flag EXCEPT !.wait_start = {}]
  /\ Goto(t, "set")
  /\ UNCHANGED <<global_short, seen, has_incremented_wait>>

SetStart(t) ==
  /\ pc[t] = "set"
  /\ \E s \in SUBSET Bits : flag' = [flag EXCEPT !.wait_start = @ \cup s]
  /\ Goto(t, "idle")
  /\ UNCHANGED <<global_short, seen, has_incremented_wait>>

SetGlobal(t) ==
  /\ pc[t] = "idle"
  /\ global_short' \in BOOLEAN
  /\ UNCHANGED <<flag, pc, seen, has_incremented_wait>>

-----------------------------------------------------------------------------
Locking(t) ==
  \/ TryLoad(t) \/ TryCas(t) \/ TryCasFails(t) \/ Load(t) \/ Cas(t) \/ CasFails(t)
  \/ Measure(t) \/ MeasureGlobal(t) \/ Count(t) \/ Sleep(t)

Unlocking(t) == Unlock(t) \/ Notify(t)

Setting(t) == ClearStart(t) \/ SetStart(t) \/ SetGlobal(t)

Next == \E t \in Threads : Lock(t) \/ Locking(t) \/ Unlocking(t) \/ Setting(t)

Spec == Init /\ [][Next]_vars

-----------------------------------------------------------------------------
(* Properties.                                                             *)

\* The lock byte is set exactly while one thread holds the lock, though waiters and
\* setters write the same word.
LockIsExact ==
  /\ \A t, u \in At("held") : t = u
  /\ flag.lock <=> At("held") # {}

\* The count in the word is the number of threads that have joined it and not taken
\* the lock since; with fewer threads than it can count it never wraps.
CountIsExact ==
  flag.wait_count = Cardinality({t \in Threads : has_incremented_wait[t]})

\* A thread sleeps on a free lock, and nobody is awake to take the lock or to wake it.
Forgotten == ~flag.lock /\ At("asleep") # {} /\ In(Trying \cup (Slow \ {"asleep"}) \cup {"notify"}) = {}

\* That happens only if some thread went to sleep on a word that said the lock was
\* free: the increment of the count made its old_val stale.
ForgottenIsStale == Forgotten => \E t \in At("asleep") : ~seen[t].lock

\* "At this point old_val holds the latest count" (line 85): a thread sleeps on a word
\* that it has checked, so it cannot be left asleep on a free lock.
FreeLockIsRemembered == ~Forgotten

=============================================================================
