------------------------------- MODULE Mutex -------------------------------
(***************************************************************************)
(* chenc::lock::mutex (thread/lock.hpp): a flag, a count of waiting        *)
(* threads, and atomic wait / notify_one on the flag.                      *)
(*                                                                         *)
(* One action is one access to shared memory.  Time is abstracted to what  *)
(* the code decides with it: whether the waiting threshold has passed.     *)
(***************************************************************************)
EXTENDS LockThreads

CONSTANT LoadMayPassStore   \* hardware with store buffers: unlock()'s relaxed load
                            \* of wait_count_ may be performed before its store

ASSUME LoadAssumption == LoadMayPassStore \in BOOLEAN

VARIABLES flag,        \* flag_
          wait_count,  \* wait_count_
          pc,
          late,        \* the thread has seen its waiting threshold pass
          added,       \* is_add_wait
          saw          \* the value of `wait_count_ > 0` in unlock()

vars == <<flag, wait_count, pc, late, added, saw>>

Trying == {"try", "retry", "spin"}               \* about to call try_lock()
Waiting == {"count", "test", "sleep", "asleep", "uncount"}
Holding == {"held", "store"}                     \* flag_ is theirs
Labels == {"idle", "load", "notify"} \cup Trying \cup Waiting \cup Holding

At(l) == {t \in Threads : pc[t] = l}
In(L) == {t \in Threads : pc[t] \in L}
Goto(t, l) == pc' = [pc EXCEPT ![t] = l]

TypeOK ==
  /\ flag \in BOOLEAN
  /\ wait_count \in 0..(CountMod - 1)
  /\ pc \in [Threads -> Labels]
  /\ late \in [Threads -> BOOLEAN]
  /\ added \in [Threads -> BOOLEAN]
  /\ saw \in [Threads -> BOOLEAN]

Init ==
  /\ flag = FALSE /\ wait_count = 0
  /\ pc = [t \in Threads |-> "idle"]
  /\ late = [t \in Threads |-> FALSE]
  /\ added = [t \in Threads |-> FALSE]
  /\ saw = [t \in Threads |-> FALSE]

-----------------------------------------------------------------------------
(* lock().                                                                 *)

Lock(t) ==
  /\ pc[t] = "idle"
  /\ Goto(t, "try")
  /\ UNCHANGED <<flag, wait_count, late, added, saw>>

\* Mutant: a load and a store in place of the compare-exchange.
AcquireUnchecked(t) ==
  /\ pc[t] \in Trying
  /\ flag' = TRUE
  /\ Goto(t, "held")
  /\ late' = [late EXCEPT ![t] = FALSE]
  /\ added' = [added EXCEPT ![t] = FALSE]
  /\ UNCHANGED <<wait_count, saw>>

\* try_lock() succeeds; the locals of lock() die.
Acquire(t) ==
  /\ pc[t] \in Trying /\ ~flag
  /\ flag' = TRUE
  /\ Goto(t, "held")
  /\ late' = [late EXCEPT ![t] = FALSE]
  /\ added' = [added EXCEPT ![t] = FALSE]
  /\ UNCHANGED <<wait_count, saw>>

\* try_lock() fails: called by itself it returns false.  In lock() the first retry may
\* already find start_sleep_ns_ exceeded and go to wait; in the slow loop the thread spins
\* until its threshold passes.
Fail(t) ==
  /\ pc[t] \in Trying /\ flag
  /\ \/ pc[t] = "try" /\ UNCHANGED late
        /\ \E l \in {"retry", "idle"} : Goto(t, l)
     \/ pc[t] = "retry" /\ pc' \in {[pc EXCEPT ![t] = l] : l \in {"spin", "count"}}
        /\ UNCHANGED late
     \/ pc[t] = "spin" /\ ~late[t] /\ UNCHANGED <<pc, late>>
     \/ pc[t] = "spin" /\ late' = [late EXCEPT ![t] = TRUE] /\ Goto(t, "count")
  /\ UNCHANGED <<flag, wait_count, added, saw>>

\* Mutant: the thread goes to sleep without counting itself.
CountNobody(t) ==
  /\ pc[t] = "count"
  /\ Goto(t, "test")
  /\ UNCHANGED <<flag, wait_count, late, added, saw>>

\* wait_count_ is incremented the first time only.
Count(t) ==
  /\ pc[t] = "count"
  /\ wait_count' = IF added[t] THEN wait_count ELSE (wait_count + 1) % CountMod
  /\ added' = [added EXCEPT ![t] = TRUE]
  /\ Goto(t, "test")
  /\ UNCHANGED <<flag, late, saw>>

Test(t) ==
  /\ pc[t] = "test"
  /\ Goto(t, IF flag THEN "sleep" ELSE "uncount")
  /\ UNCHANGED <<flag, wait_count, late, added, saw>>

\* flag_.wait(true) compares and goes to sleep in one step, or returns.
Sleep(t) ==
  /\ pc[t] = "sleep"
  /\ Goto(t, IF flag THEN "asleep" ELSE "test")
  /\ UNCHANGED <<flag, wait_count, late, added, saw>>

\* Mutant: a count that does not wrap.
UncountSigned(t) ==
  /\ pc[t] = "uncount"
  /\ wait_count' = wait_count - 1
  /\ Goto(t, "spin")
  /\ UNCHANGED <<flag, late, added, saw>>

\* wait_count_ is decremented every time; is_add_wait stays set.
Uncount(t) ==
  /\ pc[t] = "uncount"
  /\ wait_count' = (wait_count - 1) % CountMod
  /\ Goto(t, "spin")
  /\ UNCHANGED <<flag, late, added, saw>>

-----------------------------------------------------------------------------
(* unlock().                                                               *)

\* The store, with the load of wait_count_ still to come.
Release(t) ==
  /\ pc[t] = "held"
  /\ flag' = FALSE
  /\ Goto(t, "load")
  /\ UNCHANGED <<wait_count, late, added, saw>>

LoadCount(t) ==
  /\ pc[t] = "load"
  /\ Goto(t, IF wait_count > 0 THEN "notify" ELSE "idle")
  /\ UNCHANGED <<flag, wait_count, late, added, saw>>

\* The load is performed while the store is still in the store buffer.
EarlyLoad(t) ==
  /\ LoadMayPassStore /\ pc[t] = "held"
  /\ saw' = [saw EXCEPT ![t] = wait_count > 0]
  /\ Goto(t, "store")
  /\ UNCHANGED <<flag, wait_count, late, added>>

LateStore(t) ==
  /\ pc[t] = "store"
  /\ flag' = FALSE
  /\ saw' = [saw EXCEPT ![t] = FALSE]
  /\ Goto(t, IF saw[t] THEN "notify" ELSE "idle")
  /\ UNCHANGED <<wait_count, late, added>>

\* flag_.notify_one(): one sleeper, if there is one, evaluates its wait again.
Notify(t) ==
  /\ pc[t] = "notify"
  /\ \/ At("asleep") = {} /\ Goto(t, "idle")
     \/ \E u \in At("asleep") : pc' = [pc EXCEPT ![t] = "idle", ![u] = "sleep"]
  /\ UNCHANGED <<flag, wait_count, late, added, saw>>

-----------------------------------------------------------------------------
Step(t) == \/ Lock(t) \/ Acquire(t) \/ Fail(t) \/ Count(t) \/ Test(t) \/ Sleep(t)
           \/ Uncount(t) \/ Release(t) \/ LoadCount(t) \/ EarlyLoad(t)
           \/ LateStore(t) \/ Notify(t)

Next == \E t \in Threads : Step(t)

Spec == Init /\ [][Next]_vars

-----------------------------------------------------------------------------
(* Properties.                                                             *)

\* flag_ is set exactly while one thread is between its successful try_lock() and
\* the store of its unlock().
MutualExclusion ==
  /\ \A t, u \in In(Holding) : t = u
  /\ flag <=> In(Holding) # {}

\* "If there are waiters, notify": no thread sleeps on a free lock while nobody
\* is on the way to take it or to wake a sleeper.
FreeLockIsRemembered ==
  ~flag /\ At("asleep") # {} =>
    In({"load", "notify"} \cup Trying \cup (Waiting \ {"asleep"})) # {}
=============================================================================
