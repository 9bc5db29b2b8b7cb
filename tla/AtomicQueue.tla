---------------------------- MODULE AtomicQueue ----------------------------
(***************************************************************************)
(* chenc::atomic_queue<T> (thread/atomic_queue.hpp): a growing ring of     *)
(* slots shared by any number of pushing and popping threads.              *)
(*                                                                         *)
(* One action is one access to shared memory, so threads interleave at     *)
(* every load, store and compare-exchange.  Three groups of accesses are   *)
(* one action: the loads of capacity_, a position and kmap_ (capacity_ and *)
(* kmap_ cannot change under a thread that has been counted in, which      *)
(* NoStaleMap states), a pop's move-out and destroy of an object it owns,  *)
(* and the migration, which runs alone (QuiescentResize states that).      *)
(*                                                                         *)
(* Positions are 64-bit counters in the code and Nat here: 2^63 pushes are *)
(* out of reach, so (i64)(seq - pos) < 0 is seq < pos.                     *)
(***************************************************************************)
EXTENDS Integers, FiniteSets

CONSTANTS Pushers,       \* threads that call push()
          Poppers,       \* threads that call pop()
          Sizers,        \* threads that call size()
          InitialCapa,   \* argument of the constructor
          MaxPushes,     \* bound: calls of push() in a behaviour
          AllocMayFail   \* may new Node[] throw std::bad_alloc?

Threads == Pushers \cup Poppers \cup Sizers

Divides(d, n) == n % d = 0
IsPowerOfTwo(n) == n > 0 /\ \A d \in 2..n : Divides(d, n) => Divides(2, d)

\* std::bit_ceil: the only power of two in n .. 2n - 1.
BitCeil(n) == IF n = 0 THEN 1 ELSE CHOOSE p \in n..(2 * n - 1) : IsPowerOfTwo(p)

ASSUME ThreadsAssumption == IsFiniteSet(Threads)
ASSUME BoundAssumption == MaxPushes \in Nat /\ AllocMayFail \in BOOLEAN
ASSUME CapaAssumption == InitialCapa \in Nat

Items == 1..MaxPushes    \* the i-th call of push() carries item i
Raw == 0                 \* bytes that hold no object; also std::nullopt

VARIABLES
  kmap,      \* identity of the current array: one number per allocation
  seq,       \* sequence_ of every slot of the current array
  data,      \* the object in every slot of the current array, or Raw
  stat,      \* stat_
  head,      \* head_pos_
  tail,      \* tail_pos_
  capacity,  \* capacity_
  active,    \* active_threads_
  pc,        \* the next access of each thread
  op,        \* the operation each thread is in
  pos, capa, map,  \* local variables of push() and pop()
  item,      \* push: the argument; pop: the result
  pushes,    \* calls of push() so far
  alive      \* the destructor has not run

shared == <<kmap, seq, data, stat, head, tail, capacity, active>>
locals == <<op, pos, capa, map, item>>
vars == <<shared, locals, pc, pushes, alive>>

-----------------------------------------------------------------------------
(* Program points, named for what the thread does next.                    *)

Critical == {"load", "inspect", "claim", "access", "publish",
             "leave", "leave_empty", "leave_full", "leave_retry"}
Counted == Critical \cup {"recheck", "backoff"}    \* included in active_threads_
Holding == {"inspect", "claim", "access", "publish"} \* uses its node pointer
Owning == {"quiesce", "migrate", "reopen"}         \* has set stat_ = resizing
Labels == Counted \cup Owning \cup
          {"idle", "check", "wait", "asleep", "enter", "grow", "notify", "size_head"}

At(l) == {t \in Threads : pc[t] = l}
In(L) == {t \in Threads : pc[t] \in L}
Goto(t, l) == pc' = [pc EXCEPT ![t] = l]
Slot(t) == pos[t] % capa[t]

TypeOK ==
  /\ kmap \in Nat /\ capacity \in Nat \ {0} /\ IsPowerOfTwo(capacity)
  /\ seq \in [0..(capacity - 1) -> Nat]
  /\ data \in [0..(capacity - 1) -> Items \cup {Raw}]
  /\ stat \in {"normal", "resizing"}
  /\ head \in Nat /\ tail \in Nat /\ active \in Nat
  /\ pc \in [Threads -> Labels]
  /\ op \in [Threads -> {"none", "push", "pop", "size"}]
  /\ pos \in [Threads -> Nat] /\ capa \in [Threads -> Nat] /\ map \in [Threads -> Nat]
  /\ item \in [Threads -> Items \cup {Raw}]
  /\ pushes \in 0..MaxPushes
  /\ alive \in BOOLEAN

Init ==
  /\ kmap = 1 /\ capacity = BitCeil(InitialCapa)
  /\ seq = [i \in 0..(capacity - 1) |-> i]
  /\ data = [i \in 0..(capacity - 1) |-> Raw]
  /\ stat = "normal" /\ head = 0 /\ tail = 0 /\ active = 0
  /\ pc = [t \in Threads |-> "idle"] /\ op = [t \in Threads |-> "none"]
  /\ pos = [t \in Threads |-> 0] /\ capa = [t \in Threads |-> 0]
  /\ map = [t \in Threads |-> 0]
  /\ item = [t \in Threads |-> Raw]
  /\ pushes = 0 /\ alive = TRUE

-----------------------------------------------------------------------------
(* Calls.                                                                  *)

StartPush(t) ==
  /\ alive /\ t \in Pushers /\ pc[t] = "idle" /\ pushes < MaxPushes
  /\ pushes' = pushes + 1
  /\ op' = [op EXCEPT ![t] = "push"]
  /\ item' = [item EXCEPT ![t] = pushes + 1]
  /\ Goto(t, "check")
  /\ UNCHANGED <<shared, pos, capa, map, alive>>

StartPop(t) ==
  /\ alive /\ t \in Poppers /\ pc[t] = "idle"
  /\ op' = [op EXCEPT ![t] = "pop"]
  /\ Goto(t, "check")
  /\ UNCHANGED <<shared, pos, capa, map, item, pushes, alive>>

\* The locals of a call die when it returns.
Forget(t) ==
  /\ op' = [op EXCEPT ![t] = "none"]
  /\ item' = [item EXCEPT ![t] = Raw]
  /\ pos' = [pos EXCEPT ![t] = 0]
  /\ capa' = [capa EXCEPT ![t] = 0]
  /\ map' = [map EXCEPT ![t] = 0]

-----------------------------------------------------------------------------
(* The prologue push() and pop() share: stay out of a running resize, and  *)
(* be counted before touching the array.                                   *)

Check(t) ==
  /\ pc[t] = "check"
  /\ Goto(t, IF stat = "resizing" THEN "wait" ELSE "enter")
  /\ UNCHANGED <<shared, locals, pushes, alive>>

\* stat_.wait(resizing): compares and goes to sleep in one step, or returns.
Wait(t) ==
  /\ pc[t] = "wait"
  /\ Goto(t, IF stat = "resizing" THEN "asleep" ELSE "check")
  /\ UNCHANGED <<shared, locals, pushes, alive>>

Enter(t) ==
  /\ pc[t] = "enter"
  /\ active' = active + 1
  /\ Goto(t, "recheck")
  /\ UNCHANGED <<kmap, seq, data, stat, head, tail, capacity, locals, pushes, alive>>

\* Mutant: no double check after the fetch_add.
RecheckNothing(t) ==
  /\ pc[t] = "recheck"
  /\ Goto(t, "load")
  /\ UNCHANGED <<shared, locals, pushes, alive>>

Recheck(t) ==
  /\ pc[t] = "recheck"
  /\ Goto(t, IF stat = "resizing" THEN "backoff" ELSE "load")
  /\ UNCHANGED <<shared, locals, pushes, alive>>

\* Mutant: the double check leaves without its fetch_sub.
BackOffUncounted(t) ==
  /\ pc[t] = "backoff"
  /\ Goto(t, "check")
  /\ UNCHANGED <<shared, locals, pushes, alive>>

BackOff(t) ==
  /\ pc[t] = "backoff"
  /\ active' = active - 1
  /\ Goto(t, "check")
  /\ UNCHANGED <<kmap, seq, data, stat, head, tail, capacity, locals, pushes, alive>>

-----------------------------------------------------------------------------
(* One attempt inside the counted region.                                  *)

Load(t) ==
  /\ pc[t] = "load"
  /\ capa' = [capa EXCEPT ![t] = capacity]
  /\ pos' = [pos EXCEPT ![t] = IF op[t] = "push" THEN tail ELSE head]
  /\ map' = [map EXCEPT ![t] = kmap]
  /\ Goto(t, "inspect")
  /\ UNCHANGED <<shared, op, item, pushes, alive>>

\* Mutant: a pop accepts a slot that has not been published.
WantedUnpublished(t) == pos[t]

\* The sequence that lets this operation claim its position.
Wanted(t) == IF op[t] = "push" THEN pos[t] ELSE pos[t] + 1

\* Loads sequence_ of the slot and branches on it.
Inspect(t) ==
  /\ pc[t] = "inspect"
  /\ \/ seq[Slot(t)] = Wanted(t) /\ Goto(t, "claim")
     \/ seq[Slot(t)] < Wanted(t)
        /\ Goto(t, IF op[t] = "push" THEN "leave_full" ELSE "leave_empty")
     \/ seq[Slot(t)] > Wanted(t) /\ Goto(t, "leave_retry")
  /\ UNCHANGED <<shared, locals, pushes, alive>>

\* Mutant: fetch_add in place of the compare-exchange.
ClaimBlindly(t) ==
  /\ pc[t] = "claim"
  /\ \/ op[t] = "push" /\ tail' = tail + 1 /\ head' = head
     \/ op[t] = "pop" /\ head' = head + 1 /\ tail' = tail
  /\ Goto(t, "access")
  /\ UNCHANGED <<kmap, seq, data, stat, capacity, active, locals, pushes, alive>>

\* The compare-exchange on tail_pos_ or head_pos_ succeeds.
Claim(t) ==
  /\ pc[t] = "claim"
  /\ \/ op[t] = "push" /\ tail = pos[t] /\ tail' = tail + 1 /\ head' = head
     \/ op[t] = "pop" /\ head = pos[t] /\ head' = head + 1 /\ tail' = tail
  /\ Goto(t, "access")
  /\ UNCHANGED <<kmap, seq, data, stat, capacity, active, locals, pushes, alive>>

\* It fails: the position moved, or compare_exchange_weak fails spuriously.
ClaimFails(t) ==
  /\ pc[t] = "claim"
  /\ Goto(t, "leave_retry")
  /\ UNCHANGED <<shared, locals, pushes, alive>>

\* push(): placement new.
Construct(t) ==
  /\ pc[t] = "access" /\ op[t] = "push"
  /\ data' = [data EXCEPT ![Slot(t)] = item[t]]
  /\ Goto(t, "publish")
  /\ UNCHANGED <<kmap, seq, stat, head, tail, capacity, active, locals, pushes, alive>>

\* pop(): move the object out and destroy it.
MoveOut(t) ==
  /\ pc[t] = "access" /\ op[t] = "pop"
  /\ item' = [item EXCEPT ![t] = data[Slot(t)]]
  /\ data' = [data EXCEPT ![Slot(t)] = Raw]
  /\ Goto(t, "publish")
  /\ UNCHANGED <<kmap, seq, stat, head, tail, capacity, active,
                 op, pos, capa, map, pushes, alive>>

\* A pushed slot is readable; a popped slot is writable in the next round.
Publish(t) ==
  /\ pc[t] = "publish"
  /\ seq' = [seq EXCEPT ![Slot(t)] =
               IF op[t] = "push" THEN pos[t] + 1 ELSE pos[t] + capa[t]]
  /\ Goto(t, "leave")
  /\ UNCHANGED <<kmap, data, stat, head, tail, capacity, active, locals, pushes, alive>>

\* The operation is done and returns.
Leave(t) ==
  /\ pc[t] \in {"leave", "leave_empty"}
  /\ active' = active - 1
  /\ Forget(t)
  /\ Goto(t, "idle")
  /\ UNCHANGED <<kmap, seq, data, stat, head, tail, capacity, pushes, alive>>

\* Another thread was faster: yield and start over.
LeaveRetry(t) ==
  /\ pc[t] = "leave_retry"
  /\ active' = active - 1
  /\ pos' = [pos EXCEPT ![t] = 0]
  /\ capa' = [capa EXCEPT ![t] = 0]
  /\ map' = [map EXCEPT ![t] = 0]
  /\ Goto(t, "check")
  /\ UNCHANGED <<kmap, seq, data, stat, head, tail, capacity, op, item, pushes, alive>>

\* Mutant: without `continue` the full branch runs into the retry branch.
LeaveFullTwice(t) ==
  /\ pc[t] = "leave_full"
  /\ active' = active - 1
  /\ Goto(t, "leave_retry")
  /\ UNCHANGED <<kmap, seq, data, stat, head, tail, capacity, locals, pushes, alive>>

\* The slot looks full: go and grow the ring to twice the capacity seen.
LeaveFull(t) ==
  /\ pc[t] = "leave_full"
  /\ active' = active - 1
  /\ pos' = [pos EXCEPT ![t] = 0]
  /\ map' = [map EXCEPT ![t] = 0]
  /\ Goto(t, "grow")
  /\ UNCHANGED <<kmap, seq, data, stat, head, tail, capacity, op, capa, item, pushes, alive>>

-----------------------------------------------------------------------------
(* reset_capa(capa * 2).                                                   *)

\* The compare-exchange on stat_; the loser returns to push().
StartResize(t) ==
  /\ pc[t] = "grow"
  /\ \/ stat = "normal" /\ stat' = "resizing" /\ Goto(t, "quiesce") /\ UNCHANGED capa
     \/ stat = "resizing" /\ UNCHANGED stat /\ Goto(t, "check")
        /\ capa' = [capa EXCEPT ![t] = 0]
  /\ UNCHANGED <<kmap, seq, data, head, tail, capacity, active,
                 op, pos, map, item, pushes, alive>>

\* Mutant: the resize does not wait for the threads inside.
QuiesceNot(t) ==
  /\ pc[t] = "quiesce"
  /\ Goto(t, "migrate")
  /\ UNCHANGED <<shared, locals, pushes, alive>>

\* The spin loop on active_threads_ ends.
Quiesce(t) ==
  /\ pc[t] = "quiesce" /\ active = 0
  /\ Goto(t, "migrate")
  /\ UNCHANGED <<shared, locals, pushes, alive>>

\* Positions that hold, or are about to hold, an item.
Window == head..(tail - 1)

\* The positions of the window that belong to slot i of an array of n slots.
Landing(i, n) == {p \in Window : p % n = i}

\* The last position before tail_pos_ that belongs to slot i of n; the migration
\* leaves its object there if it is in the window.
Youngest(i, n) == (tail - 1) - ((tail - 1 - i) % n)

\* A fresh slot is writable at its index, a migrated one readable.
NewSequence(i, n) ==
  IF Youngest(i, n) < head THEN i ELSE Youngest(i, n) + 1

\* Fresh array, moved objects, new kmap_ and capacity_.  When two positions
\* land in one slot the later object is constructed over the earlier one.
Migrate(t) ==
  /\ pc[t] = "migrate"
  /\ LET n == BitCeil(2 * capa[t]) IN
       /\ capacity' = n
       /\ seq' = [i \in 0..(n - 1) |-> NewSequence(i, n)]
       /\ data' = [i \in 0..(n - 1) |->
                    IF Youngest(i, n) < head THEN Raw ELSE data[Youngest(i, n) % capacity]]
  /\ kmap' = kmap + 1
  /\ capa' = [capa EXCEPT ![t] = 0]
  /\ Goto(t, "reopen")
  /\ UNCHANGED <<stat, head, tail, active, op, pos, map, item, pushes, alive>>

\* Mutant: the objects are destroyed before the allocation that may fail.
AllocFailsLate(t) ==
  /\ AllocMayFail /\ pc[t] = "migrate"
  /\ data' = [i \in DOMAIN data |-> Raw]
  /\ Forget(t)
  /\ Goto(t, "idle")
  /\ UNCHANGED <<kmap, seq, stat, head, tail, capacity, active, pushes, alive>>

\* new Node[] throws out of reset_capa() and push().
AllocFails(t) ==
  /\ AllocMayFail /\ pc[t] = "migrate"
  /\ Forget(t)
  /\ Goto(t, "idle")
  /\ UNCHANGED <<shared, pushes, alive>>

Reopen(t) ==
  /\ pc[t] = "reopen"
  /\ stat' = "normal"
  /\ Goto(t, "notify")
  /\ UNCHANGED <<kmap, seq, data, head, tail, capacity, active, locals, pushes, alive>>

\* Mutant: notify_one in place of notify_all.
NotifyOne(t) ==
  /\ pc[t] = "notify"
  /\ \/ At("asleep") = {} /\ Goto(t, "check")
     \/ \E u \in At("asleep") : pc' = [pc EXCEPT ![t] = "check", ![u] = "wait"]
  /\ UNCHANGED <<shared, locals, pushes, alive>>

\* stat_.notify_all(): every sleeper evaluates its wait again.
Notify(t) ==
  /\ pc[t] = "notify"
  /\ pc' = [u \in Threads |-> IF u = t THEN "check"
                              ELSE IF pc[u] = "asleep" THEN "wait" ELSE pc[u]]
  /\ UNCHANGED <<shared, locals, pushes, alive>>

-----------------------------------------------------------------------------
(* size() and the destructor.                                              *)

SizeTail(t) ==
  /\ alive /\ t \in Sizers /\ pc[t] = "idle"
  /\ op' = [op EXCEPT ![t] = "size"]
  /\ pos' = [pos EXCEPT ![t] = tail]
  /\ Goto(t, "size_head")
  /\ UNCHANGED <<shared, capa, map, item, pushes, alive>>

\* Mutant: the unsigned difference without its guard (2^16 for 2^64).
SizeAnswerWraps(t) == (pos[t] - head) % 65536

\* What size() answers if it loads head_pos_ now.
SizeAnswer(t) == IF pos[t] > head THEN pos[t] - head ELSE 0

SizeHead(t) ==
  /\ pc[t] = "size_head"
  /\ Forget(t)
  /\ Goto(t, "idle")
  /\ UNCHANGED <<shared, pushes, alive>>

\* Mutant: the destructor forgets to mask the position.
DestroyUnmasked ==
  /\ alive /\ \A t \in Threads : pc[t] = "idle"
  /\ alive' = FALSE
  /\ data' = [i \in DOMAIN data |-> IF i \in Window THEN Raw ELSE data[i]]
  /\ UNCHANGED <<kmap, seq, stat, head, tail, capacity, active, locals, pc, pushes>>

\* The owner destroys the queue when no call is under way.
Destroy ==
  /\ alive /\ \A t \in Threads : pc[t] = "idle"
  /\ alive' = FALSE
  /\ data' = [i \in DOMAIN data |-> IF Landing(i, capacity) = {} THEN data[i] ELSE Raw]
  /\ UNCHANGED <<kmap, seq, stat, head, tail, capacity, active, locals, pc, pushes>>

Destroyed == ~alive /\ UNCHANGED vars

-----------------------------------------------------------------------------
Attempt(t) ==
  \/ Check(t) \/ Wait(t) \/ Enter(t) \/ Recheck(t) \/ BackOff(t)
  \/ Load(t) \/ Inspect(t) \/ Claim(t) \/ Construct(t) \/ MoveOut(t)
  \/ Publish(t) \/ Leave(t) \/ LeaveRetry(t) \/ LeaveFull(t)

Resize(t) ==
  \/ StartResize(t) \/ Quiesce(t) \/ Migrate(t) \/ AllocFails(t)
  \/ Reopen(t) \/ Notify(t)

Call(t) == StartPush(t) \/ StartPop(t) \/ SizeTail(t)

Next == \/ \E t \in Threads : Call(t) \/ Attempt(t) \/ ClaimFails(t) \/ Resize(t) \/ SizeHead(t)
        \/ Destroy
        \/ Destroyed

Spec == Init /\ [][Next]_vars

\* Scheduling: a thread that can take a step eventually takes one, and an
\* attempt that could claim its position again and again is not failed for ever
\* (compare_exchange_weak may fail spuriously, but not always).  Nobody is
\* obliged to call an operation or to destroy the queue.
Fairness ==
  \A t \in Threads :
    /\ WF_vars(Attempt(t) \/ ClaimFails(t) \/ Resize(t) \/ SizeHead(t))
    /\ SF_vars(Claim(t))

LiveSpec == Spec /\ Fairness

\* The environment assumption under which no item is lost: reset_capa() never
\* installs an array smaller than what the queue holds.  The code does not check
\* it; it can fail when a thread is delayed between LeaveFull and StartResize
\* while others grow the ring twice (see MigrationKeepsItems).
MigrationFits == tail - head <= capacity'

FittingNext ==
  \/ \E t \in Threads :
       \/ Call(t) \/ Attempt(t) \/ ClaimFails(t) \/ SizeHead(t)
       \/ StartResize(t) \/ Quiesce(t) \/ AllocFails(t) \/ Reopen(t) \/ Notify(t)
       \/ Migrate(t) /\ MigrationFits
  \/ Destroy \/ Destroyed

FittingSpec == Init /\ [][FittingNext]_vars

-----------------------------------------------------------------------------
(* Properties.                                                             *)

\* The counter a resize waits for is exact: active_threads_ is the number of
\* threads between their fetch_add and their fetch_sub.
ActiveIsExact == active = Cardinality(In(Counted))

\* At most one thread resizes, stat_ is resizing as long as it does, and while
\* it moves the objects no thread is past the double check of push() or pop().
QuiescentResize ==
  /\ \A t, u \in In(Owning) : t = u
  /\ In(Owning) # {} => stat = "resizing"
  /\ In({"migrate", "reopen"}) # {} => In(Critical) = {}

\* A thread that uses the array pointer and the capacity it loaded uses the
\* current ones: `delete[] old_map` frees an array nobody can still reach.
NoStaleMap == \A t \in In(Holding) : map[t] = kmap /\ capa[t] = capacity

\* A push that claimed its position constructs into a slot without an object
\* ("sequence == pos: the slot is empty, the producer may write").
PushFindsEmptySlot ==
  \A t \in At("access") : op[t] = "push" => data[Slot(t)] = Raw

\* Between its claim and its publication a thread has its slot for itself: a
\* push constructs over no object, a pop moves out of one, and no two threads
\* that claimed (pushes or pops, in whatever round of the ring) share a slot.
SlotOwnership ==
  /\ PushFindsEmptySlot
  /\ \A t \in At("access") : op[t] = "pop" => data[Slot(t)] # Raw
  /\ \A t, u \in In({"access", "publish"}) : Slot(t) = Slot(u) => t = u

Pushing(p) == {t \in In({"access", "publish"}) : op[t] = "push" /\ pos[t] = p}
Popping(i) == {t \in At("access") : op[t] = "pop" /\ Slot(t) = i}

\* Every position between head_pos_ and tail_pos_ is either being filled by the
\* push that claimed it or holds a readable object, the ring has room for all of
\* them, and no object lies outside, except the one a pop is moving out.
WindowHoldsItems ==
  alive =>
    /\ tail - head \in 0..capacity
    /\ \A p \in Window :
         \/ Cardinality(Pushing(p)) = 1
         \/ data[p % capacity] # Raw /\ seq[p % capacity] = p + 1
    /\ \A i \in 0..(capacity - 1) :
         data[i] # Raw => Landing(i, capacity) # {} \/ Popping(i) # {}

\* The destructor leaves no object alive: every value pushed and not popped is
\* destroyed, even when the ring wrapped around or grew.
NothingLeaks == ~alive => \A i \in DOMAIN data : data[i] = Raw

\* size() never reports more than the queue holds when it loads head_pos_, however
\* many pops ran between its two loads.
SizeIsNoOverestimate == \A t \in At("size_head") : SizeAnswer(t) <= tail - head

\* reset_capa() loses nothing: every object of the old array is found at its
\* position in the new one ("move the objects of the old array to the new one").
MigrationKeepsItems ==
  [][kmap' # kmap =>
       \A p \in Window : data'[p % capacity'] = data[p % capacity]]_vars

\* Every call returns: no push or pop is starved, no resize waits for ever for
\* the threads it has to wait for, and no thread sleeps through notify_all().
CallsReturn == \A t \in Threads : pc[t] # "idle" ~> pc[t] = "idle"

-----------------------------------------------------------------------------
(* The ring implements the queue of TicketQueue.  A position is a place; it *)
(* is filled once its slot carries the sequence of a readable slot.        *)

ItemAt(p) ==
  LET writers == {t \in Pushing(p) : pc[t] = "access"} IN
    IF writers = {} THEN data[p % capacity] ELSE item[CHOOSE t \in writers : TRUE]

Places ==
  IF alive
  THEN [k \in 1..(tail - head) |->
          [item |-> ItemAt(head + k - 1),
           filled |-> seq[(head + k - 1) % capacity] = head + k]]
  ELSE << >>

Reply(t) ==
  IF op[t] # "pop" THEN -1
  ELSE IF pc[t] = "access" THEN data[Slot(t)]
  ELSE IF pc[t] \in {"publish", "leave"} THEN item[t]
  ELSE IF pc[t] = "leave_empty" THEN Raw
  ELSE -1

Tickets == INSTANCE TicketQueue
             WITH queue <- Places, reply <- [t \in Threads |-> Reply(t)]

\* Every step is a step of the abstract queue or invisible: items leave in the
\* order the pushes claimed their positions, each once, through any number of
\* resizes, and a pop answers std::nullopt only if, when it looked, the oldest
\* position was not filled.
FifoQueue == Tickets!Spec
=============================================================================
