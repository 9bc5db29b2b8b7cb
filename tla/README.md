# TLA+ models and proofs of chenc

chenc is a header-only C++20 library: a growing lock-free queue, four locks built on
atomic `wait`/`notify`, conversion between UTF-8, UTF-16 and UTF-32, and integers of any
width. This directory holds TLA+ models of those parts, the TLC configurations that check
them on small instances, and proofs (TLAPS) of what matters most for every instance. All
paths below are relative to `src/include/chenc/`.

    tlc -workers 2 -config aq_fifo.cfg MCAtomicQueue      # one run
    tlapm AtomicQueueProofs.tla                           # one module's proofs

## 1. Inventory

| component | state | operations | what makes it hard |
|---|---|---|---|
| `atomic_queue<T>` (thread/atomic_queue.hpp) | `kmap_` (ring of nodes: `sequence_`, raw storage), `capacity_`, `head_pos_`, `tail_pos_`, `stat_`, `active_threads_` | `push`, `pop`, `size`, `reset_capa`, constructor, destructor | lock-free claims, a resize that replaces the array under running threads, waiting on `stat_` |
| `lock::mutex` (thread/lock.hpp:23) | `flag_`, `wait_count_` | `lock`, `try_lock`, `unlock` | lost wakeups, store before load, a counter that wraps |
| `lock::shared_mutex` (thread/lock.hpp:102) | `lock_state_` (locked, pending, readers), two wait counts, two signals | the same, and the `_shared` ones | blind store of the whole word, decisions from a count read earlier, writer preference |
| `rw_lock` (thread/olock.hpp:143) | `state_` (active and prepared counts), two wait words (count and version) | `lock`, `unlock` of a read and a write handle | registration and deregistration in a loop, wakeups that depend on the woken thread |
| `spin_lock` (thread/olock.hpp:13) | one word: lock byte, count of waiters, waiting threshold; a threshold shared by all locks | `try_lock`, `lock`, `unlock`, the setters of both thresholds | three fields that different threads change in one word, a thread that sleeps on a stale word |
| UTF conversion (convert/) | none but the call's | `char_to_utf32`, `utf32_to_char`, `str_to_str` | boundaries of every form, truncated input and output, a fast path for ASCII, two passes with different options |
| `array_uint` (struct/detail/array_big_int.hpp) | an array of words | construct, assign, compare, `+ - << >>` | operands of different lengths, shifts in place, unused top bits |
| `no_ailgn_int`, `more_int` (core/no_ailgn_int.hpp) | 1 to 8 bytes | every arithmetic and bitwise operator | fewer bytes kept than computed with; raw bytes for some operators, the sign-extended value for others |
| `vm` (vm/) | registers, memory | instruction handlers | does not compile yet |
| `date`, `utf_endian`, `thread_pool`, `co_lock`, `coroutines`, core/ | little or none | | see section 7 |

**Interactions.** The components do not call each other: the queue and the locks are used by
the caller's threads, which share the object and nothing else; inside a component, threads
meet at atomic variables and at `wait`/`notify`. The UTF converter is a loop over the two
functions that read and write one character. So no module has to compose two components;
what is composed is an implementation with the abstract specification it has to meet.

**What makes each correct.** The queue: items leave in the order their positions were
claimed, each once; a resize runs alone and loses nothing; the replaced array is not used
again; every call returns; nothing leaks. The locks: exclusion; a lock word that says who
holds the lock; nobody sleeps unless somebody is left who will wake him. The converter: a
counting pass predicts what conversion writes; strict conversion is reversible and its
output well formed; no write past the buffer. The integers: arithmetic modulo the width,
from whatever state earlier operations left.

## 2. Modules

| module | models | |
|---|---|---|
| `TicketQueue` | what the queue promises | abstract |
| `AtomicQueue` | the queue | implements `TicketQueue` |
| `AtomicQueueProofs` | the resize, the contents of the ring, and that it implements `TicketQueue` | TLAPS |
| `LockThreads` | the threads that use a lock, and the range of its counts | |
| `Mutex`, `SharedMutex`, `RwLock`, `SpinLock` | the four locks | |
| `MutexHistory` | `Mutex` with a history variable | |
| `MutexProofs`, `SharedMutexProofs`, `RwLockProofs`, `SpinLockProofs` | theorems about the locks | TLAPS |
| `Utf` | `str_to_str` and the character functions | |
| `UtfProofs` | theorems about single characters and whole conversions | TLAPS |
| `ModularInt`, `ModularWord` | what `array_uint`, and what `no_ailgn_int` and `more_int` promise | abstract |
| `BigUint`, `MoreInt` | these classes | implement the two |
| `Powers` | powers of two, `1 << n` | |
| `IntegerProofs` | theorems about both kinds of integers | TLAPS |
| `Induction` | lemmas: induction and recursion over the natural numbers | TLAPS |
| `MC...` | symmetry sets and input sets for TLC; `MCIntegers` runs both kinds of integers, `MCExclusiveLocks` and `MCSharedLocks` two locks each | |

In the concurrent modules **one action is one access to shared memory**: `pc[t]` names the
access thread `t` performs next, and local variables of the C++ function that outlive an
access are functions on threads. A local variable that is dead is reset, so that it does not
multiply states. Accesses are grouped into one action only where the group cannot be told
from its parts; the head of each module lists the groups. Memory is sequentially consistent
but for one place that matters, `LoadMayPassStore` in `Mutex`.

A definition under a comment that begins with "Mutant:" is not part of a model. It is a
plausible wrong version of the definition below it, and replacing the one by the other makes
a property fail: the properties are sensitive to the code.

### AtomicQueue

`kmap` is the identity of the array (a new number for each allocation), `seq` and `data` its
slots, and `stat`, `head`, `tail`, `capacity`, `active` the members of the same names. A call
of `push` or `pop` walks through `Check` / `Wait` (the wait on `stat_`, lines 74-80), `Enter`
(the `fetch_add`), `Recheck` / `BackOff` (the double check), `Load`, `Inspect`, `Claim` /
`ClaimFails`, `Construct` or `MoveOut`, `Publish`, `Leave`; `LeaveRetry` starts over,
`LeaveFull` goes on to `StartResize`, `Quiesce`, `Migrate`, `Reopen`, `Notify` (`reset_capa`).
`AllocFails` is a `new Node[]` that throws. Positions are natural numbers: 2^63 pushes are
out of reach. `Migrate` is one action because nobody else is inside, which `QuiescentResize`
states; the code walks positions upwards and constructs each in its slot, so of several that
land in one slot the last stays: `Youngest`.

`FifoQueue` is the refinement. A position is a *place* in the abstract queue, reserved by the
compare-exchange on `tail_pos_` and filled by the store to `sequence_`; a pop takes the
oldest place if it is filled, and may answer `std::nullopt` if it is not, though younger
places are filled: the comment in `pop` says so.

### Mutex, SharedMutex, RwLock, SpinLock

`lock` begins with the steps of `try_lock`, and in every module a thread whose `try_lock` fails
either goes on, which is `lock`, or returns, which is `try_lock` called by itself.
Time is abstracted to what the code decides with it: in `Mutex` and `SharedMutex` whether a
thread has passed its waiting threshold (`late`, `phase`), in `RwLock` a free choice between
spinning and waiting at every turn, since the setters may change the thresholds at any time.
`wait` compares and goes to sleep in one step; spurious returns
of the operating system's wait stay inside `std::atomic::wait` and are not visible. Signals and
versions are only ever compared with a value loaded before, so a thread keeps whether the
version it loaded is still current (`fresh`). That 2^32 signals pass between is not modelled.
`CountMod` is the modulus of the counts, 2^32 in `Mutex` and 2^16 in the others, the fields of
the word of `RwLock` included; fewer threads use a lock than a count can hold (`FewThreads`).
In `RwLock` the two compare-exchange loops that retry until they succeed, the one that
announces a thread and the one that releases the lock, are one update of the word each.
`unlock()` of a handle that has nothing to unlock returns at once (`UnlockUnheld`).

In `SpinLock` the word `flag_` is a record of its three fields. A threshold is the set of its
bits, because a setter clears the old bits in one access (`ClearStart`) and sets the new ones
in another (`SetStart`), so that two setters may mix their values. `now_sleep_ns` is the constant 1000 in
the code; a threshold is therefore only short (reached at once) or not. `Measure` compares it
with the *whole* word, as the code does, and `Count` keeps the word from before its own
increment, as `compare_exchange_weak` does on success. The padding byte of the word is zero.

### Utf

A string is a sequence of units, an action is one turn of the loop in `str_to_str`, and the
program is what `main` in utf_to_utf.hpp does: count what is needed with no buffer, then
convert. Character mode, error mode, output mode, performance mode and the buffer's size are
chosen freely; the second pass differs from the first in its output mode, as in `main`.
Units are unsigned and fit the width of their format; those of UTF-32 have at most 21 bits, what
the longest form of UTF-8 holds. `CopyBlock` is the fast path: a block of ASCII is copied at once when it
believes there is room.

### BigUint

One number and a sequence of calls on it; a call that returns a new number makes that one the
next. The algorithms work on word arrays as the code does, the shifts in place word by word in
the order of the loops, so that reading a word after it was overwritten would show. The words
have `WordBits` bits (64 in the code); the algorithms do not use the width for anything else.
A loop that hands something from word to word (a carry, a borrow, the array a shift is
rewriting) is a recursive function on the number of words done. An operand of a native type is a number
of one word; if the type is narrower than a word (`NativeWidths`), it is its width that counts
for that of the result. `<=>` reads the array of a shorter second operand past its end
unless a word that it lacks is not zero; `Compare` says what it answers where it does not.

### MoreInt

One number, unsigned or signed, and a sequence of calls on it. `storage` is the bytes that are
kept, `get_raw` and `get` what the two ways of reading them give in the wide type; a result is
truncated when it is stored. `ModularWord` states what each operator means on integers modulo
`2^Bits`, signed or not, without bytes.

## 3. What the runs check

| run | instance | states | shows |
|---|---|---|---|
| `aq_calls` | p1 pushes, p2 pushes and pops, c1 pops; ring of 2, 3 pushes | 134 k | type, exact `active_threads_`, a resize that runs alone, no stale array; every call returns |
| `aq_fifo` | two threads push, pop and ask for the size, 6 pushes, ring of 2, allocation may fail | 1.3 M | slots have one owner, the window holds the items, nothing leaks, `size()` never too high, refinement of `TicketQueue` |
| `aq_shrink` | two pushers, 6 pushes | violation | a delayed resize installs a smaller array |
| `exclusive_locks` | `mutex` or `spin_lock`; 3 threads for ever that also set thresholds of two bits, counts modulo 4, loads may pass stores | 146 k | `mutex`: type, exclusion, no lost wakeup before one of two named circumstances; `spin_lock`: type, exact lock byte and count, no lost wakeup but by one named circumstance |
| `shared_locks` | `rw_lock` with 2 writers and 2 readers, or `shared_mutex` with 1 writer and 2 readers; for ever, fair | 709 k | both: type, exact word and wait counts, readers cannot keep the writers out; `rw_lock`: no forgotten sleeper; `shared_mutex`: exclusion, pending bit, no forgotten reader, sleeping readers wake |
| `mutex_second_wait` | 2 threads | violation | a second wait in one call is uncounted |
| `smutex_forgotten_writer` | 2 writers | violation | a writer sleeps on a free lock |
| `spin_stale_count` | 3 threads, as in `exclusive_locks` | violation | a thread sleeps on a word that says the lock is free |
| `utf` | every pair of formats, two pieces out of 12 to 15 per format | 1.5 M | type, round trip, well-formed output; counting predicts conversion and nothing is written past the end, where the fast path keeps to the buffer |
| `utf_overflow` | the same | violation | the fast path writes past the end of a short buffer |
| `integers` | `array_uint`: words of 2 bits, widths 2 to 5, every number and operand; `no_ailgn_int` and `more_int`: 3 bits kept of 5 | 7.2 k | type of both, refinement of `ModularInt` by the calls that fit and of `ModularWord`, order |
| `integers_longer` | every call on an `array_uint`, fitting or not | violation | an addition loses the high words of the longer operand |

**Why the bounds are enough.** `aq_calls`: a ring of two overflows at the third push, so a
resize meets a push and a pop at every point of theirs, and one thread resizes while two
sleep. `aq_fifo`: six pushes on a ring of
two make it grow twice (2, 4, 8), wrap round, and
let a resize decided in one generation run in a later one; two threads in all roles give
every pair of concurrent calls, so pops and resizes overtake a `size()` between its two loads. The locks need two of a kind to compete and two readers to
share; three threads on the mutex let one sleep, one wait awake and one unlock, and
`CountMod` 4 leaves the count room for all of them and still shows the wrap below zero.
`shared_mutex` has one writer, because with two the forgotten writer refutes its liveness
properties; its safety properties are theorems for any number of both. `spin_lock`: a threshold
that is short, one that is not and a mixture of two need two bits; three threads let two
measure and count themselves while the third takes the lock and frees it.
`utf`: the pieces lie at both sides of every boundary between forms, with surrogates,
non-characters, over-long forms, bytes that start nothing and truncated characters; two of
them put any before any other; blocks have 4 bytes where the code has 8, so that a piece
is a block. `integers`: with words of two bits, widths 2 to 5 give one, two and three words,
filled and unfilled top words, and every shift distance including zero, a word, the width and
beyond; with three bits kept of five, sums, products and shifts leave the bytes kept, and
some the wide word; the numbers are enumerated completely.

**Two locks in one run.** The locks know nothing of each other. `MCExclusiveLocks` and
`MCSharedLocks` put two of them side by side, choose one at the start (`which`) and leave the
other as it was made, so the behaviours are those of the one and those of the other. The
second lock is an INSTANCE with variables of its own; what its module states is stated once
more in the MC module (`LockIsExact == Spin!LockIsExact`, and so on), and the theorems of
`SpinLockProofs` and `SharedMutexProofs` are about the definitions so named.

**Deadlock** is checked in every passing run but two: `aq_fifo`, where a failed allocation
leaves every thread asleep (section 5), and `utf`, which ends. In `exclusive_locks` a lost
wakeup can leave every thread asleep on a mutex; `AllAsleep` lets that state be the last, and
only that one.

**Restricted specifications.** Two runs check properties under a specification that removes
steps the code can take, because the code is wrong there and a violation run says so.
`FittingSpec` of `AtomicQueue` leaves out a migration into an array smaller than the contents
(`aq_shrink`). `FittingNext` of `BigUint` leaves out the additions and subtractions that lose
words: those in which the longer operand has, within the width of the result, a word beyond
the shorter one that is not zero (`SumFits`; `DifferenceFits` asks it of the second operand
only, as the words that only the first has are subtracted from correctly). Adding a small number to a number of several words whose high words
are zero is inside, `++` of a number with a high word that is not is outside
(`integers_longer`). All else is checked under the full `Spec`.

Other exceptions are part of a property, which says exactly when it promises nothing.
`CountPredicts` of `Utf` holds for every mode and buffer on the slow path; of the fast path it
speaks where that keeps to the buffer (`FastPathFits`: the output's format is no wider than the
input's, or the buffer is as large as was counted). `WritesStayInside` bounds what the fast
path writes too far elsewhere by the difference of a block of input and a block of output;
`utf_overflow` shows that it does. `OrderIsNumeric` speaks of `<=>` where it reads inside the
second operand. `WakeupsAreKept` of `MutexHistory` speaks until something has lapsed: the
history variable `lapsed`, which removes no step, remembers that a thread has waited twice in
one call (`SecondWait`) or that an unlock's early load has missed a waiter (`MissedWaiter`).
`ForgottenIsStale` of `SpinLock` needs no history: its exception is a thread asleep on a word
that says the lock is free.

**Fairness.** `AtomicQueue`: weak fairness for each thread says that the operating system
schedules a thread that can go on; a thread asleep cannot. Strong fairness of `Claim` says
that a claim whose turn comes again and again succeeds once: `compare_exchange_weak` may fail
spuriously, but not always, and with finitely many pushes other threads stop taking the
position away. The code does not promise more: `push` is lock-free, not wait-free, and
`CallsReturn` is about finitely many pushes and pops competing for their items. Nobody has to
call anything. `SharedMutex` and `RwLock`: weak fairness for each thread, and a holder unlocks
some day, which is the contract of any lock. `MCSharedLocks` states the same in terms of
the labels (`MCFairness`), which TLC checks in half the time: in both modules a thread that is
neither idle nor asleep can always take a step, each of its steps changes its label, others
change its label only to wake it, and idle or asleep it has no step under fairness; so weak
fairness holds just when a thread rests again and again or its label changes for ever. In `RwLock` the property is that *some* writer
gets in: the writers announced shut the readers out, but they compete by compare-exchange, and
nothing in the code keeps one of them from losing every time.

## 4. What is proved

Every safety property of the passing runs is a theorem. The theorems hold for any set of
threads, any number of pushes, any initial capacity, any `CountMod`, with or without
reordering, any input text, any size of words and any number of bits kept of a word of any
size. They assume that the threads of the queue are finitely many (`ThreadsAssumption`), those
of a lock fewer than its counts can hold (`FewThreads`, `CountAssumption`), and that among
the widths of integers one is the largest and one is that of a word (`WidthsAssumption`). They are theorems of the full
`Spec`, except for those about the contents of the ring and `IntegerActsAsModularInt`, which
are about `FittingSpec`; some properties name exceptions of their own (section 3 says what
is left out and why).

**AtomicQueueProofs.** `TypeCorrect`, `ActiveCorrect`, `ResizeIsQuiescent`, `NoUseAfterFree`.
None of the last three is inductive alone. That the array a thread loaded is the current one
(`NoStaleMap`) needs that nobody migrates while a thread is inside, which needs that the
resizing thread saw `active_threads_` at zero *after* it set `stat_`, which says something
about the threads inside only if the counter is exact, and afterwards only because a thread
that enters the count now runs into the double check. So
`IInv == TypeOK /\ ActiveIsExact /\ QuiescentResize /\ NoStaleMap /\ CapaLoaded`, where
`CapaLoaded` says that a thread on the way into `reset_capa` carries a capacity it did load,
so that `bit_ceil` of its double is a power of two. Lemmas: the counter moves by one with the
set it counts; `bit_ceil` exists for every number and is its least power of two from there on
(`BitCeilIs`, by induction); one step lemma per conjunct. Assumptions: `ThreadsAssumption`,
`BoundAssumption` and `CapaAssumption`, which only says that the constructor's argument is a
natural number.

*The contents of the ring.* `SlotsAreOwned`, `WindowIsHeld`, `NothingLeft`, `SizeIsBounded`:
what the ring holds, for a ring of two slots or more (`InitialCapa >= 2`; with one slot it is
false, section 5).
The invariant `RInv` looks at the ring by positions instead of slots. `WindowFits`: a position
between head and tail is readable, or belongs to the push that is filling it. `RoomFits`: a
position of the next round is writable, or the pop of one round earlier is still using the
slot. `PushersFit`, `PoppersFit` and `Distinct` say that a thread that claimed a position finds
its slot as it left it, and `Claimable` that what a thread saw before its compare-exchange is
still so if the compare-exchange can succeed: this is what makes a stalled claim harmless.
Positions of one window lie in different slots (`Residue`, `Division`), so a step at one
position leaves the others alone; the resize, alone by `IInv`, is a lemma of its own. After
destruction `RInv` is `Gone`: no object is left.

*The refinement.* `RingIsFifo`: `FittingSpec` implements `TicketQueue`, the theorem for the property
`FifoQueue`. A push's `Claim` maps to `Reserve` and its `Publish` to `Fill`, a pop's `Claim` to
`Take`, the `Inspect` that finds the slot unfilled to `FindEmpty`, `Leave` to `Return`, `Destroy`
to `Discard`; every other step stutters, the migration included. Two things are needed beyond
`RInv` (`FInv`): no item is in two places (`ItemsDiffer`), and a slot whose position was popped
never again looks unfilled to a pop that had loaded that position (`Passed`), for otherwise a
pop could answer `std::nullopt` after the oldest place had been filled.

**MutexProofs.** `TypeCorrect`, `MutexIsExclusive`: the flag is set exactly while one thread is
between its `try_lock` and the store of its `unlock`; with `TypeOK` this is inductive.
`WakeupsKept`, under `HistorySpec`: as long as nothing lapsed, `wait_count_` is the number of
threads that have added themselves, and if the lock is free while a thread sleeps then
somebody is on the way to take it or has yet to look at the count.

**SharedMutexProofs.** `TypeCorrect`, `SharedMutexIsExclusive`, `LockStateIsExact`. The three
are proved together: that the count of readers never falls below zero is a type statement
that needs the exact word, exclusion needs the exact word (a writer enters when it says
nobody holds the lock), and the exact word needs exclusion (the store in `unlock` writes zero
for the readers, which is right because there are none). `HolderStep` sorts the steps into the
four ways in which the sets of holders can change. On them rest `RegistrationsBalance` (both
wait counts), `PendingNeverLeftBehind` and `ReadersAreRemembered`.

**RwLockProofs.** `TypeCorrect`, `RwLockIsExclusive`, `RegistrationsBalance`. The word is
exact because every entry, announcement and release moves the thread and the field together
(`MovingStep` sorts the steps into five cases); a writer is alone because the word it compares
was found to allow the entry when it was loaded (`SeenAllows`), and the compare-exchange
succeeds only if the word is the same. The wait counts need to know where a thread is
registered (`IsWaitFits`). That no count wraps follows from their exactness, as there are
fewer threads than `CountMod` (`Counting`). A holder finds itself in the word, so the early
return of `unlock` is only taken by a handle that holds nothing (`UnheldIsIdle`).
`SleepersAreRemembered` adds what a thread on its way to sleep knows of the version it loaded.
Assumption: a thread stands for one handle, which reads or writes (`KindsAssumption`).

**SpinLockProofs.** `TypeCorrect`, `SpinLockIsExclusive`, `CountBalances`, `WakeupsKept` (for
`ForgottenIsStale`): waiters, holders and setters change one word and lose none of each other's updates, and a thread is
left asleep on a free lock only if one went to sleep on a word that said so.

**UtfProofs.** Single characters first. `DecodeInvertsEncode`: what is written for a scalar value
is read as that value, in every format and mode, wherever it stands and whatever follows.
`EncodeInvertsDecode`: in strict mode nothing else is accepted; what is read without an error
stands in the input as it would be written. Both go through the bits of each form.

Then whole conversions. `CountIsRight` relates two passes that take different steps, because
the fast path is off when there is no buffer. The invariant `UInv` keeps a log of the counting
pass: the set of positions at which it looked at a character and its result at each. While the
second pass runs, it stands at one of these positions with a result that agrees with the one
logged there (`Follows`). A block of ASCII skips positions of the log; that its units were
counted one by one is shown by doubling (runs of 1, 2, 4 and 8). Where the fast path does not
keep to the buffer the two passes need not agree, and only the bound on the output is kept: a
block is copied while a block of output still fits, so `NoWriteOutside` bounds the overstep by
the difference of the two. `TypeCorrect` follows. `OutputWellFormed`: at every moment of a strict conversion the output
splits into whole scalar values. `NothingLost`: when one ends without an error, input and
output split into the same scalar values, in the same order. That a text splits in this way
is said there by the set of positions at which it does, and a join lemma extends it by a
character. `OutputIsRead` and `ConvertsBack` carry this over to the properties as the run
checks them: that the recursive `Reading` exists and steps through these very positions
(`ReadingIs`, `ReadingSpells`), and that joining the forms of what was read gives the input
(`SpellsJoined`) are inductions over the text. Assumptions: `InputsAssumption` (units fit their
format) and `BlockAssumption` (a block has 4 or 8 bytes).

**IntegerProofs.** `IntegerTypeCorrect`, `IntegerOrder` (full `Spec`), `IntegerActsAsModularInt`
(`FittingSpec`): an `array_uint` is always a number of its width, compares as the integer it
stands for wherever `<=>` reads inside its operands, and computes modulo its width, for words of any size and any set of widths. An
array of words is worth the sum of word times weight (`Value`); each loop has an invariant
over the words done, proved by induction. Of `AddTo`: the words written and the carry are
worth the sum of the words read. Of `SubTo`: the same with a borrow, and the words past the
end make a result below zero the right one modulo the width. A shorter operand is as good as
one filled up with zeros if the words it lacks are not needed (`FittingSum`,
`FittingDifference`). Of the shifts in place: the words
written are those of the shift and the words yet to be read are still the old ones, which is
why the direction of the loop is right. `Sanitize` takes the whole number modulo `2^bits`, as
the words below the last are worth less than its weight. Comparison: the highest word that
differs outweighs all below it.

`WordTypeCorrect`, `WordActsAsModularWord` (`M!Spec`): every operator of `no_ailgn_int` and
`more_int` answers the exact result modulo the width, for any number of bits kept of a wide
word of any size (`KeptAssumption`). Raw bytes, the extended value and the exact result are
the same modulo `2^Bits`, and sums, products and left shifts respect that; the bitwise
operators are compared bit by bit; operators that do not respect it (division, right shifts,
comparison) are shown to be given the value, not the bytes. `RunsAreBoth` says that the run's
specification implies the three that the theorems are about.

**Induction.** Lemmas that the others rest on. The library states induction for an operator, which the provers cannot
instantiate. `NaturalInduction` states it for a *set* of numbers, and rests on the library's
theorem that `<` on the naturals has no infinite descent. `BoundedRecursion`, `RunByStep` and
`Recursion` say the same of definitions: a function that gives what follows each value
determines a run, and a function that satisfies a recursive equation is that run. A function
`f[i \in S] == ...` of the models is a `CHOOSE`; only with these can a proof use its equation.

**Only model-checked:** the four liveness properties (`CallsReturn`, `WriterGetsLock`,
`ReaderWakes`, `WriterGetsIn`) and the absence of deadlock, which are out of the prover's reach,
like ENABLED on which fairness rests.

## 5. Where the code does not do what it says

Shown by a violation run:

* `aq_shrink`, thread/atomic_queue.hpp:111. `capa * 2` is computed from the capacity a push
  loaded; if others grow the ring twice before it wins the compare-exchange, it installs a
  smaller array and items are overwritten.
* `mutex_second_wait`, thread/lock.hpp:65. A thread counts itself once per call but discounts
  itself after every wait.
* `smutex_forgotten_writer`, thread/lock.hpp:191. `unlock` reads the count of waiting writers
  before the store and the barrier, and a writer that registers in between is forgotten.
* `spin_stale_count`, thread/olock.hpp:85. After the compare-exchange that counts a waiter
  `old_val` is the word from before, not "the latest": the wait returns at once, unless the word has
  become that one again, and then the thread may sleep on a free lock.

* `utf_overflow`, convert/detail/utf_to_utf.hpp:50. The fast path asks for room for 8 bytes of
  output but writes as many units as 8 bytes of input hold. From UTF-8 to UTF-16 or UTF-32,
  and from UTF-16 to UTF-32, it writes past the end of a buffer that is too small, against
  "stop at once" in utf_opt.hpp:43.
* `integers_longer`, struct/detail/array_big_int.hpp:165-168. "If one number is longer than the
  other, we have to go on propagating the carry", says the comment of the phase for the longer
  operand, but its bound `src_max` is the shortest length, so it is never compiled and a sum
  loses the high words of the longer operand: 0 of one word plus 4 of two words of two bits is 0.

Found while modelling, without a run of their own:

* A ring of one slot (constructor argument 0 or 1): a filled slot has the sequence of the
  next position, so a push constructs over an unread item (atomic_queue.hpp:48, 97).
  `SlotOwnership` fails there after two pushes; the runs start at two slots.
* A throwing `new Node[]` leaves `stat_` at resizing (atomic_queue.hpp:191): the contents
  survive, but every later push and pop sleeps.
* After a resize a slot without item restarts at its index while positions have moved on, so a
  push may find the ring full that is not, and grow it again (atomic_queue.hpp:195). Wasteful,
  not wrong.
* lock.hpp:80-83: the relaxed load of `wait_count_` may be performed before the store to
  `flag_`; a waiter that registers in between is missed (`MissedWaiter`).
* olock.hpp:122-127: `get_and_set_wait_start_time()` answers the whole word, lock byte and
  count included, and the caller compares that with 1000 ns. While the lock is taken the
  answer is larger, so a waiter normally spins; it sleeps only if it measures in a moment
  in which the lock is free.
* olock.hpp:130-131: the setter clears and sets a threshold in two accesses, so two setters
  may leave the union of the bits of both.
* thread/olock.hpp calls `cpu::cpu_relax`, which is not declared.
* convert/detail/utf_to_utf.hpp:50: the fast path adds nothing to `need_output_block_count_` in
  mode full, and writes in mode count if it is given a buffer.
* Truncated input is counted with the units its first unit announces, more than there are.
* A signed 16-bit unit is sign-extended on its way to `u32` (char_to_utf32.hpp:175).
* `options_t::apply_arg(options_t)` does not copy `replace_char_`.
* `array_uint`: a subtraction into a new number ignores the high words of a longer second
  operand; comparing with a shorter number reads past its array (array_big_int.hpp:116);
  postfix `++` and `--` return the new value and change nothing.

## 6. Hazards and the properties that cover them

PROJECT.json lists every hazard with its line. Six are not covered. A ring of one slot
(atomic_queue.hpp:48): the runs and the theorems about its contents start at two. A move
constructor that throws inside a claimed slot (atomic_queue.hpp:101): `T` is the caller's.
Memory orders weaker than the build's locked instructions (atomic_queue.hpp:85). 65536 threads
registered at once (lock.hpp:118): the counts are shown exact for fewer than they can hold. A
signed 16-bit unit (char_to_utf32.hpp:175): units are unsigned here. Reading past the shorter
array (array_big_int.hpp:116): the outcome is whatever lies there.

## 7. Not modelled

* `vm`: `memory::load` and `memory::store` have no body; the handlers use `pc` and `r0idx`, which
  are not declared, and combine enumerators (`t0 | ...`) where values of registers are meant;
  nothing fetches and dispatches instructions: there is no program to model.
* `date`: lexicographic comparison; normalisation to UTC is an empty branch.
* `utf_endian`: a scoring heuristic that promises nothing but the byte order mark and that
  nobody calls. Its comment (utf_endian.hpp:48-49) takes a unit that is a surrogate only
  when its bytes are swapped as the sign of the wrong order; the code asks for a unit that is
  a surrogate both ways.
* `thread_pool` is commented out as a whole; `co_lock`, `coroutines`, `thread_id`, `core/` (but
  `no_ailgn_int`) hold stubs, macros and aliases. The programs under `src/test` were read for how
  the library is used.
* Within modelled components: input mode `none_check_buffer` of the converter, UTF-32 units of
  more than 21 bits (only mode none accepts them), the lengths of back-off and spinning, the
  positions' and signals' wrap at 2^64 and 2^32.

## 8. What is left

* An abstract reader-writer lock that `SharedMutex` and `RwLock` both implement; exclusion
  and the exact words, which are theorems, are what its refinement would rest on.
* Larger instances: a second writer on the `shared_mutex` once the forgotten writer is repaired, a third
  thread in `aq_fifo`. The safety properties of both are already theorems for any number.
* Once the code changes: `AtomicQueue` with `Spec` in place of `FittingSpec` when `reset_capa`
  compares capacities, `Mutex` without history when a wait is counted each time, `BigUint` with
  `Spec` when `add_to` goes through the longer operand.
