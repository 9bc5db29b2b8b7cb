------------------------- MODULE SharedMutexProofs -------------------------
(* Theorems about SharedMutex, for any sets of writers and readers. *)
EXTENDS SharedMutex, FiniteSetTheorems, TLAPS

Step(t) == Lock(t) \/ LockShared(t) \/ Writing(t) \/ Reading(t) \/ Unlocking(t)

LEMMA TypeInit == Init => TypeOK
<1> SUFFICES ASSUME Init PROVE TypeOK
  OBVIOUS
<1>1. /\ write_wait_count \in 0..(CountMod - 1) /\ read_wait_count \in 0..(CountMod - 1)
      /\ readers \in Nat
  BY CountAssumption DEF Init
<1>2. pc \in [Threads -> Labels] /\ phase \in [Threads -> {"fast", "slow", "late"}]
  BY DEF Init, Labels
<1>3. seen \in [Threads -> [pending : BOOLEAN, readers : Nat]]
  <2>1. NotSeen \in [pending : BOOLEAN, readers : Nat]
    BY DEF NotSeen
  <2> QED
    BY <2>1 DEF Init
<1>4. locked \in BOOLEAN /\ pending \in BOOLEAN
  BY DEF Init
<1>5. /\ added \in [Threads -> BOOLEAN] /\ fresh \in [Threads -> BOOLEAN]
      /\ has_writer \in [Threads -> BOOLEAN]
  BY DEF Init
<1> QED
  BY <1>1, <1>2, <1>3, <1>4, <1>5 DEF TypeOK

\* A step leaves every variable in its range; that the count of readers does not
\* fall below zero is shown with its exactness.
LEMMA TypeStep ==
  ASSUME TypeOK, NEW t \in Threads, Step(t), readers' \in Nat
  PROVE  TypeOK'
<1> USE CountAssumption DEF TypeOK, Goto, Labels, WriteSlow, WriteHolding, ReadSlow,
        ReadHolding, Announcing, NotSeen, lock_state, Outdate, At
<1>1. CASE Lock(t)
  BY <1>1 DEF Lock
<1>2. CASE TryLock(t)
  BY <1>2 DEF TryLock
<1>3. CASE SetPending(t)
  BY <1>3 DEF SetPending
<1>4. CASE LoadState(t)
  <2>1. [pending |-> pending, readers |-> 0] \in [pending : BOOLEAN, readers : Nat]
    OBVIOUS
  <2>2. seen' \in [Threads -> [pending : BOOLEAN, readers : Nat]]
    BY <1>4, <2>1 DEF LoadState
  <2>3. pc' \in [Threads -> Labels]
    BY <1>4 DEF LoadState
  <2> QED
    BY <1>4, <2>2, <2>3 DEF LoadState
<1>5. CASE WriteCas(t)
  BY <1>5 DEF WriteCas
<1>6. CASE WriteDecide(t)
  BY <1>6 DEF WriteDecide
<1>7. CASE WriteCount(t)
  BY <1>7 DEF WriteCount
<1>8. CASE WriteSignalLoad(t)
  BY <1>8 DEF WriteSignalLoad
<1>9. CASE WriteState(t)
  BY <1>9 DEF WriteState
<1>10. CASE WriteSleep(t)
  BY <1>10 DEF WriteSleep
<1>11. CASE WriteUncount(t)
  BY <1>11 DEF WriteUncount
<1>12. CASE LockShared(t)
  BY <1>12 DEF LockShared
<1>13. CASE ReadLoad(t)
  <2>1. [pending |-> FALSE, readers |-> readers] \in [pending : BOOLEAN, readers : Nat]
    OBVIOUS
  <2>2. seen' \in [Threads -> [pending : BOOLEAN, readers : Nat]]
    BY <1>13, <2>1 DEF ReadLoad
  <2>3. pc' \in [Threads -> Labels]
    BY <1>13 DEF ReadLoad
  <2> QED
    BY <1>13, <2>2, <2>3 DEF ReadLoad
<1>14. CASE ReadCas(t)
  BY <1>14 DEF ReadCas
<1>15. CASE ReadCasFails(t)
  BY <1>15 DEF ReadCasFails
<1>16. CASE ReadFail(t)
  BY <1>16 DEF ReadFail
<1>17. CASE ReadCount(t)
  BY <1>17 DEF ReadCount
<1>18. CASE ReadSignalLoad(t)
  BY <1>18 DEF ReadSignalLoad
<1>19. CASE ReadState(t)
  BY <1>19 DEF ReadState
<1>20. CASE ReadSleep(t)
  BY <1>20 DEF ReadSleep
<1>21. CASE ReadUncount(t)
  BY <1>21 DEF ReadUncount
<1>22. CASE Unlock(t)
  BY <1>22 DEF Unlock
<1>23. CASE HasWriter(t)
  BY <1>23 DEF HasWriter
<1>24. CASE StoreState(t)
  BY <1>24 DEF StoreState
<1>25. CASE ReadRelease(t)
  BY <1>25 DEF ReadRelease
<1>26. CASE LoadWriters(t)
  BY <1>26 DEF LoadWriters
<1>27. CASE LoadReaders(t)
  BY <1>27 DEF LoadReaders
<1>28. CASE WriteSignal(t)
  BY <1>28 DEF WriteSignal
<1>29. CASE ReadSignal(t)
  BY <1>29 DEF ReadSignal
<1>30. CASE WriteNotify(t)
  BY <1>30 DEF WriteNotify
<1>31. CASE ReadNotify(t)
  BY <1>31 DEF ReadNotify
<1> QED
  BY <1>1, <1>2, <1>3, <1>4, <1>5, <1>6, <1>7, <1>8, <1>9, <1>10, <1>11, <1>12, <1>13, <1>14, <1>15, <1>16, <1>17, <1>18, <1>19, <1>20, <1>21, <1>22, <1>23, <1>24, <1>25, <1>26, <1>27, <1>28, <1>29, <1>30, <1>31 DEF Step, Writing, Reading, Unlocking

-----------------------------------------------------------------------------
(* Who holds the lock, and what lock_state_ says about it.                 *)

\* What a step does to the sets of holders and to the word, in four cases.
LEMMA HolderStep ==
  ASSUME TypeOK, Exclusion, StateIsExact, NEW t \in Threads, Step(t)
  PROVE  LET W == In(WriteHolding)
             R == In(ReadHolding)
         IN \/ W' = W /\ R' = R /\ locked' = locked /\ readers' = readers
            \/ /\ W = {} /\ R = {} /\ W' = {t} /\ R' = {} /\ locked' = TRUE
               /\ readers' = readers
            \/ /\ W = {t} /\ R = {} /\ W' = {} /\ R' = {} /\ locked' = FALSE
               /\ readers' = 0
            \/ /\ W = {} /\ W' = {} /\ ~locked /\ ~locked'
               /\ t \notin R /\ R' = R \cup {t} /\ readers' = readers + 1
            \/ /\ W = {} /\ W' = {} /\ ~locked /\ ~locked'
               /\ t \in R /\ R' = R \ {t} /\ readers' = readers - 1
<1> DEFINE W == In(WriteHolding)
           R == In(ReadHolding)
<1>0. IsFiniteSet(R) /\ (readers = 0 <=> R = {})
  <2>1. R \subseteq Threads
    BY DEF In
  <2> QED
    BY <2>1, FewThreads, FS_Subset, FS_EmptySet DEF StateIsExact
<1> USE DEF In, WriteHolding, ReadHolding, TypeOK, Goto
<1>1. CASE Lock(t)
  BY <1>1 DEF Lock, lock_state
<1>2. CASE TryLock(t)
  BY <1>2, <1>0 DEF TryLock, lock_state, Exclusion, StateIsExact
<1>3. CASE SetPending(t)
  BY <1>3 DEF SetPending, lock_state
<1>4. CASE LoadState(t)
  BY <1>4 DEF LoadState, lock_state
<1>5. CASE WriteCas(t)
  BY <1>5, <1>0 DEF WriteCas, lock_state, Exclusion, StateIsExact
<1>6. CASE WriteDecide(t)
  BY <1>6 DEF WriteDecide, lock_state
<1>7. CASE WriteCount(t)
  BY <1>7 DEF WriteCount, lock_state
<1>8. CASE WriteSignalLoad(t)
  BY <1>8 DEF WriteSignalLoad, lock_state
<1>9. CASE WriteState(t)
  BY <1>9 DEF WriteState, lock_state
<1>10. CASE WriteSleep(t)
  BY <1>10 DEF WriteSleep, lock_state
<1>11. CASE WriteUncount(t)
  BY <1>11 DEF WriteUncount, lock_state
<1>12. CASE LockShared(t)
  BY <1>12 DEF LockShared, lock_state
<1>13. CASE ReadLoad(t)
  BY <1>13 DEF ReadLoad, lock_state
<1>14. CASE ReadCas(t)
  BY <1>14, <1>0 DEF ReadCas, lock_state, Exclusion, StateIsExact
<1>15. CASE ReadCasFails(t)
  BY <1>15 DEF ReadCasFails, lock_state
<1>16. CASE ReadFail(t)
  BY <1>16 DEF ReadFail, lock_state
<1>17. CASE ReadCount(t)
  BY <1>17 DEF ReadCount, lock_state
<1>18. CASE ReadSignalLoad(t)
  BY <1>18 DEF ReadSignalLoad, lock_state
<1>19. CASE ReadState(t)
  BY <1>19 DEF ReadState, lock_state
<1>20. CASE ReadSleep(t)
  BY <1>20 DEF ReadSleep, lock_state
<1>21. CASE ReadUncount(t)
  BY <1>21 DEF ReadUncount, lock_state
<1>22. CASE Unlock(t)
  BY <1>22, <1>0 DEF Unlock, lock_state, Exclusion, StateIsExact
<1>23. CASE HasWriter(t)
  BY <1>23 DEF HasWriter, lock_state
<1>24. CASE StoreState(t)
  BY <1>24, <1>0 DEF StoreState, lock_state, Exclusion, StateIsExact
<1>25. CASE ReadRelease(t)
  BY <1>25, <1>0 DEF ReadRelease, lock_state, Exclusion, StateIsExact
<1>26. CASE LoadWriters(t)
  BY <1>26 DEF LoadWriters, lock_state
<1>27. CASE LoadReaders(t)
  BY <1>27 DEF LoadReaders, lock_state
<1>28. CASE WriteSignal(t)
  BY <1>28 DEF WriteSignal, lock_state
<1>29. CASE ReadSignal(t)
  BY <1>29 DEF ReadSignal, lock_state
<1>30. CASE WriteNotify(t)
  BY <1>30 DEF WriteNotify, lock_state, At
<1>31. CASE ReadNotify(t)
  BY <1>31 DEF ReadNotify, lock_state, At
<1> QED
  BY <1>1, <1>2, <1>3, <1>4, <1>5, <1>6, <1>7, <1>8, <1>9, <1>10, <1>11, <1>12, <1>13, <1>14, <1>15, <1>16, <1>17, <1>18, <1>19, <1>20, <1>21, <1>22, <1>23, <1>24, <1>25, <1>26, <1>27, <1>28, <1>29, <1>30, <1>31 DEF Step, Writing, Reading, Unlocking

\* Exclusion and the exactness of lock_state_ are inductive together.
LEMMA ExclusionStep ==
  ASSUME TypeOK, Exclusion, StateIsExact, NEW t \in Threads, Step(t)
  PROVE  Exclusion' /\ StateIsExact' /\ readers' \in Nat
<1> DEFINE W == In(WriteHolding)
           R == In(ReadHolding)
<1>0. /\ IsFiniteSet(R) /\ readers = Cardinality(R) /\ readers \in Nat
      /\ Cardinality({}) = 0
  <2>1. R \subseteq Threads
    BY DEF In
  <2> QED
    BY <2>1, FewThreads, FS_Subset, FS_EmptySet DEF StateIsExact, TypeOK
<1>1. CASE W' = W /\ R' = R /\ locked' = locked /\ readers' = readers
  BY <1>0, <1>1 DEF Exclusion, StateIsExact
<1>2. CASE /\ W = {} /\ R = {} /\ W' = {t} /\ R' = {} /\ locked' = TRUE
           /\ readers' = readers
  BY <1>0, <1>2 DEF Exclusion, StateIsExact
<1>3. CASE /\ W = {t} /\ R = {} /\ W' = {} /\ R' = {} /\ locked' = FALSE
           /\ readers' = 0
  BY <1>0, <1>3 DEF Exclusion, StateIsExact
<1>4. CASE /\ W = {} /\ W' = {} /\ ~locked /\ ~locked'
           /\ t \notin R /\ R' = R \cup {t} /\ readers' = readers + 1
  <2>1. Cardinality(R \cup {t}) = Cardinality(R) + 1
    BY <1>0, <1>4, FS_AddElement
  <2> QED
    BY <1>0, <1>4, <2>1 DEF Exclusion, StateIsExact
<1>5. CASE /\ W = {} /\ W' = {} /\ ~locked /\ ~locked'
           /\ t \in R /\ R' = R \ {t} /\ readers' = readers - 1
  <2>1. Cardinality(R \ {t}) = Cardinality(R) - 1 /\ Cardinality(R \ {t}) \in Nat
    BY <1>0, <1>5, FS_RemoveElement, FS_CardinalityType
  <2> QED
    BY <1>0, <1>5, <2>1 DEF Exclusion, StateIsExact
<1> QED
  BY HolderStep, <1>1, <1>2, <1>3, <1>4, <1>5

IInv == TypeOK /\ Exclusion /\ StateIsExact

LEMMA IInvInit == Init => IInv
<1> SUFFICES ASSUME Init PROVE IInv
  OBVIOUS
<1>1. In(WriteHolding) = {} /\ In(ReadHolding) = {}
  BY DEF Init, In, WriteHolding, ReadHolding
<1> QED
  BY <1>1, TypeInit, FS_EmptySet DEF Init, IInv, Exclusion, StateIsExact

LEMMA IInvNext == IInv /\ [Next]_vars => IInv'
<1> SUFFICES ASSUME IInv, [Next]_vars PROVE IInv'
  OBVIOUS
<1>1. CASE Next
  <2>1. PICK t \in Threads : Step(t)
    BY <1>1 DEF Next, Step
  <2>2. Exclusion' /\ StateIsExact' /\ readers' \in Nat
    BY <2>1, ExclusionStep DEF IInv
  <2>3. TypeOK'
    BY <2>1, <2>2, TypeStep DEF IInv
  <2> QED
    BY <2>2, <2>3 DEF IInv
<1>2. CASE UNCHANGED vars
  BY <1>2 DEF IInv, vars, lock_state, TypeOK, Exclusion, StateIsExact, In
<1> QED
  BY <1>1, <1>2

-----------------------------------------------------------------------------
(* Who waits, what the counts say, and who will wake the readers.          *)

\* Where a thread must have registered and where it cannot have.
AddedFits ==
  \A t \in Threads :
    /\ pc[t] \in {"w_sig", "w_state", "w_sleep", "w_asleep", "r_sig", "r_state", "r_sleep", "r_asleep"} => added[t]
    /\ added[t] => pc[t] \in WriteSlow \cup {"w_uncount"} \cup ReadSlow \cup {"r_uncount"}
    /\ added[t] \/ pc[t] \in {"w_count", "r_count"} => phase[t] # "fast"

\* A writer that has found others registered holds the lock they are waiting for, so
\* they are there still when it leaves the pending bit set for them.
HasWriterFits ==
  \A t \in Threads : pc[t] = "w_store" /\ has_writer[t] => In(WriteSlow) # {}

\* A reader that is going to sleep or sleeps, and has missed no signal, is kept out by
\* a writer, or somebody is about to signal.
FreshFits ==
  (\E t \in Threads : pc[t] \in {"r_sleep", "r_asleep"} /\ fresh[t]) =>
    locked \/ pending \/ In({"u_readers", "u_rsig"}) # {}

\* A reader that sleeps through a signal is about to be notified.
StaleFits ==
  (\E t \in Threads : pc[t] = "r_asleep" /\ ~fresh[t]) => At("u_rnotify") # {}

Waits ==
  AddedFits /\ WaitersAreExact /\ HasWriterFits /\ PendingIsJustified /\ FreshFits /\ StaleFits

LEMMA AddedStep ==
  ASSUME TypeOK, AddedFits, NEW t \in Threads, Step(t)
  PROVE  AddedFits'
<1> USE DEF TypeOK, AddedFits, WriteSlow, ReadSlow, Goto
<1>1. CASE Lock(t)
  BY <1>1 DEF Lock
<1>2. CASE TryLock(t)
  BY <1>2 DEF TryLock
<1>3. CASE SetPending(t)
  BY <1>3 DEF SetPending
<1>4. CASE LoadState(t)
  BY <1>4 DEF LoadState
<1>5. CASE WriteCas(t)
  BY <1>5 DEF WriteCas
<1>6. CASE WriteDecide(t)
  BY <1>6 DEF WriteDecide
<1>7. CASE WriteCount(t)
  BY <1>7 DEF WriteCount
<1>8. CASE WriteSignalLoad(t)
  BY <1>8 DEF WriteSignalLoad
<1>9. CASE WriteState(t)
  BY <1>9 DEF WriteState
<1>10. CASE WriteSleep(t)
  BY <1>10 DEF WriteSleep
<1>11. CASE WriteUncount(t)
  BY <1>11 DEF WriteUncount
<1>12. CASE LockShared(t)
  BY <1>12 DEF LockShared
<1>13. CASE ReadLoad(t)
  BY <1>13 DEF ReadLoad
<1>14. CASE ReadCas(t)
  BY <1>14 DEF ReadCas
<1>15. CASE ReadCasFails(t)
  BY <1>15 DEF ReadCasFails
<1>16. CASE ReadFail(t)
  BY <1>16 DEF ReadFail
<1>17. CASE ReadCount(t)
  BY <1>17 DEF ReadCount
<1>18. CASE ReadSignalLoad(t)
  BY <1>18 DEF ReadSignalLoad
<1>19. CASE ReadState(t)
  BY <1>19 DEF ReadState
<1>20. CASE ReadSleep(t)
  BY <1>20 DEF ReadSleep
<1>21. CASE ReadUncount(t)
  BY <1>21 DEF ReadUncount
<1>22. CASE Unlock(t)
  BY <1>22 DEF Unlock
<1>23. CASE HasWriter(t)
  BY <1>23 DEF HasWriter
<1>24. CASE StoreState(t)
  BY <1>24 DEF StoreState
<1>25. CASE ReadRelease(t)
  BY <1>25 DEF ReadRelease
<1>26. CASE LoadWriters(t)
  BY <1>26 DEF LoadWriters
<1>27. CASE LoadReaders(t)
  BY <1>27 DEF LoadReaders
<1>28. CASE WriteSignal(t)
  BY <1>28 DEF WriteSignal, Outdate
<1>29. CASE ReadSignal(t)
  BY <1>29 DEF ReadSignal, Outdate
<1>30. CASE WriteNotify(t)
  BY <1>30 DEF WriteNotify, At
<1>31. CASE ReadNotify(t)
  BY <1>31 DEF ReadNotify, At
<1> QED
  BY <1>1, <1>2, <1>3, <1>4, <1>5, <1>6, <1>7, <1>8, <1>9, <1>10, <1>11, <1>12, <1>13, <1>14, <1>15, <1>16, <1>17, <1>18, <1>19, <1>20, <1>21, <1>22, <1>23, <1>24, <1>25, <1>26, <1>27, <1>28, <1>29, <1>30, <1>31 DEF Step, Writing, Reading, Unlocking

CW == {u \in Threads : added[u] /\ pc[u] \in WriteSlow \cup {"w_uncount"}}
CR == {u \in Threads : added[u] /\ pc[u] \in ReadSlow \cup {"r_uncount"}}

\* A step leaves both counts alone, or its thread joins or leaves one of them.
LEMMA RegisteringStep ==
  ASSUME TypeOK, AddedFits, NEW t \in Threads, Step(t)
  PROVE  \/ /\ write_wait_count' = write_wait_count /\ CW' = CW
            /\ read_wait_count' = read_wait_count /\ CR' = CR
         \/ /\ write_wait_count' = (write_wait_count + 1) % CountMod
            /\ t \notin CW /\ CW' = CW \cup {t}
            /\ read_wait_count' = read_wait_count /\ CR' = CR
         \/ /\ write_wait_count' = (write_wait_count - 1) % CountMod
            /\ t \in CW /\ CW' = CW \ {t}
            /\ read_wait_count' = read_wait_count /\ CR' = CR
         \/ /\ read_wait_count' = (read_wait_count + 1) % CountMod
            /\ t \notin CR /\ CR' = CR \cup {t}
            /\ write_wait_count' = write_wait_count /\ CW' = CW
         \/ /\ read_wait_count' = (read_wait_count - 1) % CountMod
            /\ t \in CR /\ CR' = CR \ {t}
            /\ write_wait_count' = write_wait_count /\ CW' = CW
<1> USE DEF TypeOK, AddedFits, WriteSlow, ReadSlow, Goto, CW, CR
<1>1. CASE Lock(t)
  BY <1>1 DEF Lock
<1>2. CASE TryLock(t)
  BY <1>2 DEF TryLock
<1>3. CASE SetPending(t)
  BY <1>3 DEF SetPending
<1>4. CASE LoadState(t)
  BY <1>4 DEF LoadState
<1>5. CASE WriteCas(t)
  BY <1>5 DEF WriteCas
<1>6. CASE WriteDecide(t)
  BY <1>6 DEF WriteDecide
<1>7. CASE WriteCount(t)
  BY <1>7 DEF WriteCount
<1>8. CASE WriteSignalLoad(t)
  BY <1>8 DEF WriteSignalLoad
<1>9. CASE WriteState(t)
  BY <1>9 DEF WriteState
<1>10. CASE WriteSleep(t)
  BY <1>10 DEF WriteSleep
<1>11. CASE WriteUncount(t)
  BY <1>11 DEF WriteUncount
<1>12. CASE LockShared(t)
  BY <1>12 DEF LockShared
<1>13. CASE ReadLoad(t)
  BY <1>13 DEF ReadLoad
<1>14. CASE ReadCas(t)
  BY <1>14 DEF ReadCas
<1>15. CASE ReadCasFails(t)
  BY <1>15 DEF ReadCasFails
<1>16. CASE ReadFail(t)
  BY <1>16 DEF ReadFail
<1>17. CASE ReadCount(t)
  BY <1>17 DEF ReadCount
<1>18. CASE ReadSignalLoad(t)
  BY <1>18 DEF ReadSignalLoad
<1>19. CASE ReadState(t)
  BY <1>19 DEF ReadState
<1>20. CASE ReadSleep(t)
  BY <1>20 DEF ReadSleep
<1>21. CASE ReadUncount(t)
  BY <1>21 DEF ReadUncount
<1>22. CASE Unlock(t)
  BY <1>22 DEF Unlock
<1>23. CASE HasWriter(t)
  BY <1>23 DEF HasWriter
<1>24. CASE StoreState(t)
  BY <1>24 DEF StoreState
<1>25. CASE ReadRelease(t)
  BY <1>25 DEF ReadRelease
<1>26. CASE LoadWriters(t)
  BY <1>26 DEF LoadWriters
<1>27. CASE LoadReaders(t)
  BY <1>27 DEF LoadReaders
<1>28. CASE WriteSignal(t)
  BY <1>28 DEF WriteSignal, Outdate
<1>29. CASE ReadSignal(t)
  BY <1>29 DEF ReadSignal, Outdate
<1>30. CASE WriteNotify(t)
  BY <1>30 DEF WriteNotify, At
<1>31. CASE ReadNotify(t)
  BY <1>31 DEF ReadNotify, At
<1> QED
  BY <1>1, <1>2, <1>3, <1>4, <1>5, <1>6, <1>7, <1>8, <1>9, <1>10, <1>11, <1>12, <1>13, <1>14, <1>15, <1>16, <1>17, <1>18, <1>19, <1>20, <1>21, <1>22, <1>23, <1>24, <1>25, <1>26, <1>27, <1>28, <1>29, <1>30, <1>31 DEF Step, Writing, Reading, Unlocking

\* How a count that does not wrap follows a set of threads that one thread joins or leaves.
LEMMA Counting ==
  ASSUME NEW S \in SUBSET Threads, NEW t \in Threads, NEW n \in 0..(CountMod - 1),
         n = Cardinality(S)
  PROVE  /\ t \notin S => Cardinality(S \cup {t}) = (n + 1) % CountMod
         /\ t \in S => Cardinality(S \ {t}) = (n - 1) % CountMod
         /\ n = 0 <=> S = {}
<1>1. IsFiniteSet(S) /\ n \in Nat /\ CountMod \in Nat /\ CountMod > 0 /\ n < CountMod
  BY FewThreads, CountAssumption, FS_Subset
<1>2. CASE t \notin S
  <2>1. Cardinality(S \cup {t}) = n + 1
    BY <1>1, <1>2, FS_AddElement
  <2>2. Cardinality(S \cup {t}) <= Cardinality(Threads) /\ Cardinality(Threads) \in Nat
    BY FewThreads, FS_Subset, FS_CardinalityType
  <2>3. n + 1 < CountMod
    BY <1>1, <2>1, <2>2, FewThreads
  <2>4. (n + 1) % CountMod = n + 1
    BY <1>1, <2>3
  <2> QED
    BY <1>1, <1>2, <2>1, <2>4, FS_EmptySet
<1>3. CASE t \in S
  <2>1. Cardinality(S \ {t}) = n - 1 /\ Cardinality(S \ {t}) \in Nat
    BY <1>1, <1>3, FS_RemoveElement, FS_CardinalityType
  <2>2. (n - 1) % CountMod = n - 1
    BY <1>1, <2>1
  <2> QED
    BY <1>1, <1>3, <2>1, <2>2, FS_EmptySet
<1> QED
  BY <1>2, <1>3

LEMMA CountStep ==
  ASSUME TypeOK, AddedFits, WaitersAreExact, NEW t \in Threads, Step(t)
  PROVE  WaitersAreExact'
<1>1. /\ write_wait_count \in 0..(CountMod - 1) /\ write_wait_count = Cardinality(CW)
      /\ read_wait_count \in 0..(CountMod - 1) /\ read_wait_count = Cardinality(CR)
      /\ CW \in SUBSET Threads /\ CR \in SUBSET Threads
  BY DEF TypeOK, WaitersAreExact, CW, CR
<1>2. write_wait_count' = Cardinality(CW') /\ read_wait_count' = Cardinality(CR') => WaitersAreExact'
  BY DEF WaitersAreExact, CW, CR
<1>3. /\ t \notin CW => Cardinality(CW \cup {t}) = (write_wait_count + 1) % CountMod
      /\ t \in CW => Cardinality(CW \ {t}) = (write_wait_count - 1) % CountMod
      /\ t \notin CR => Cardinality(CR \cup {t}) = (read_wait_count + 1) % CountMod
      /\ t \in CR => Cardinality(CR \ {t}) = (read_wait_count - 1) % CountMod
  BY <1>1, Counting
<1> QED
  BY <1>1, <1>2, <1>3, RegisteringStep

\* Writers leave the slow path only by taking a lock that is free.
LEMMA SlowStep ==
  ASSUME TypeOK, NEW t \in Threads, Step(t)
  PROVE  \/ In(WriteSlow) \subseteq In(WriteSlow)'
         \/ locked' = TRUE /\ ~locked
<1> USE DEF TypeOK, In, WriteSlow, Goto
<1>1. CASE Lock(t)
  BY <1>1 DEF Lock
<1>2. CASE TryLock(t)
  BY <1>2 DEF TryLock
<1>3. CASE SetPending(t)
  BY <1>3 DEF SetPending
<1>4. CASE LoadState(t)
  BY <1>4 DEF LoadState
<1>5. CASE WriteCas(t)
  BY <1>5 DEF WriteCas
<1>6. CASE WriteDecide(t)
  BY <1>6 DEF WriteDecide
<1>7. CASE WriteCount(t)
  BY <1>7 DEF WriteCount
<1>8. CASE WriteSignalLoad(t)
  BY <1>8 DEF WriteSignalLoad
<1>9. CASE WriteState(t)
  BY <1>9 DEF WriteState
<1>10. CASE WriteSleep(t)
  BY <1>10 DEF WriteSleep
<1>11. CASE WriteUncount(t)
  BY <1>11 DEF WriteUncount
<1>12. CASE LockShared(t)
  BY <1>12 DEF LockShared
<1>13. CASE ReadLoad(t)
  BY <1>13 DEF ReadLoad
<1>14. CASE ReadCas(t)
  BY <1>14 DEF ReadCas
<1>15. CASE ReadCasFails(t)
  BY <1>15 DEF ReadCasFails
<1>16. CASE ReadFail(t)
  BY <1>16 DEF ReadFail
<1>17. CASE ReadCount(t)
  BY <1>17 DEF ReadCount
<1>18. CASE ReadSignalLoad(t)
  BY <1>18 DEF ReadSignalLoad
<1>19. CASE ReadState(t)
  BY <1>19 DEF ReadState
<1>20. CASE ReadSleep(t)
  BY <1>20 DEF ReadSleep
<1>21. CASE ReadUncount(t)
  BY <1>21 DEF ReadUncount
<1>22. CASE Unlock(t)
  BY <1>22 DEF Unlock
<1>23. CASE HasWriter(t)
  BY <1>23 DEF HasWriter
<1>24. CASE StoreState(t)
  BY <1>24 DEF StoreState
<1>25. CASE ReadRelease(t)
  BY <1>25 DEF ReadRelease
<1>26. CASE LoadWriters(t)
  BY <1>26 DEF LoadWriters
<1>27. CASE LoadReaders(t)
  BY <1>27 DEF LoadReaders
<1>28. CASE WriteSignal(t)
  BY <1>28 DEF WriteSignal, Outdate
<1>29. CASE ReadSignal(t)
  BY <1>29 DEF ReadSignal, Outdate
<1>30. CASE WriteNotify(t)
  BY <1>30 DEF WriteNotify, At
<1>31. CASE ReadNotify(t)
  BY <1>31 DEF ReadNotify, At
<1> QED
  BY <1>1, <1>2, <1>3, <1>4, <1>5, <1>6, <1>7, <1>8, <1>9, <1>10, <1>11, <1>12, <1>13, <1>14, <1>15, <1>16, <1>17, <1>18, <1>19, <1>20, <1>21, <1>22, <1>23, <1>24, <1>25, <1>26, <1>27, <1>28, <1>29, <1>30, <1>31 DEF Step, Writing, Reading, Unlocking

\* Only the look at the count makes unlock() store a pending bit.
LEMMA StoringStep ==
  ASSUME TypeOK, NEW t \in Threads, Step(t), ~HasWriter(t)
  PROVE  \A u \in Threads : pc'[u] = "w_store" /\ has_writer'[u] => pc[u] = "w_store" /\ has_writer[u]
<1> USE DEF TypeOK, Goto
<1>1. CASE Lock(t)
  BY <1>1 DEF Lock
<1>2. CASE TryLock(t)
  BY <1>2 DEF TryLock
<1>3. CASE SetPending(t)
  BY <1>3 DEF SetPending
<1>4. CASE LoadState(t)
  BY <1>4 DEF LoadState
<1>5. CASE WriteCas(t)
  BY <1>5 DEF WriteCas
<1>6. CASE WriteDecide(t)
  BY <1>6 DEF WriteDecide
<1>7. CASE WriteCount(t)
  BY <1>7 DEF WriteCount
<1>8. CASE WriteSignalLoad(t)
  BY <1>8 DEF WriteSignalLoad
<1>9. CASE WriteState(t)
  BY <1>9 DEF WriteState
<1>10. CASE WriteSleep(t)
  BY <1>10 DEF WriteSleep
<1>11. CASE WriteUncount(t)
  BY <1>11 DEF WriteUncount
<1>12. CASE LockShared(t)
  BY <1>12 DEF LockShared
<1>13. CASE ReadLoad(t)
  BY <1>13 DEF ReadLoad
<1>14. CASE ReadCas(t)
  BY <1>14 DEF ReadCas
<1>15. CASE ReadCasFails(t)
  BY <1>15 DEF ReadCasFails
<1>16. CASE ReadFail(t)
  BY <1>16 DEF ReadFail
<1>17. CASE ReadCount(t)
  BY <1>17 DEF ReadCount
<1>18. CASE ReadSignalLoad(t)
  BY <1>18 DEF ReadSignalLoad
<1>19. CASE ReadState(t)
  BY <1>19 DEF ReadState
<1>20. CASE ReadSleep(t)
  BY <1>20 DEF ReadSleep
<1>21. CASE ReadUncount(t)
  BY <1>21 DEF ReadUncount
<1>22. CASE Unlock(t)
  BY <1>22 DEF Unlock
<1>23. CASE HasWriter(t)
  BY <1>23
<1>24. CASE StoreState(t)
  BY <1>24 DEF StoreState
<1>25. CASE ReadRelease(t)
  BY <1>25 DEF ReadRelease
<1>26. CASE LoadWriters(t)
  BY <1>26 DEF LoadWriters
<1>27. CASE LoadReaders(t)
  BY <1>27 DEF LoadReaders
<1>28. CASE WriteSignal(t)
  BY <1>28 DEF WriteSignal, Outdate
<1>29. CASE ReadSignal(t)
  BY <1>29 DEF ReadSignal, Outdate
<1>30. CASE WriteNotify(t)
  BY <1>30 DEF WriteNotify, At
<1>31. CASE ReadNotify(t)
  BY <1>31 DEF ReadNotify, At
<1> QED
  BY <1>1, <1>2, <1>3, <1>4, <1>5, <1>6, <1>7, <1>8, <1>9, <1>10, <1>11, <1>12, <1>13, <1>14, <1>15, <1>16, <1>17, <1>18, <1>19, <1>20, <1>21, <1>22, <1>23, <1>24, <1>25, <1>26, <1>27, <1>28, <1>29, <1>30, <1>31 DEF Step, Writing, Reading, Unlocking

\* While a writer holds the lock nobody leaves the writers' slow path.
LEMMA HasWriterStep ==
  ASSUME TypeOK, Exclusion, StateIsExact, WaitersAreExact, AddedFits, HasWriterFits,
         NEW t \in Threads, Step(t)
  PROVE  HasWriterFits'
<1>1. CASE HasWriter(t)
  <2> SUFFICES ASSUME write_wait_count > 0 PROVE In(WriteSlow)' # {}
    BY <1>1 DEF HasWriter, HasWriterFits, TypeOK, Goto, In, WriteSlow
  <2>1. CW \in SUBSET Threads /\ write_wait_count \in 0..(CountMod - 1)
    BY DEF CW, TypeOK
  <2>2. write_wait_count = Cardinality(CW)
    BY DEF CW, WaitersAreExact
  <2>3. CW # {}
    BY <2>1, <2>2, FS_EmptySet
  <2>4. PICK u \in Threads : pc[u] \in WriteSlow \cup {"w_uncount"}
    BY <2>3 DEF CW
  <2>5. pc[u] \in WriteSlow
    BY <1>1, <2>4 DEF HasWriter, Exclusion, In, WriteHolding, TypeOK
  <2> QED
    BY <1>1, <2>5 DEF HasWriter, In, WriteSlow, Goto, TypeOK
<1>2. CASE ~HasWriter(t)
  <2>1. \/ In(WriteSlow) \subseteq In(WriteSlow)'
        \/ locked' = TRUE /\ ~locked
    BY SlowStep
  <2>2. \A u \in Threads : pc'[u] = "w_store" /\ has_writer'[u] =>
           pc[u] = "w_store" /\ has_writer[u]
    BY <1>2, StoringStep
  <2>3. (\E u \in Threads : pc[u] = "w_store") => locked
    BY DEF StateIsExact, In, WriteHolding
  <2> SUFFICES ASSUME NEW u \in Threads, pc'[u] = "w_store", has_writer'[u]
               PROVE  In(WriteSlow)' # {}
    BY DEF HasWriterFits
  <2>4. pc[u] = "w_store" /\ has_writer[u]
    BY <2>2
  <2>5. In(WriteSlow) # {} /\ locked
    BY <2>3, <2>4 DEF HasWriterFits
  <2> QED
    BY <2>1, <2>5
<1> QED
  BY <1>1, <1>2

\* What a step does to the pending bit and to the writers that justify it.
LEMMA WritersStep ==
  ASSUME TypeOK, StateIsExact, HasWriterFits, NEW t \in Threads, Step(t)
  PROVE  \/ In(WriteSlow \cup WriteHolding) \subseteq In(WriteSlow \cup WriteHolding)' /\ pending' = pending
         \/ In(WriteSlow)' # {}
         \/ ~pending'
<1> USE DEF TypeOK, In, WriteSlow, WriteHolding, Goto, lock_state
<1>1. CASE Lock(t)
  BY <1>1 DEF Lock
<1>2. CASE TryLock(t)
  BY <1>2 DEF TryLock
<1>3. CASE SetPending(t)
  BY <1>3 DEF SetPending
<1>4. CASE LoadState(t)
  BY <1>4 DEF LoadState
<1>5. CASE WriteCas(t)
  BY <1>5 DEF WriteCas
<1>6. CASE WriteDecide(t)
  BY <1>6 DEF WriteDecide
<1>7. CASE WriteCount(t)
  BY <1>7 DEF WriteCount
<1>8. CASE WriteSignalLoad(t)
  BY <1>8 DEF WriteSignalLoad
<1>9. CASE WriteState(t)
  BY <1>9 DEF WriteState
<1>10. CASE WriteSleep(t)
  BY <1>10 DEF WriteSleep
<1>11. CASE WriteUncount(t)
  BY <1>11 DEF WriteUncount
<1>12. CASE LockShared(t)
  BY <1>12 DEF LockShared
<1>13. CASE ReadLoad(t)
  BY <1>13 DEF ReadLoad
<1>14. CASE ReadCas(t)
  BY <1>14 DEF ReadCas
<1>15. CASE ReadCasFails(t)
  BY <1>15 DEF ReadCasFails
<1>16. CASE ReadFail(t)
  BY <1>16 DEF ReadFail
<1>17. CASE ReadCount(t)
  BY <1>17 DEF ReadCount
<1>18. CASE ReadSignalLoad(t)
  BY <1>18 DEF ReadSignalLoad
<1>19. CASE ReadState(t)
  BY <1>19 DEF ReadState
<1>20. CASE ReadSleep(t)
  BY <1>20 DEF ReadSleep
<1>21. CASE ReadUncount(t)
  BY <1>21 DEF ReadUncount
<1>22. CASE Unlock(t)
  BY <1>22 DEF Unlock, StateIsExact
<1>23. CASE HasWriter(t)
  BY <1>23 DEF HasWriter
<1>24. CASE StoreState(t)
  BY <1>24 DEF StoreState, HasWriterFits
<1>25. CASE ReadRelease(t)
  BY <1>25 DEF ReadRelease
<1>26. CASE LoadWriters(t)
  BY <1>26 DEF LoadWriters
<1>27. CASE LoadReaders(t)
  BY <1>27 DEF LoadReaders
<1>28. CASE WriteSignal(t)
  BY <1>28 DEF WriteSignal, Outdate
<1>29. CASE ReadSignal(t)
  BY <1>29 DEF ReadSignal, Outdate
<1>30. CASE WriteNotify(t)
  BY <1>30 DEF WriteNotify, At
<1>31. CASE ReadNotify(t)
  BY <1>31 DEF ReadNotify, At
<1> QED
  BY <1>1, <1>2, <1>3, <1>4, <1>5, <1>6, <1>7, <1>8, <1>9, <1>10, <1>11, <1>12, <1>13, <1>14, <1>15, <1>16, <1>17, <1>18, <1>19, <1>20, <1>21, <1>22, <1>23, <1>24, <1>25, <1>26, <1>27, <1>28, <1>29, <1>30, <1>31 DEF Step, Writing, Reading, Unlocking

\* The pending bit is set by a writer on the slow path or kept for one; the writers it
\* was set for stay there until one of them holds the lock, and that one clears it.
LEMMA PendingStep ==
  ASSUME TypeOK, StateIsExact, PendingIsJustified, HasWriterFits, NEW t \in Threads, Step(t)
  PROVE  PendingIsJustified'
<1>1. In(WriteSlow)' # {} => In(WriteSlow \cup WriteHolding)' # {}
  BY DEF In
<1> QED
  BY <1>1, WritersStep DEF PendingIsJustified

\* The readers that have missed no signal, and who is about to give one.
Fresh == {u \in Threads : pc[u] \in {"r_sleep", "r_asleep"} /\ fresh[u]}
Signalling == In({"u_readers", "u_rsig"})

LEMMA FreshMoves ==
  ASSUME TypeOK, NEW t \in Threads, Step(t), ~LoadReaders(t)
  PROVE  \/ /\ Fresh' \subseteq Fresh /\ Signalling \subseteq Signalling'
            /\ locked \/ pending => locked' \/ pending'
         \/ locked' \/ pending' \/ Signalling' # {}
         \/ Fresh' = {}
<1> USE DEF TypeOK, Fresh, Signalling, In, Goto, lock_state
<1>1. CASE Lock(t)
  BY <1>1 DEF Lock
<1>2. CASE TryLock(t)
  BY <1>2 DEF TryLock
<1>3. CASE SetPending(t)
  BY <1>3 DEF SetPending
<1>4. CASE LoadState(t)
  BY <1>4 DEF LoadState
<1>5. CASE WriteCas(t)
  BY <1>5 DEF WriteCas
<1>6. CASE WriteDecide(t)
  BY <1>6 DEF WriteDecide
<1>7. CASE WriteCount(t)
  BY <1>7 DEF WriteCount
<1>8. CASE WriteSignalLoad(t)
  BY <1>8 DEF WriteSignalLoad
<1>9. CASE WriteState(t)
  BY <1>9 DEF WriteState
<1>10. CASE WriteSleep(t)
  BY <1>10 DEF WriteSleep
<1>11. CASE WriteUncount(t)
  BY <1>11 DEF WriteUncount
<1>12. CASE LockShared(t)
  BY <1>12 DEF LockShared
<1>13. CASE ReadLoad(t)
  BY <1>13 DEF ReadLoad
<1>14. CASE ReadCas(t)
  BY <1>14 DEF ReadCas
<1>15. CASE ReadCasFails(t)
  BY <1>15 DEF ReadCasFails
<1>16. CASE ReadFail(t)
  BY <1>16 DEF ReadFail
<1>17. CASE ReadCount(t)
  BY <1>17 DEF ReadCount
<1>18. CASE ReadSignalLoad(t)
  BY <1>18 DEF ReadSignalLoad
<1>19. CASE ReadState(t)
  BY <1>19 DEF ReadState
<1>20. CASE ReadSleep(t)
  BY <1>20 DEF ReadSleep
<1>21. CASE ReadUncount(t)
  BY <1>21 DEF ReadUncount
<1>22. CASE Unlock(t)
  BY <1>22 DEF Unlock
<1>23. CASE HasWriter(t)
  BY <1>23 DEF HasWriter
<1>24. CASE StoreState(t)
  BY <1>24 DEF StoreState
<1>25. CASE ReadRelease(t)
  BY <1>25 DEF ReadRelease
<1>26. CASE LoadWriters(t)
  BY <1>26 DEF LoadWriters
<1>27. CASE LoadReaders(t)
  BY <1>27 DEF LoadReaders
<1>28. CASE WriteSignal(t)
  BY <1>28 DEF WriteSignal, Outdate
<1>29. CASE ReadSignal(t)
  BY <1>29 DEF ReadSignal, Outdate
<1>30. CASE WriteNotify(t)
  BY <1>30 DEF WriteNotify, At
<1>31. CASE ReadNotify(t)
  BY <1>31 DEF ReadNotify, At
<1> QED
  BY <1>1, <1>2, <1>3, <1>4, <1>5, <1>6, <1>7, <1>8, <1>9, <1>10, <1>11, <1>12, <1>13, <1>14, <1>15, <1>16, <1>17, <1>18, <1>19, <1>20, <1>21, <1>22, <1>23, <1>24, <1>25, <1>26, <1>27, <1>28, <1>29, <1>30, <1>31 DEF Step, Writing, Reading, Unlocking

\* A reader sleeps without having missed a signal: the writer that kept it out still
\* does, or it has left and goes on to count the readers, and finds this one.
LEMMA FreshStep ==
  ASSUME TypeOK, AddedFits, WaitersAreExact, FreshFits, NEW t \in Threads, Step(t)
  PROVE  FreshFits'
<1>1. FreshFits <=> (Fresh # {} => locked \/ pending \/ Signalling # {})
  BY DEF FreshFits, Fresh, Signalling
<1>2. FreshFits' <=> (Fresh' # {} => locked' \/ pending' \/ Signalling' # {})
  BY DEF FreshFits, Fresh, Signalling
<1>3. CASE LoadReaders(t)
  <2>1. CASE read_wait_count > 0
    <3>1. pc'[t] = "u_rsig"
      BY <1>3, <2>1 DEF LoadReaders, Goto, TypeOK
    <3> QED
      BY <1>2, <3>1 DEF Signalling, In
  <2>2. CASE ~(read_wait_count > 0)
    <3>1. CR = {}
      <4>1. CR \in SUBSET Threads /\ read_wait_count \in 0..(CountMod - 1)
        BY DEF CR, TypeOK
      <4>2. read_wait_count = Cardinality(CR) /\ read_wait_count = 0
        BY <2>2, <4>1, CountAssumption DEF CR, WaitersAreExact
      <4> QED
        BY <4>1, <4>2, Counting
    <3>2. Fresh = {}
      BY <3>1 DEF AddedFits, CR, Fresh, ReadSlow
    <3>3. Fresh' = Fresh
      BY <1>3 DEF LoadReaders, Fresh, Goto, TypeOK
    <3> QED
      BY <1>2, <3>2, <3>3
  <2> QED
    BY <2>1, <2>2
<1>4. CASE ~LoadReaders(t)
  BY <1>1, <1>2, <1>4, FreshMoves
<1> QED
  BY <1>3, <1>4

LEMMA StaleMoves ==
  ASSUME TypeOK, NEW t \in Threads, Step(t)
  PROVE  LET Stale == {u \in Threads : pc[u] = "r_asleep" /\ ~fresh[u]}
         IN \/ Stale' \subseteq Stale /\ At("u_rnotify") \subseteq At("u_rnotify")'
            \/ At("u_rnotify")' # {}
            \/ Stale' = {}
<1> USE DEF TypeOK, At, Goto
<1>1. CASE Lock(t)
  BY <1>1 DEF Lock
<1>2. CASE TryLock(t)
  BY <1>2 DEF TryLock
<1>3. CASE SetPending(t)
  BY <1>3 DEF SetPending
<1>4. CASE LoadState(t)
  BY <1>4 DEF LoadState
<1>5. CASE WriteCas(t)
  BY <1>5 DEF WriteCas
<1>6. CASE WriteDecide(t)
  BY <1>6 DEF WriteDecide
<1>7. CASE WriteCount(t)
  BY <1>7 DEF WriteCount
<1>8. CASE WriteSignalLoad(t)
  BY <1>8 DEF WriteSignalLoad
<1>9. CASE WriteState(t)
  BY <1>9 DEF WriteState
<1>10. CASE WriteSleep(t)
  BY <1>10 DEF WriteSleep
<1>11. CASE WriteUncount(t)
  BY <1>11 DEF WriteUncount
<1>12. CASE LockShared(t)
  BY <1>12 DEF LockShared
<1>13. CASE ReadLoad(t)
  BY <1>13 DEF ReadLoad
<1>14. CASE ReadCas(t)
  BY <1>14 DEF ReadCas
<1>15. CASE ReadCasFails(t)
  BY <1>15 DEF ReadCasFails
<1>16. CASE ReadFail(t)
  BY <1>16 DEF ReadFail
<1>17. CASE ReadCount(t)
  BY <1>17 DEF ReadCount
<1>18. CASE ReadSignalLoad(t)
  BY <1>18 DEF ReadSignalLoad
<1>19. CASE ReadState(t)
  BY <1>19 DEF ReadState
<1>20. CASE ReadSleep(t)
  BY <1>20 DEF ReadSleep
<1>21. CASE ReadUncount(t)
  BY <1>21 DEF ReadUncount
<1>22. CASE Unlock(t)
  BY <1>22 DEF Unlock
<1>23. CASE HasWriter(t)
  BY <1>23 DEF HasWriter
<1>24. CASE StoreState(t)
  BY <1>24 DEF StoreState
<1>25. CASE ReadRelease(t)
  BY <1>25 DEF ReadRelease
<1>26. CASE LoadWriters(t)
  BY <1>26 DEF LoadWriters
<1>27. CASE LoadReaders(t)
  BY <1>27 DEF LoadReaders
<1>28. CASE WriteSignal(t)
  BY <1>28 DEF WriteSignal, Outdate
<1>29. CASE ReadSignal(t)
  BY <1>29 DEF ReadSignal, Outdate
<1>30. CASE WriteNotify(t)
  BY <1>30 DEF WriteNotify, At
<1>31. CASE ReadNotify(t)
  BY <1>31 DEF ReadNotify, At
<1> QED
  BY <1>1, <1>2, <1>3, <1>4, <1>5, <1>6, <1>7, <1>8, <1>9, <1>10, <1>11, <1>12, <1>13, <1>14, <1>15, <1>16, <1>17, <1>18, <1>19, <1>20, <1>21, <1>22, <1>23, <1>24, <1>25, <1>26, <1>27, <1>28, <1>29, <1>30, <1>31 DEF Step, Writing, Reading, Unlocking

\* Whoever signals the readers notifies them next.
LEMMA StaleStep ==
  ASSUME TypeOK, StaleFits, NEW t \in Threads, Step(t)
  PROVE  StaleFits'
<1> DEFINE Stale == {u \in Threads : pc[u] = "r_asleep" /\ ~fresh[u]}
<1>0. /\ StaleFits <=> (Stale # {} => At("u_rnotify") # {})
      /\ StaleFits' <=> (Stale' # {} => At("u_rnotify")' # {})
  BY DEF StaleFits
<1>1. \/ Stale' \subseteq Stale /\ At("u_rnotify") \subseteq At("u_rnotify")'
      \/ At("u_rnotify")' # {}
      \/ Stale' = {}
  BY StaleMoves
<1> QED
  BY <1>0, <1>1

-----------------------------------------------------------------------------
(* The theorems.                                                           *)

WaitInv == IInv /\ Waits

LEMMA WaitInvInit == Init => WaitInv
<1> SUFFICES ASSUME Init PROVE WaitInv
  OBVIOUS
<1>1. AddedFits /\ HasWriterFits /\ PendingIsJustified /\ FreshFits /\ StaleFits
  BY DEF Init, AddedFits, HasWriterFits, PendingIsJustified, FreshFits, StaleFits
<1>2. {t \in Threads : added[t] /\ pc[t] \in WriteSlow \cup {"w_uncount"}} = {}
  BY DEF Init
<1>3. {t \in Threads : added[t] /\ pc[t] \in ReadSlow \cup {"r_uncount"}} = {}
  BY DEF Init
<1>4. WaitersAreExact
  BY <1>2, <1>3, FS_EmptySet DEF Init, WaitersAreExact
<1> QED
  BY <1>1, <1>4, IInvInit DEF WaitInv, Waits

LEMMA WaitInvNext == WaitInv /\ [Next]_vars => WaitInv'
<1> SUFFICES ASSUME WaitInv, [Next]_vars PROVE WaitInv'
  OBVIOUS
<1> USE DEF WaitInv, Waits, IInv
<1>0. IInv'
  BY IInvNext
<1>1. CASE Next
  <2>1. PICK t \in Threads : Step(t)
    BY <1>1 DEF Next, Step
  <2>2. AddedFits' /\ WaitersAreExact' /\ HasWriterFits'
    BY <2>1, AddedStep, CountStep, HasWriterStep
  <2>3. PendingIsJustified' /\ FreshFits' /\ StaleFits'
    BY <2>1, PendingStep, FreshStep, StaleStep
  <2> QED
    BY <1>0, <2>2, <2>3
<1>2. CASE UNCHANGED vars
  <2> USE <1>2 DEF vars, lock_state
  <2>1. AddedFits' /\ WaitersAreExact'
    BY DEF AddedFits, WaitersAreExact
  <2>2. HasWriterFits' /\ PendingIsJustified'
    BY DEF HasWriterFits, PendingIsJustified, In
  <2>3. FreshFits' /\ StaleFits'
    BY DEF FreshFits, StaleFits, In, At
  <2> QED
    BY <1>0, <2>1, <2>2, <2>3
<1> QED
  BY <1>1, <1>2

\* Every variable of the lock stays in its range; the reader count never underflows.
THEOREM TypeCorrect == Spec => []TypeOK
BY IInvInit, IInvNext, PTL DEF Spec, IInv

\* Writers exclude each other and every reader, for any number of threads, whatever
\* the signals, the counts and the pending bit do.
THEOREM SharedMutexIsExclusive == Spec => []Exclusion
BY IInvInit, IInvNext, PTL DEF Spec, IInv

\* lock_state_ always says exactly who holds the lock.
THEOREM LockStateIsExact == Spec => []StateIsExact
BY IInvInit, IInvNext, PTL DEF Spec, IInv

\* The waiting counts are the threads that have registered and not left.
THEOREM RegistrationsBalance == Spec => []WaitersAreExact
BY WaitInvInit, WaitInvNext, PTL DEF Spec, WaitInv, Waits

\* A pending bit never outlives the writers it was set for, for any number of writers.
THEOREM PendingNeverLeftBehind == Spec => []PendingIsJustified
BY WaitInvInit, WaitInvNext, PTL DEF Spec, WaitInv, Waits

\* No wakeup of a reader is lost: the re-check of the word after the signal was loaded
\* covers every order of a reader that goes to sleep and a writer that leaves.
THEOREM ReadersAreRemembered == Spec => []NoForgottenReader
<1>1. WaitInv => NoForgottenReader
  BY DEF WaitInv, IInv, Waits, FreshFits, StaleFits, NoForgottenReader, At, In, TypeOK
<1> QED
  BY <1>1, WaitInvInit, WaitInvNext, PTL DEF Spec

=============================================================================
