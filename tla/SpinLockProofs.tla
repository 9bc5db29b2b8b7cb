--------------------------- MODULE SpinLockProofs ---------------------------
(* Theorems about SpinLock, for any finite set of threads that the count can hold   *)
(* and any thresholds.                                                             *)
EXTENDS SpinLock, FiniteSetTheorems, TLAPS

Step(t) == Lock(t) \/ Locking(t) \/ Unlocking(t) \/ Setting(t)

\* A word is compared to take the lock only after it has been found free.
SeenIsFree == \A t \in Threads : pc[t] \in {"try_cas", "cas"} => ~seen[t].lock

\* Where a thread must have joined the count and where it cannot have.
CountedFits ==
  \A t \in Threads :
    /\ pc[t] \in {"sleep", "asleep"} => has_incremented_wait[t]
    /\ has_incremented_wait[t] => pc[t] \in Slow \ {"count"}

\* If every sleeper has gone to sleep on a taken lock, then the lock is taken still, or
\* a thread is about to wake a sleeper, or one in the loop of lock() will take it.
Awake == (Slow \ {"asleep"}) \cup {"notify"}

SleepersHaveAWaker ==
  At("asleep") # {} /\ (\A t \in At("asleep") : seen[t].lock) => flag.lock \/ In(Awake) # {}

IInv ==
  TypeOK /\ LockIsExact /\ CountIsExact /\ SeenIsFree /\ CountedFits /\ SleepersHaveAWaker

-----------------------------------------------------------------------------
(* Words.                                                                  *)

LEMMA StateFields ==
  ASSUME NEW w \in State
  PROVE  w.wait_start \in SUBSET Bits /\ w.wait_count \in 0 .. CountMod - 1 /\ w.lock \in BOOLEAN
BY DEF State

LEMMA ZeroType == Zero \in State
BY CountAssumption DEF Zero, State

\* A word is given by its fields; an update changes the fields it names.
LEMMA WordUpdates ==
  ASSUME NEW w \in State, NEW s \in SUBSET Bits
  PROVE  /\ LET v == [w EXCEPT !.wait_start = s]
            IN v \in State /\ v.lock = w.lock /\ v.wait_count = w.wait_count
         /\ LET v == [w EXCEPT !.wait_start = @ \cup s]
            IN v \in State /\ v.lock = w.lock /\ v.wait_count = w.wait_count
BY DEF State

LEMMA CountUpdates ==
  ASSUME NEW w \in State
  PROVE  /\ LET v == [w EXCEPT !.wait_count = (@ + 1) % CountMod]
            IN /\ v \in State /\ v.lock = w.lock
               /\ w.wait_count + 1 < CountMod => v.wait_count = w.wait_count + 1
         /\ LET v == [w EXCEPT !.lock = FALSE]
            IN v \in State /\ v.lock = FALSE /\ v.wait_count = w.wait_count
<1>1. w.wait_count \in Nat /\ w.wait_count < CountMod /\ CountMod \in Nat /\ CountMod > 0
  BY StateFields, CountAssumption
<1>2. (w.wait_count + 1) % CountMod \in 0 .. CountMod - 1
  BY <1>1
<1>3. w.wait_count + 1 < CountMod => (w.wait_count + 1) % CountMod = w.wait_count + 1
  BY <1>1
<1> QED
  BY <1>2, <1>3 DEF State

LEMMA TakenWord ==
  ASSUME NEW w \in State, NEW t \in Threads
  PROVE  LET v == Taken(t, w)
         IN /\ v \in State /\ v.lock = TRUE
            /\ v.wait_count = IF has_incremented_wait[t] /\ w.wait_count > 0
                              THEN w.wait_count - 1 ELSE w.wait_count
<1>1. /\ w.wait_start \in SUBSET Bits /\ w.wait_count \in Nat /\ w.wait_count < CountMod
      /\ CountMod \in Nat
  BY StateFields, CountAssumption
<1>2. CASE has_incremented_wait[t] /\ w.wait_count > 0
  <2>1. Taken(t, w) = [w EXCEPT !.lock = TRUE, !.wait_count = @ - 1]
    BY <1>2 DEF Taken
  <2>2. w.wait_count - 1 \in 0 .. CountMod - 1
    BY <1>1, <1>2
  <2> QED
    BY <1>2, <2>1, <2>2 DEF State
<1>3. CASE ~(has_incremented_wait[t] /\ w.wait_count > 0)
  <2>1. Taken(t, w) = [w EXCEPT !.lock = TRUE, !.wait_count = @]
    BY <1>3 DEF Taken
  <2> QED
    BY <1>3, <2>1 DEF State
<1> QED
  BY <1>2, <1>3

-----------------------------------------------------------------------------
(* What a step does.                                                       *)

\* Every step leaves the threads at a program point, with a word in range for each.
LEMMA LocalTypeStep ==
  ASSUME TypeOK, NEW t \in Threads, Step(t)
  PROVE  /\ pc' \in [Threads -> Labels] /\ seen' \in [Threads -> State]
         /\ has_incremented_wait' \in [Threads -> BOOLEAN] /\ global_short' \in BOOLEAN
<1> USE ZeroType DEF TypeOK, Goto, See, Labels, Trying, Slow
<1>1. CASE Lock(t)
  BY <1>1 DEF Lock
<1>2. CASE TryLoad(t)
  BY <1>2 DEF TryLoad, AfterFailure
<1>3. CASE TryCas(t)
  BY <1>3 DEF TryCas
<1>4. CASE TryCasFails(t)
  BY <1>4 DEF TryCasFails, AfterFailure
<1>5. CASE Load(t)
  BY <1>5 DEF Load
<1>6. CASE Cas(t)
  BY <1>6 DEF Cas
<1>7. CASE CasFails(t)
  BY <1>7 DEF CasFails
<1>8. CASE Measure(t)
  BY <1>8 DEF Measure, Decide
<1>9. CASE MeasureGlobal(t)
  BY <1>9 DEF MeasureGlobal, Decide
<1>10. CASE Count(t)
  BY <1>10 DEF Count
<1>11. CASE Sleep(t)
  BY <1>11 DEF Sleep
<1>12. CASE Unlock(t)
  BY <1>12 DEF Unlock
<1>13. CASE Notify(t)
  BY <1>13 DEF Notify, At
<1>14. CASE ClearStart(t)
  BY <1>14 DEF ClearStart
<1>15. CASE SetStart(t)
  BY <1>15 DEF SetStart
<1>16. CASE SetGlobal(t)
  BY <1>16 DEF SetGlobal
<1> QED
  BY <1>1, <1>2, <1>3, <1>4, <1>5, <1>6, <1>7, <1>8, <1>9, <1>10, <1>11, <1>12, <1>13, <1>14, <1>15, <1>16 DEF Step, Locking, Unlocking, Setting

\* What a step does to the word, the holders and the counted threads, in four cases.
LEMMA MovingStep ==
  ASSUME TypeOK, SeenIsFree, CountedFits, NEW t \in Threads, Step(t)
  PROVE  LET H == At("held")
             C == {u \in Threads : has_incremented_wait[u]}
         IN \/ /\ flag' \in State /\ flag'.lock = flag.lock /\ flag'.wait_count = flag.wait_count
               /\ H' = H /\ C' = C
            \/ /\ ~flag.lock /\ flag' = Taken(t, flag) /\ H' = H \cup {t} /\ C' = C \ {t}
            \/ /\ flag' = [flag EXCEPT !.wait_count = (@ + 1) % CountMod]
               /\ H' = H /\ t \notin C /\ C' = C \cup {t}
            \/ /\ flag' = [flag EXCEPT !.lock = FALSE] /\ t \in H /\ H' = H \ {t} /\ C' = C
<1> USE DEF TypeOK, Goto, See, At
<1>1. CASE Lock(t)
  BY <1>1 DEF Lock
<1>2. CASE TryLoad(t)
  BY <1>2 DEF TryLoad, AfterFailure
<1>3. CASE TryCas(t)
  BY <1>3 DEF TryCas, Taken, SeenIsFree, CountedFits, Slow, Trying
<1>4. CASE TryCasFails(t)
  BY <1>4 DEF TryCasFails, AfterFailure
<1>5. CASE Load(t)
  BY <1>5 DEF Load
<1>6. CASE Cas(t)
  BY <1>6 DEF Cas, SeenIsFree
<1>7. CASE CasFails(t)
  BY <1>7 DEF CasFails
<1>8. CASE Measure(t)
  BY <1>8 DEF Measure, Decide
<1>9. CASE MeasureGlobal(t)
  BY <1>9 DEF MeasureGlobal, Decide
<1>10. CASE Count(t)
  BY <1>10 DEF Count, CountedFits, Slow
<1>11. CASE Sleep(t)
  BY <1>11 DEF Sleep
<1>12. CASE Unlock(t)
  BY <1>12 DEF Unlock
<1>13. CASE Notify(t)
  BY <1>13 DEF Notify
<1>14. CASE ClearStart(t)
  BY <1>14, WordUpdates DEF ClearStart
<1>15. CASE SetStart(t)
  <2>1. PICK s \in SUBSET Bits : flag' = [flag EXCEPT !.wait_start = @ \cup s]
    BY <1>15 DEF SetStart
  <2>2. flag' \in State /\ flag'.lock = flag.lock /\ flag'.wait_count = flag.wait_count
    BY <2>1, WordUpdates
  <2> QED
    BY <1>15, <2>2 DEF SetStart
<1>16. CASE SetGlobal(t)
  BY <1>16 DEF SetGlobal
<1> QED
  BY <1>1, <1>2, <1>3, <1>4, <1>5, <1>6, <1>7, <1>8, <1>9, <1>10, <1>11, <1>12, <1>13, <1>14, <1>15, <1>16 DEF Step, Locking, Unlocking, Setting

LEMMA SeenStep ==
  ASSUME TypeOK, SeenIsFree, NEW t \in Threads, Step(t)
  PROVE  SeenIsFree'
<1> USE DEF TypeOK, SeenIsFree, Goto, See
<1>1. CASE Lock(t)
  BY <1>1 DEF Lock
<1>2. CASE TryLoad(t)
  BY <1>2 DEF TryLoad, AfterFailure
<1>3. CASE TryCas(t)
  BY <1>3 DEF TryCas
<1>4. CASE TryCasFails(t)
  BY <1>4 DEF TryCasFails, AfterFailure
<1>5. CASE Load(t)
  BY <1>5 DEF Load
<1>6. CASE Cas(t)
  BY <1>6 DEF Cas
<1>7. CASE CasFails(t)
  BY <1>7 DEF CasFails
<1>8. CASE Measure(t)
  BY <1>8 DEF Measure, Decide
<1>9. CASE MeasureGlobal(t)
  BY <1>9 DEF MeasureGlobal, Decide
<1>10. CASE Count(t)
  BY <1>10 DEF Count
<1>11. CASE Sleep(t)
  BY <1>11 DEF Sleep
<1>12. CASE Unlock(t)
  BY <1>12 DEF Unlock
<1>13. CASE Notify(t)
  BY <1>13 DEF Notify, At
<1>14. CASE ClearStart(t)
  BY <1>14 DEF ClearStart
<1>15. CASE SetStart(t)
  BY <1>15 DEF SetStart
<1>16. CASE SetGlobal(t)
  BY <1>16 DEF SetGlobal
<1> QED
  BY <1>1, <1>2, <1>3, <1>4, <1>5, <1>6, <1>7, <1>8, <1>9, <1>10, <1>11, <1>12, <1>13, <1>14, <1>15, <1>16 DEF Step, Locking, Unlocking, Setting

LEMMA CountedFitsStep ==
  ASSUME TypeOK, CountedFits, NEW t \in Threads, Step(t)
  PROVE  CountedFits'
<1> USE DEF TypeOK, CountedFits, Goto, Slow
<1>1. CASE Lock(t)
  BY <1>1 DEF Lock
<1>2. CASE TryLoad(t)
  BY <1>2 DEF TryLoad, AfterFailure
<1>3. CASE TryCas(t)
  BY <1>3 DEF TryCas
<1>4. CASE TryCasFails(t)
  BY <1>4 DEF TryCasFails, AfterFailure
<1>5. CASE Load(t)
  BY <1>5 DEF Load
<1>6. CASE Cas(t)
  BY <1>6 DEF Cas
<1>7. CASE CasFails(t)
  BY <1>7 DEF CasFails
<1>8. CASE Measure(t)
  BY <1>8 DEF Measure, Decide
<1>9. CASE MeasureGlobal(t)
  BY <1>9 DEF MeasureGlobal, Decide
<1>10. CASE Count(t)
  BY <1>10 DEF Count
<1>11. CASE Sleep(t)
  BY <1>11 DEF Sleep
<1>12. CASE Unlock(t)
  BY <1>12 DEF Unlock
<1>13. CASE Notify(t)
  BY <1>13 DEF Notify, At
<1>14. CASE ClearStart(t)
  BY <1>14 DEF ClearStart
<1>15. CASE SetStart(t)
  BY <1>15 DEF SetStart
<1>16. CASE SetGlobal(t)
  BY <1>16 DEF SetGlobal
<1> QED
  BY <1>1, <1>2, <1>3, <1>4, <1>5, <1>6, <1>7, <1>8, <1>9, <1>10, <1>11, <1>12, <1>13, <1>14, <1>15, <1>16 DEF Step, Locking, Unlocking, Setting

-----------------------------------------------------------------------------
(* The lock byte, the count and the sleepers.                              *)

\* Whoever takes the lock compared the word with one that said it was free.
LEMMA LockStep ==
  ASSUME TypeOK, LockIsExact, SeenIsFree, CountedFits, NEW t \in Threads, Step(t)
  PROVE  LockIsExact'
<1> DEFINE H == At("held")
<1>1. flag \in State /\ t \in Threads
  BY DEF TypeOK
<1>2. CASE flag'.lock = flag.lock /\ H' = H
  BY <1>2 DEF LockIsExact
<1>3. CASE ~flag.lock /\ flag'.lock = TRUE /\ H' = H \cup {t}
  <2>1. H = {}
    BY <1>3 DEF LockIsExact
  <2>2. H' = {t}
    BY <1>3, <2>1
  <2> QED
    BY <1>3, <2>2 DEF LockIsExact
<1>4. CASE flag'.lock = FALSE /\ t \in H /\ H' = H \ {t}
  <2>1. H' = {}
    BY <1>4 DEF LockIsExact
  <2> QED
    BY <1>4, <2>1 DEF LockIsExact
<1> QED
  <2>1. flag' = Taken(t, flag) => flag'.lock = TRUE
    BY <1>1, TakenWord
  <2>2. /\ flag' = [flag EXCEPT !.wait_count = (@ + 1) % CountMod] => flag'.lock = flag.lock
        /\ flag' = [flag EXCEPT !.lock = FALSE] => flag'.lock = FALSE
    BY <1>1, CountUpdates
  <2>3. \/ flag'.lock = flag.lock /\ H' = H
        \/ ~flag.lock /\ flag' = Taken(t, flag) /\ H' = H \cup {t}
        \/ flag' = [flag EXCEPT !.wait_count = (@ + 1) % CountMod] /\ H' = H
        \/ flag' = [flag EXCEPT !.lock = FALSE] /\ t \in H /\ H' = H \ {t}
    BY MovingStep
  <2> QED
    BY <1>2, <1>3, <1>4, <2>1, <2>2, <2>3

\* How the number of threads in a set changes when one joins it or leaves it.
LEMMA Counting ==
  ASSUME NEW S \in SUBSET Threads, NEW t \in Threads
  PROVE  /\ Cardinality(S) \in Nat /\ Cardinality(S) < CountMod
         /\ t \notin S => Cardinality(S \cup {t}) = Cardinality(S) + 1
         /\ t \in S => /\ Cardinality(S) > 0
                       /\ Cardinality(S \ {t}) = Cardinality(S) - 1
<1>1. IsFiniteSet(S) /\ Cardinality(S) \in Nat /\ Cardinality(S) <= Cardinality(Threads)
  BY FewThreads, FS_Subset, FS_CardinalityType
<1>2. Cardinality(Threads) \in Nat
  BY FewThreads, FS_CardinalityType
<1>3. Cardinality(S) < CountMod
  BY <1>1, <1>2, CountAssumption, FewThreads
<1>4. t \notin S => Cardinality(S \cup {t}) = Cardinality(S) + 1
  BY <1>1, FS_AddElement
<1>5. t \in S => Cardinality(S \ {t}) = Cardinality(S) - 1 /\ Cardinality(S) > 0
  BY <1>1, FS_RemoveElement, FS_EmptySet
<1> QED
  BY <1>1, <1>3, <1>4, <1>5

\* The count follows the threads that join and leave, without wrapping.
LEMMA CountStep ==
  ASSUME TypeOK, CountIsExact, SeenIsFree, CountedFits, NEW t \in Threads, Step(t)
  PROVE  CountIsExact' /\ flag' \in State
<1> DEFINE C == {u \in Threads : has_incremented_wait[u]}
<1>1. flag \in State /\ flag.wait_count = Cardinality(C) /\ C \in SUBSET Threads
  BY DEF TypeOK, CountIsExact
<1>2. CountIsExact' <=> flag'.wait_count = Cardinality(C')
  BY DEF CountIsExact
<1>3. t \in C <=> has_incremented_wait[t]
  OBVIOUS
<1> HIDE DEF C
<1>4. CASE flag' \in State /\ flag'.wait_count = flag.wait_count /\ C' = C
  BY <1>1, <1>2, <1>4
<1>5. CASE flag' = Taken(t, flag) /\ C' = C \ {t}
  <2>1. /\ flag' \in State
        /\ flag'.wait_count = IF t \in C /\ flag.wait_count > 0
                             THEN flag.wait_count - 1 ELSE flag.wait_count
    BY <1>1, <1>3, <1>5, TakenWord
  <2>2. CASE t \in C
    BY <1>1, <1>2, <1>5, <2>1, <2>2, Counting
  <2>3. CASE t \notin C
    <3>1. C' = C
      BY <1>5, <2>3
    <3> QED
      BY <1>1, <1>2, <2>1, <2>3, <3>1
  <2> QED
    BY <2>2, <2>3
<1>6. CASE flag' = [flag EXCEPT !.wait_count = (@ + 1) % CountMod] /\ t \notin C /\ C' = C \cup {t}
  <2>1. Cardinality(C \cup {t}) = flag.wait_count + 1
    BY <1>1, <1>6, Counting
  <2>2. C \cup {t} \in SUBSET Threads
    BY <1>1
  <2>3. flag.wait_count + 1 < CountMod
    BY <2>1, <2>2, Counting
  <2> QED
    BY <1>1, <1>2, <1>6, <2>1, <2>3, CountUpdates
<1> QED
  <2>1. flag' = [flag EXCEPT !.lock = FALSE] => flag' \in State /\ flag'.wait_count = flag.wait_count
    BY <1>1, CountUpdates
  <2>2. \/ flag' \in State /\ flag'.wait_count = flag.wait_count /\ C' = C
        \/ flag' = Taken(t, flag) /\ C' = C \ {t}
        \/ /\ flag' = [flag EXCEPT !.wait_count = (@ + 1) % CountMod]
           /\ t \notin C /\ C' = C \cup {t}
        \/ flag' = [flag EXCEPT !.lock = FALSE] /\ C' = C
    BY MovingStep DEF C
  <2> QED
    BY <1>4, <1>5, <1>6, <2>1, <2>2

\* Whoever unlocks while a thread sleeps reads its count, and goes on to notify.
LEMMA SleepersAreCounted ==
  ASSUME TypeOK, CountIsExact, CountedFits, At("asleep") # {}
  PROVE  flag.wait_count > 0
<1>1. PICK u \in Threads : pc[u] = "asleep"
  BY DEF At
<1>2. u \in {v \in Threads : has_incremented_wait[v]}
  BY <1>1 DEF CountedFits
<1> QED
  BY <1>2, Counting DEF CountIsExact

\* What a step does to the sleepers and to the threads that are on their way.
LEMMA SleepingStep ==
  ASSUME TypeOK, NEW t \in Threads, Step(t)
  PROVE  \/ /\ At("asleep")' = At("asleep") /\ flag'.lock = flag.lock
            /\ In(Awake) # {} => In(Awake)' # {} \/ At("asleep") = {}
            /\ \A u \in At("asleep") : seen'[u] = seen[u]
         \/ flag'.lock = TRUE
         \/ Unlock(t)
         \/ /\ flag' = flag /\ flag = seen[t] /\ seen' = seen
            /\ At("asleep")' = At("asleep") \cup {t}
         \/ In(Awake)' # {}
<1> USE DEF TypeOK, Goto, See, At, In, Awake, Slow
<1>1. CASE Lock(t)
  BY <1>1 DEF Lock
<1>2. CASE TryLoad(t)
  BY <1>2 DEF TryLoad, AfterFailure
<1>3. CASE TryCas(t)
  BY <1>3, StateFields DEF TryCas, State
<1>4. CASE TryCasFails(t)
  BY <1>4 DEF TryCasFails, AfterFailure
<1>5. CASE Load(t)
  BY <1>5 DEF Load
<1>6. CASE Cas(t)
  BY <1>6, StateFields, TakenWord DEF Cas
<1>7. CASE CasFails(t)
  BY <1>7 DEF CasFails
<1>8. CASE Measure(t)
  BY <1>8 DEF Measure, Decide
<1>9. CASE MeasureGlobal(t)
  BY <1>9 DEF MeasureGlobal, Decide
<1>10. CASE Count(t)
  BY <1>10, CountUpdates DEF Count
<1>11. CASE Sleep(t)
  BY <1>11 DEF Sleep
<1>12. CASE Unlock(t)
  BY <1>12 DEF Unlock
<1>13. CASE Notify(t)
  BY <1>13 DEF Notify
<1>14. CASE ClearStart(t)
  BY <1>14, StateFields DEF ClearStart, State
<1>15. CASE SetStart(t)
  BY <1>15, StateFields DEF SetStart, State
<1>16. CASE SetGlobal(t)
  BY <1>16 DEF SetGlobal
<1> QED
  BY <1>1, <1>2, <1>3, <1>4, <1>5, <1>6, <1>7, <1>8, <1>9, <1>10, <1>11, <1>12, <1>13, <1>14, <1>15, <1>16 DEF Step, Locking, Unlocking, Setting

LEMMA WakerStep ==
  ASSUME TypeOK, CountIsExact, CountedFits, SleepersHaveAWaker, NEW t \in Threads, Step(t)
  PROVE  SleepersHaveAWaker'
<1>1. CASE /\ At("asleep")' = At("asleep") /\ flag'.lock = flag.lock
           /\ In(Awake) # {} => In(Awake)' # {} \/ At("asleep") = {}
           /\ \A u \in At("asleep") : seen'[u] = seen[u]
  BY <1>1 DEF SleepersHaveAWaker
<1>2. CASE flag'.lock = TRUE
  BY <1>2 DEF SleepersHaveAWaker
<1>3. CASE Unlock(t)
  <2>1. At("asleep")' = At("asleep")
    BY <1>3 DEF Unlock, At, Goto, TypeOK
  <2>2. At("asleep") # {} => pc'[t] = "notify"
    BY <1>3, SleepersAreCounted DEF Unlock, Goto, TypeOK
  <2> QED
    BY <2>1, <2>2 DEF SleepersHaveAWaker, In, Awake
<1>4. CASE /\ flag' = flag /\ flag = seen[t] /\ seen' = seen
           /\ At("asleep")' = At("asleep") \cup {t}
  BY <1>4 DEF SleepersHaveAWaker
<1>5. CASE In(Awake)' # {}
  BY <1>5 DEF SleepersHaveAWaker
<1> QED
  BY <1>1, <1>2, <1>3, <1>4, <1>5, SleepingStep

-----------------------------------------------------------------------------
(* The theorems.                                                           *)

LEMMA IInvInit == Init => IInv
<1> SUFFICES ASSUME Init PROVE IInv
  OBVIOUS
<1>1. TypeOK
  BY ZeroType DEF Init, TypeOK, Labels
<1>2. At("held") = {} /\ At("asleep") = {}
  BY DEF Init, At
<1>3. {t \in Threads : has_incremented_wait[t]} = {}
  BY DEF Init
<1>4. LockIsExact /\ SleepersHaveAWaker
  BY <1>2 DEF Init, LockIsExact, SleepersHaveAWaker, Zero
<1>5. CountIsExact
  BY <1>3, FS_EmptySet DEF Init, CountIsExact, Zero
<1>6. SeenIsFree /\ CountedFits
  BY DEF Init, SeenIsFree, CountedFits, Zero
<1> QED
  BY <1>1, <1>4, <1>5, <1>6 DEF IInv

LEMMA IInvNext == IInv /\ [Next]_vars => IInv'
<1> SUFFICES ASSUME IInv, [Next]_vars PROVE IInv'
  OBVIOUS
<1> USE DEF IInv
<1>1. CASE Next
  <2>1. PICK t \in Threads : Step(t)
    BY <1>1 DEF Next, Step
  <2>2. CountIsExact' /\ flag' \in State
    BY <2>1, CountStep
  <2>3. TypeOK'
    BY <2>1, <2>2, LocalTypeStep DEF TypeOK
  <2>4. LockIsExact' /\ SeenIsFree' /\ CountedFits' /\ SleepersHaveAWaker'
    BY <2>1, LockStep, SeenStep, CountedFitsStep, WakerStep
  <2> QED
    BY <2>2, <2>3, <2>4
<1>2. CASE UNCHANGED vars
  BY <1>2 DEF vars, TypeOK, LockIsExact, CountIsExact, SeenIsFree, CountedFits,
              SleepersHaveAWaker, At, In
<1> QED
  BY <1>1, <1>2

\* Every variable stays in its range; the count does not wrap.
THEOREM TypeCorrect == Spec => []TypeOK
BY IInvInit, IInvNext, PTL DEF Spec, IInv

\* One thread holds the lock, exactly while the lock byte is set, for any number of
\* threads, waiters and threshold setters that write the word between its locks.
THEOREM SpinLockIsExclusive == Spec => []LockIsExact
BY IInvInit, IInvNext, PTL DEF Spec, IInv

\* The count is the number of threads that have joined it and not left, whatever
\* compare-exchange fails in between, as long as 16 bits can count the threads.
THEOREM CountBalances == Spec => []CountIsExact
BY IInvInit, IInvNext, PTL DEF Spec, IInv

\* A thread is left asleep on a free lock only if some thread fell asleep on a word
\* that said the lock was free: the stale old_val is the only way to lose a wakeup.
THEOREM WakeupsKept == Spec => []ForgottenIsStale
<1>1. IInv => ForgottenIsStale
  <2> SUFFICES ASSUME IInv, Forgotten, \A t \in At("asleep") : seen[t].lock PROVE FALSE
    BY DEF ForgottenIsStale
  <2>1. flag.lock \/ In(Awake) # {}
    BY DEF IInv, SleepersHaveAWaker, Forgotten
  <2>2. In(Awake) \subseteq In(Trying \cup (Slow \ {"asleep"}) \cup {"notify"})
    BY DEF In, Awake
  <2> QED
    BY <2>1, <2>2 DEF Forgotten
<1> QED
  BY <1>1, IInvInit, IInvNext, PTL DEF Spec

=============================================================================
