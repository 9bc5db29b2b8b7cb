---------------------------- MODULE RwLockProofs ----------------------------
(* Theorems about RwLock, for any sets of writers and readers that together are
   fewer than the fields count. *)
EXTENDS RwLock, FiniteSetTheorems, TLAPS

Step(t) == Lock(t) \/ Locking(t) \/ Unlocking(t)

\* The word a thread is about to compare still allowed it to enter when it was
\* loaded; so it does now, if the compare-exchange succeeds.
SeenAllows ==
  \A t \in Threads : /\ pc[t] = "try_cas" => MayTry(t, seen[t])
                     /\ pc[t] = "cas" => MayEnter(t, seen[t])

\* Where a thread must be registered and where it cannot be.
IsWaitFits ==
  \A t \in Threads :
    /\ pc[t] \in {"reload", "recheck", "deregister", "sleep", "asleep"} => is_wait[t]
    /\ pc[t] \notin (Slow \ {"register"}) \cup {"retire"} => ~is_wait[t]

Counts == TypeOK /\ WordIsExact /\ RegistrationsAreExact /\ SeenAllows /\ IsWaitFits

-----------------------------------------------------------------------------
(* Who holds the lock, who has announced himself, and what the word says.  *)

\* What a step does to the word and to the two sets it counts, in five cases.
LEMMA MovingStep ==
  ASSUME TypeOK, NEW t \in Threads, Step(t)
  PROVE  LET H == In(Holding)
             S == In(Slow)
         IN \/ state' = state /\ H' = H /\ S' = S
            \/ /\ pc[t] = "try_cas" /\ state = seen[t] /\ state' = Activated(t, state)
               /\ t \notin H /\ H' = H \cup {t} /\ S' = S
            \/ /\ state' = Prepared(t, state, 1)
               /\ t \notin S /\ S' = S \cup {t} /\ H' = H
            \/ /\ pc[t] = "cas" /\ state = seen[t]
               /\ state' = Activated(t, Prepared(t, state, -1))
               /\ t \in S /\ S' = S \ {t} /\ t \notin H /\ H' = H \cup {t}
            \/ /\ state' = Released(t, state)
               /\ t \in H /\ H' = H \ {t} /\ S' = S
<1> USE DEF In, Holding, Slow, TypeOK, Goto
<1>1. CASE Lock(t)
  BY <1>1 DEF Lock
<1>2. CASE TryLoad(t)
  BY <1>2 DEF TryLoad, AfterFailure
<1>3. CASE TryCas(t)
  BY <1>3 DEF TryCas, AfterFailure
<1>4. CASE Prepare(t)
  BY <1>4 DEF Prepare
<1>5. CASE Load(t)
  BY <1>5 DEF Load
<1>6. CASE Cas(t)
  BY <1>6 DEF Cas
<1>7. CASE Decide(t)
  BY <1>7 DEF Decide
<1>8. CASE RegisterWaiter(t)
  BY <1>8 DEF RegisterWaiter
<1>9. CASE Reload(t)
  BY <1>9 DEF Reload
<1>10. CASE Recheck(t)
  BY <1>10 DEF Recheck
<1>11. CASE Deregister(t)
  BY <1>11 DEF Deregister
<1>12. CASE Sleep(t)
  BY <1>12 DEF Sleep
<1>13. CASE Retire(t)
  BY <1>13 DEF Retire
<1>14. CASE Unlock(t)
  BY <1>14 DEF Unlock
<1>15. CASE WakeWriters(t)
  BY <1>15 DEF WakeWriters
<1>16. CASE NotifyWriter(t)
  BY <1>16 DEF NotifyWriter, At
<1>17. CASE WakeReaders(t)
  BY <1>17 DEF WakeReaders
<1>18. CASE NotifyReaders(t)
  BY <1>18 DEF NotifyReaders, At
<1> QED
  BY <1>1, <1>2, <1>3, <1>4, <1>5, <1>6, <1>7, <1>8, <1>9, <1>10, <1>11, <1>12, <1>13, <1>14, <1>15, <1>16, <1>17, <1>18 DEF Step, Locking, Unlocking

\* The words that the operators make, field by field.
Fields(a, b, c, d) == [prep_read |-> a, prep_write |-> b, acti_read |-> c, acti_write |-> d]

LEMMA WriterFields ==
  ASSUME NEW t, NEW w \in Word, Writes(t)
  PROVE  /\ Activated(t, w) = Fields(w.prep_read, w.prep_write, w.acti_read, 1)
         /\ Prepared(t, w, 1) = Fields(w.prep_read, (w.prep_write + 1) % CountMod, w.acti_read, w.acti_write)
         /\ Activated(t, Prepared(t, w, -1)) =
              Fields(w.prep_read, (w.prep_write - 1) % CountMod, w.acti_read, 1)
         /\ Released(t, w) = Fields(w.prep_read, w.prep_write, w.acti_read, 0)
BY DEF Activated, Prepared, Released, Word, Fields

LEMMA ReaderFields ==
  ASSUME NEW t, NEW w \in Word, ~Writes(t)
  PROVE  /\ Activated(t, w) = Fields(w.prep_read, w.prep_write, (w.acti_read + 1) % CountMod, w.acti_write)
         /\ Prepared(t, w, 1) = Fields((w.prep_read + 1) % CountMod, w.prep_write, w.acti_read, w.acti_write)
         /\ Activated(t, Prepared(t, w, -1)) =
              Fields((w.prep_read - 1) % CountMod, w.prep_write, (w.acti_read + 1) % CountMod, w.acti_write)
         /\ Released(t, w) = Fields(w.prep_read, w.prep_write, (w.acti_read - 1) % CountMod, w.acti_write)
BY DEF Activated, Prepared, Released, Word, Fields

\* How a count that does not wrap follows a set of threads that one thread joins or leaves.
LEMMA Counting ==
  ASSUME NEW S \in SUBSET Threads, NEW t \in Threads
  PROVE  /\ Cardinality(S) \in Count
         /\ t \notin S => Cardinality(S \cup {t}) = (Cardinality(S) + 1) % CountMod
         /\ t \in S => Cardinality(S \ {t}) = (Cardinality(S) - 1) % CountMod
         /\ Cardinality(S) = 0 <=> S = {}
<1>1. IsFiniteSet(S) /\ Cardinality(S) \in Nat /\ CountMod \in Nat /\ Cardinality(S) < CountMod
  <2>1. /\ IsFiniteSet(S) /\ Cardinality(S) <= Cardinality(Threads)
        /\ Cardinality(S) \in Nat /\ Cardinality(Threads) \in Nat
    BY FewThreads, FS_Subset, FS_CardinalityType
  <2> QED
    BY <2>1, FewThreads, CountAssumption
<1>2. CASE t \notin S
  <2>1. Cardinality(S \cup {t}) = Cardinality(S) + 1
    BY <1>1, <1>2, FS_AddElement
  <2>2. Cardinality(S \cup {t}) <= Cardinality(Threads) /\ Cardinality(Threads) \in Nat
    BY FewThreads, FS_Subset, FS_CardinalityType
  <2>3. Cardinality(S) + 1 < CountMod
    BY <1>1, <2>1, <2>2, FewThreads
  <2>4. (Cardinality(S) + 1) % CountMod = Cardinality(S) + 1
    BY <1>1, <2>3
  <2> QED
    BY <1>1, <1>2, <2>1, <2>4, FS_EmptySet DEF Count
<1>3. CASE t \in S
  <2>1. Cardinality(S \ {t}) = Cardinality(S) - 1 /\ Cardinality(S \ {t}) \in Nat
    BY <1>1, <1>3, FS_RemoveElement, FS_CardinalityType
  <2>2. (Cardinality(S) - 1) % CountMod = Cardinality(S) - 1
    BY <1>1, <2>1
  <2> QED
    BY <1>1, <1>3, <2>1, <2>2, FS_EmptySet DEF Count
<1> QED
  BY <1>2, <1>3

\* The word goes on counting: an announcement, an entry and a release move the
\* thread and the field together, and whoever enters is let in by the word.
LEMMA WordStep ==
  ASSUME TypeOK, WordIsExact, SeenAllows, NEW t \in Threads, Step(t)
  PROVE  WordIsExact' /\ state' \in Word
<1> DEFINE H == In(Holding)
           S == In(Slow)
           HW == H \cap Writers
           HR == H \cap Readers
           SW == S \cap Writers
           SR == S \cap Readers
<1>1. /\ HW \in SUBSET Threads /\ HR \in SUBSET Threads
      /\ SW \in SUBSET Threads /\ SR \in SUBSET Threads
      /\ HW' \in SUBSET Threads /\ HR' \in SUBSET Threads
      /\ SW' \in SUBSET Threads /\ SR' \in SUBSET Threads
  BY DEF In
<1>2. /\ state \in Word
      /\ state.acti_write = Cardinality(HW) /\ state.acti_read = Cardinality(HR)
      /\ state.prep_write = Cardinality(SW) /\ state.prep_read = Cardinality(SR)
      /\ state.acti_write > 0 => state.acti_write = 1 /\ state.acti_read = 0
  BY DEF TypeOK, WordIsExact
<1>3. state.acti_write \in {0, 1}
  BY <1>2 DEF Word
<1>4. /\ Writes(t) => t \in Writers /\ t \notin Readers
      /\ ~Writes(t) => t \in Readers /\ t \notin Writers
  BY KindsAssumption DEF Writes
\* It suffices to name the fields of the new word and to compare them with the sets.
<1>5. ASSUME NEW a, NEW b, NEW c, NEW d \in {0, 1},
             state' = Fields(a, b, c, d),
             a = Cardinality(SR'), b = Cardinality(SW'),
             c = Cardinality(HR'), d = Cardinality(HW'),
             d = 1 => c = 0
      PROVE  WordIsExact' /\ state' \in Word
  <2>1. a \in Count /\ b \in Count /\ c \in Count
    BY <1>1, <1>5, Counting
  <2> QED
    BY <1>5, <2>1 DEF WordIsExact, Word, Fields
<1>6. CASE state' = state /\ H' = H /\ S' = S
  BY <1>2, <1>6 DEF WordIsExact
<1> HIDE DEF HW, HR, SW, SR
\* try_lock()
<1>7. CASE /\ pc[t] = "try_cas" /\ state = seen[t] /\ state' = Activated(t, state)
           /\ t \notin H /\ H' = H \cup {t} /\ S' = S
  <2>0. MayTry(t, state)
    BY <1>7 DEF SeenAllows
  <2>1. CASE Writes(t)
    <3>1. state' = Fields(state.prep_read, state.prep_write, state.acti_read, 1)
      BY <1>2, <1>7, <2>1, WriterFields
    <3>2. HW = {} /\ HR = {} /\ state.acti_read = 0
      BY <1>1, <1>2, <2>0, <2>1, Counting DEF MayTry
    <3>3. HW' = {t} /\ HR' = HR /\ SW' = SW /\ SR' = SR
      BY <1>4, <1>7, <2>1, <3>2 DEF HW, HR, SW, SR
    <3>4. Cardinality(HW') = 1
      BY <1>1, <1>2, <3>3, Counting, FS_Singleton
    <3>5. /\ state.prep_read = Cardinality(SR') /\ state.prep_write = Cardinality(SW')
          /\ state.acti_read = Cardinality(HR')
      BY <1>2, <3>3
    <3> QED
      BY <1>5, <3>1, <3>2, <3>4, <3>5
  <2>2. CASE ~Writes(t)
    <3>1. state' = Fields(state.prep_read, state.prep_write, (state.acti_read + 1) % CountMod, state.acti_write)
      BY <1>2, <1>7, <2>2, ReaderFields
    <3>2. state.acti_write = 0
      BY <1>1, <1>2, <2>0, <2>2, Counting DEF MayTry
    <3>3. HR' = HR \cup {t} /\ t \notin HR /\ HW' = HW /\ SW' = SW /\ SR' = SR
      BY <1>4, <1>7, <2>2, <3>2 DEF HW, HR, SW, SR
    <3>4. Cardinality(HR') = (state.acti_read + 1) % CountMod
      BY <1>1, <1>2, <3>3, Counting, FS_Singleton
    <3>5. /\ state.prep_read = Cardinality(SR') /\ state.prep_write = Cardinality(SW')
          /\ state.acti_write = Cardinality(HW')
      BY <1>2, <3>3
    <3> QED
      BY <1>3, <1>5, <3>1, <3>2, <3>4, <3>5
  <2> QED
    BY <2>1, <2>2
\* the announcement
<1>8. CASE /\ state' = Prepared(t, state, 1)
           /\ t \notin S /\ S' = S \cup {t} /\ H' = H
  <2>1. CASE Writes(t)
    <3>1. state' = Fields(state.prep_read, (state.prep_write + 1) % CountMod, state.acti_read, state.acti_write)
      BY <1>2, <1>8, <2>1, WriterFields
    <3>2. SW' = SW \cup {t} /\ t \notin SW /\ HW' = HW /\ HR' = HR /\ SR' = SR
      BY <1>4, <1>8, <2>1 DEF HW, HR, SW, SR
    <3>3. Cardinality(SW') = (state.prep_write + 1) % CountMod
      BY <1>1, <1>2, <3>2, Counting, FS_Singleton
    <3> QED
      BY <1>2, <1>3, <1>5, <3>1, <3>2, <3>3
  <2>2. CASE ~Writes(t)
    <3>1. state' = Fields((state.prep_read + 1) % CountMod, state.prep_write, state.acti_read, state.acti_write)
      BY <1>2, <1>8, <2>2, ReaderFields
    <3>2. SR' = SR \cup {t} /\ t \notin SR /\ HW' = HW /\ HR' = HR /\ SW' = SW
      BY <1>4, <1>8, <2>2 DEF HW, HR, SW, SR
    <3>3. Cardinality(SR') = (state.prep_read + 1) % CountMod
      BY <1>1, <1>2, <3>2, Counting, FS_Singleton
    <3> QED
      BY <1>2, <1>3, <1>5, <3>1, <3>2, <3>3
  <2> QED
    BY <2>1, <2>2
\* the entry on the slow path
<1>9. CASE /\ pc[t] = "cas" /\ state = seen[t]
           /\ state' = Activated(t, Prepared(t, state, -1))
           /\ t \in S /\ S' = S \ {t} /\ t \notin H /\ H' = H \cup {t}
  <2>0. MayEnter(t, state)
    BY <1>9 DEF SeenAllows
  <2>1. CASE Writes(t)
    <3>1. state' = Fields(state.prep_read, (state.prep_write - 1) % CountMod, state.acti_read, 1)
      BY <1>2, <1>9, <2>1, WriterFields
    <3>2. HW = {} /\ HR = {} /\ state.acti_read = 0
      BY <1>1, <1>2, <2>0, <2>1, Counting DEF MayEnter
    <3>3. HW' = {t} /\ HR' = HR /\ SW' = SW \ {t} /\ t \in SW /\ SR' = SR
      BY <1>4, <1>9, <2>1, <3>2 DEF HW, HR, SW, SR
    <3>4. Cardinality(HW') = 1
      BY <1>1, <1>2, <3>3, Counting, FS_Singleton
    <3>5. Cardinality(SW') = (state.prep_write - 1) % CountMod
      BY <1>1, <1>2, <3>3, Counting
    <3> QED
      BY <1>2, <1>3, <1>5, <3>1, <3>2, <3>3, <3>4, <3>5
  <2>2. CASE ~Writes(t)
    <3>1. state' = Fields((state.prep_read - 1) % CountMod, state.prep_write, (state.acti_read + 1) % CountMod, state.acti_write)
      BY <1>2, <1>9, <2>2, ReaderFields
    <3>2. state.acti_write = 0
      BY <1>1, <1>2, <2>0, <2>2, Counting DEF MayEnter
    <3>3. /\ HR' = HR \cup {t} /\ t \notin HR /\ HW' = HW
          /\ SR' = SR \ {t} /\ t \in SR /\ SW' = SW
      BY <1>4, <1>9, <2>2, <3>2 DEF HW, HR, SW, SR
    <3>4. Cardinality(HR') = (state.acti_read + 1) % CountMod
      BY <1>1, <1>2, <3>3, Counting, FS_Singleton
    <3>5. Cardinality(SR') = (state.prep_read - 1) % CountMod
      BY <1>1, <1>2, <3>3, Counting
    <3>6. /\ state.prep_write = Cardinality(SW') /\ state.acti_write = Cardinality(HW')
      BY <1>2, <3>3
    <3> QED
      BY <1>3, <1>5, <3>1, <3>2, <3>4, <3>5, <3>6
  <2> QED
    BY <2>1, <2>2
\* unlock()
<1>10. CASE /\ state' = Released(t, state)
            /\ t \in H /\ H' = H \ {t} /\ S' = S
  <2>1. CASE Writes(t)
    <3>1. state' = Fields(state.prep_read, state.prep_write, state.acti_read, 0)
      BY <1>2, <1>10, <2>1, WriterFields
    <3>2. HW' = HW \ {t} /\ t \in HW /\ HR' = HR /\ SW' = SW /\ SR' = SR
      BY <1>4, <1>10, <2>1 DEF HW, HR, SW, SR
    <3>3. state.acti_write = 1
      BY <1>1, <1>2, <1>3, <3>2, Counting
    <3>4. Cardinality(HW') = 0
      <4>1. IsFiniteSet(HW)
        BY <1>1, FewThreads, FS_Subset
      <4>2. Cardinality(HW \ {t}) = Cardinality(HW) - 1
        BY <3>2, <4>1, FS_RemoveElement
      <4>3. Cardinality(HW') = 1 - 1
        BY <1>2, <3>2, <3>3, <4>2
      <4> QED
        BY <4>3
    <3> QED
      BY <1>2, <1>3, <1>5, <3>1, <3>2, <3>3, <3>4
  <2>2. CASE ~Writes(t)
    <3>1. state' = Fields(state.prep_read, state.prep_write, (state.acti_read - 1) % CountMod, state.acti_write)
      BY <1>2, <1>10, <2>2, ReaderFields
    <3>2. HR' = HR \ {t} /\ t \in HR /\ HW' = HW /\ SW' = SW /\ SR' = SR
      BY <1>4, <1>10, <2>2 DEF HW, HR, SW, SR
    <3>3. Cardinality(HR') = (state.acti_read - 1) % CountMod
      BY <1>1, <1>2, <3>2, Counting
    <3>4. state.acti_write = 0
      <4>1. state.acti_read # 0
        BY <1>1, <1>2, <3>2, Counting
      <4> QED
        BY <1>2, <1>3, <4>1
    <3> QED
      BY <1>2, <1>3, <1>5, <3>1, <3>2, <3>3, <3>4
  <2> QED
    BY <2>1, <2>2
<1> QED
  BY MovingStep, <1>6, <1>7, <1>8, <1>9, <1>10

\* A word is compared only after it has been found to allow the entry.
LEMMA SeenStep ==
  ASSUME TypeOK, SeenAllows, NEW t \in Threads, Step(t)
  PROVE  SeenAllows'
<1> USE DEF TypeOK, SeenAllows, Goto
<1>1. CASE Lock(t)
  BY <1>1 DEF Lock
<1>2. CASE TryLoad(t)
  BY <1>2 DEF TryLoad, AfterFailure
<1>3. CASE TryCas(t)
  BY <1>3 DEF TryCas, AfterFailure
<1>4. CASE Prepare(t)
  BY <1>4 DEF Prepare
<1>5. CASE Load(t)
  BY <1>5 DEF Load
<1>6. CASE Cas(t)
  BY <1>6 DEF Cas
<1>7. CASE Decide(t)
  BY <1>7 DEF Decide
<1>8. CASE RegisterWaiter(t)
  BY <1>8 DEF RegisterWaiter
<1>9. CASE Reload(t)
  BY <1>9 DEF Reload
<1>10. CASE Recheck(t)
  BY <1>10 DEF Recheck
<1>11. CASE Deregister(t)
  BY <1>11 DEF Deregister
<1>12. CASE Sleep(t)
  BY <1>12 DEF Sleep
<1>13. CASE Retire(t)
  BY <1>13 DEF Retire
<1>14. CASE Unlock(t)
  BY <1>14 DEF Unlock
<1>15. CASE WakeWriters(t)
  BY <1>15 DEF WakeWriters
<1>16. CASE NotifyWriter(t)
  BY <1>16 DEF NotifyWriter, At
<1>17. CASE WakeReaders(t)
  BY <1>17 DEF WakeReaders
<1>18. CASE NotifyReaders(t)
  BY <1>18 DEF NotifyReaders, At
<1> QED
  BY <1>1, <1>2, <1>3, <1>4, <1>5, <1>6, <1>7, <1>8, <1>9, <1>10, <1>11, <1>12, <1>13, <1>14, <1>15, <1>16, <1>17, <1>18 DEF Step, Locking, Unlocking

-----------------------------------------------------------------------------
(* Registration in the wait words.                                         *)

LEMMA IsWaitStep ==
  ASSUME TypeOK, IsWaitFits, NEW t \in Threads, Step(t)
  PROVE  IsWaitFits'
<1> USE DEF TypeOK, IsWaitFits, Slow, Goto
<1>1. CASE Lock(t)
  BY <1>1 DEF Lock
<1>2. CASE TryLoad(t)
  BY <1>2 DEF TryLoad, AfterFailure
<1>3. CASE TryCas(t)
  BY <1>3 DEF TryCas, AfterFailure
<1>4. CASE Prepare(t)
  BY <1>4 DEF Prepare
<1>5. CASE Load(t)
  BY <1>5 DEF Load
<1>6. CASE Cas(t)
  BY <1>6 DEF Cas
<1>7. CASE Decide(t)
  BY <1>7 DEF Decide
<1>8. CASE RegisterWaiter(t)
  BY <1>8 DEF RegisterWaiter
<1>9. CASE Reload(t)
  BY <1>9 DEF Reload
<1>10. CASE Recheck(t)
  BY <1>10 DEF Recheck
<1>11. CASE Deregister(t)
  BY <1>11 DEF Deregister
<1>12. CASE Sleep(t)
  BY <1>12 DEF Sleep
<1>13. CASE Retire(t)
  BY <1>13 DEF Retire
<1>14. CASE Unlock(t)
  BY <1>14 DEF Unlock
<1>15. CASE WakeWriters(t)
  BY <1>15 DEF WakeWriters
<1>16. CASE NotifyWriter(t)
  BY <1>16 DEF NotifyWriter, At
<1>17. CASE WakeReaders(t)
  BY <1>17 DEF WakeReaders
<1>18. CASE NotifyReaders(t)
  BY <1>18 DEF NotifyReaders, At
<1> QED
  BY <1>1, <1>2, <1>3, <1>4, <1>5, <1>6, <1>7, <1>8, <1>9, <1>10, <1>11, <1>12, <1>13, <1>14, <1>15, <1>16, <1>17, <1>18 DEF Step, Locking, Unlocking

\* A step leaves the registrations alone, registers its thread, or deregisters it.
LEMMA RegisteringStep ==
  ASSUME TypeOK, IsWaitFits, NEW t \in Threads, Step(t)
  PROVE  \/ wait_write' = wait_write /\ wait_read' = wait_read /\ is_wait' = is_wait
         \/ /\ ~is_wait[t] /\ Register(t, 1)
            /\ is_wait' = [is_wait EXCEPT ![t] = TRUE]
         \/ /\ is_wait[t] /\ Register(t, -1)
            /\ is_wait' = [is_wait EXCEPT ![t] = FALSE]
<1> USE DEF TypeOK, IsWaitFits
<1>1. CASE Lock(t)
  BY <1>1 DEF Lock
<1>2. CASE TryLoad(t)
  BY <1>2 DEF TryLoad, AfterFailure
<1>3. CASE TryCas(t)
  BY <1>3 DEF TryCas, AfterFailure
<1>4. CASE Prepare(t)
  BY <1>4 DEF Prepare
<1>5. CASE Load(t)
  BY <1>5 DEF Load
<1>6. CASE Cas(t)
  BY <1>6 DEF Cas
<1>7. CASE Decide(t)
  BY <1>7 DEF Decide
<1>8. CASE RegisterWaiter(t)
  BY <1>8 DEF RegisterWaiter, Slow
<1>9. CASE Reload(t)
  BY <1>9 DEF Reload
<1>10. CASE Recheck(t)
  BY <1>10 DEF Recheck
<1>11. CASE Deregister(t)
  BY <1>11 DEF Deregister
<1>12. CASE Sleep(t)
  BY <1>12 DEF Sleep
<1>13. CASE Retire(t)
  BY <1>13 DEF Retire
<1>14. CASE Unlock(t)
  BY <1>14 DEF Unlock
<1>15. CASE WakeWriters(t)
  BY <1>15 DEF WakeWriters
<1>16. CASE NotifyWriter(t)
  BY <1>16 DEF NotifyWriter
<1>17. CASE WakeReaders(t)
  BY <1>17 DEF WakeReaders
<1>18. CASE NotifyReaders(t)
  BY <1>18 DEF NotifyReaders
<1> QED
  BY <1>1, <1>2, <1>3, <1>4, <1>5, <1>6, <1>7, <1>8, <1>9, <1>10, <1>11, <1>12, <1>13, <1>14, <1>15, <1>16, <1>17, <1>18 DEF Step, Locking, Unlocking

\* The wait counts follow: a thread registers when it is not registered and
\* deregisters when it is, on every path through the loop.
LEMMA WaitersStep ==
  ASSUME TypeOK, RegistrationsAreExact, IsWaitFits, NEW t \in Threads, Step(t)
  PROVE  RegistrationsAreExact' /\ wait_write' \in Count /\ wait_read' \in Count
<1> DEFINE WW == {u \in Writers : is_wait[u]}
           RR == {u \in Readers : is_wait[u]}
<1>1. /\ WW \in SUBSET Threads /\ RR \in SUBSET Threads
      /\ WW' \in SUBSET Threads /\ RR' \in SUBSET Threads
  BY KindsAssumption
<1>2. wait_write = Cardinality(WW) /\ wait_read = Cardinality(RR)
  BY DEF RegistrationsAreExact
<1>3. /\ Writers \subseteq Threads /\ Readers \subseteq Threads
      /\ Writes(t) => t \in Writers /\ t \notin Readers
      /\ ~Writes(t) => t \in Readers /\ t \notin Writers
  BY KindsAssumption DEF Writes
<1>4. ASSUME wait_write' = Cardinality(WW'), wait_read' = Cardinality(RR')
      PROVE  RegistrationsAreExact' /\ wait_write' \in Count /\ wait_read' \in Count
  BY <1>1, <1>4, Counting DEF RegistrationsAreExact
<1>5. CASE wait_write' = wait_write /\ wait_read' = wait_read /\ is_wait' = is_wait
  BY <1>2, <1>4, <1>5
<1> HIDE DEF WW, RR
<1>6. CASE /\ ~is_wait[t] /\ Register(t, 1)
           /\ is_wait' = [is_wait EXCEPT ![t] = TRUE]
  <2>1. CASE Writes(t)
    <3>1. wait_write' = (wait_write + 1) % CountMod /\ wait_read' = wait_read
      BY <1>6, <2>1 DEF Register
    <3>2. WW' = WW \cup {t} /\ t \notin WW /\ RR' = RR
      BY <1>3, <1>6, <2>1 DEF TypeOK, WW, RR
    <3>3. Cardinality(WW \cup {t}) = (Cardinality(WW) + 1) % CountMod
      BY <1>1, <3>2, Counting
    <3> QED
      BY <1>1, <1>2, <1>4, <3>1, <3>2, <3>3
  <2>2. CASE ~Writes(t)
    <3>1. wait_read' = (wait_read + 1) % CountMod /\ wait_write' = wait_write
      BY <1>6, <2>2 DEF Register
    <3>2. RR' = RR \cup {t} /\ t \notin RR /\ WW' = WW
      BY <1>3, <1>6, <2>2 DEF TypeOK, WW, RR
    <3>3. Cardinality(RR \cup {t}) = (Cardinality(RR) + 1) % CountMod
      BY <1>1, <3>2, Counting
    <3> QED
      BY <1>1, <1>2, <1>4, <3>1, <3>2, <3>3
  <2> QED
    BY <2>1, <2>2
<1>7. CASE /\ is_wait[t] /\ Register(t, -1)
           /\ is_wait' = [is_wait EXCEPT ![t] = FALSE]
  <2>1. CASE Writes(t)
    <3>1. wait_write' = (wait_write + (-1)) % CountMod /\ wait_read' = wait_read
      BY <1>7, <2>1 DEF Register
    <3>2. WW' = WW \ {t} /\ t \in WW /\ RR' = RR
      BY <1>3, <1>7, <2>1 DEF TypeOK, WW, RR
    <3>3. Cardinality(WW \ {t}) = (Cardinality(WW) - 1) % CountMod
      BY <1>1, <3>2, Counting
    <3> QED
      BY <1>1, <1>2, <1>4, <3>1, <3>2, <3>3
  <2>2. CASE ~Writes(t)
    <3>1. wait_read' = (wait_read + (-1)) % CountMod /\ wait_write' = wait_write
      BY <1>7, <2>2 DEF Register
    <3>2. RR' = RR \ {t} /\ t \in RR /\ WW' = WW
      BY <1>3, <1>7, <2>2 DEF TypeOK, WW, RR
    <3>3. Cardinality(RR \ {t}) = (Cardinality(RR) - 1) % CountMod
      BY <1>1, <3>2, Counting
    <3> QED
      BY <1>1, <1>2, <1>4, <3>1, <3>2, <3>3
  <2> QED
    BY <2>1, <2>2
<1> QED
  BY RegisteringStep, <1>5, <1>6, <1>7

-----------------------------------------------------------------------------
(* Nobody is left asleep.                                                  *)

\* The threads that sleep or are about to and have missed no new version, and the
\* readers that sleep through one.
FreshWriters == {u \in Writers : pc[u] \in {"sleep", "asleep"} /\ fresh[u]}
FreshReaders == {u \in Readers : pc[u] \in {"sleep", "asleep"} /\ fresh[u]}
StaleReaders == {u \in Readers : pc[u] = "asleep" /\ ~fresh[u]}

\* The writers that keep readers out, and those that will try again by themselves.
Barring == In(Slow \cup Holding) \cap Writers
AwakeWriters == In(Slow \ {"asleep"}) \cap Writers

\* A sleeper that has missed nothing waits for somebody who will change the version.
FreshFits ==
  /\ FreshWriters # {} => In(Holding \cup {"wake_writers"}) # {}
  /\ FreshReaders # {} => Barring # {} \/ In({"wake_writers", "wake_readers"}) # {}

\* A sleeper that has missed a version is about to be notified, or, if it writes,
\* another one has been in its place.
StaleFits ==
  /\ At("asleep") \cap Writers # {} =>
       In(Holding \cup {"wake_writers", "notify_writer"}) # {} \/ AwakeWriters # {}
  /\ StaleReaders # {} => At("notify_readers") # {}

\* What the word and the wait counts tell about the threads.
LEMMA WordTells ==
  ASSUME TypeOK, WordIsExact
  PROVE  /\ In(Holding) = {} <=> state.acti_read = 0 /\ state.acti_write = 0
         /\ Barring = {} <=> state.acti_write = 0 /\ state.prep_write = 0
         /\ Barring = {} <=> ~(state.acti_write + state.prep_write > 0)
<1> DEFINE HW == In(Holding) \cap Writers
           HR == In(Holding) \cap Readers
           SW == In(Slow) \cap Writers
<1>1. /\ IsFiniteSet(HW) /\ IsFiniteSet(HR) /\ IsFiniteSet(SW)
  <2>1. HW \subseteq Threads /\ HR \subseteq Threads /\ SW \subseteq Threads
    BY DEF In
  <2> QED
    BY <2>1, FewThreads, FS_Subset
<1>2. /\ state.acti_write = 0 <=> HW = {}
      /\ state.acti_read = 0 <=> HR = {}
      /\ state.prep_write = 0 <=> SW = {}
  BY <1>1, FS_EmptySet DEF WordIsExact
<1>3. /\ In(Holding) = HW \cup HR
      /\ Barring = HW \cup SW
  BY KindsAssumption DEF In, Barring
<1>4. state.acti_write \in Nat /\ state.prep_write \in Nat
  BY CountAssumption DEF TypeOK, Word, Count
<1> QED
  BY <1>2, <1>3, <1>4

LEMMA CountsTell ==
  ASSUME TypeOK, RegistrationsAreExact, IsWaitFits
  PROVE  /\ wait_write = 0 => At("asleep") \cap Writers = {}
         /\ wait_write # 0 => Barring # {}
         /\ wait_read = 0 => At("asleep") \cap Readers = {}
<1> DEFINE WW == {u \in Writers : is_wait[u]}
           RR == {u \in Readers : is_wait[u]}
<1>1. IsFiniteSet(WW) /\ IsFiniteSet(RR)
  <2>1. WW \subseteq Threads /\ RR \subseteq Threads
    BY KindsAssumption
  <2> QED
    BY <2>1, FewThreads, FS_Subset
<1>2. (wait_write = 0 <=> WW = {}) /\ (wait_read = 0 <=> RR = {})
  BY <1>1, FS_EmptySet DEF RegistrationsAreExact
<1>3. /\ At("asleep") \cap Writers \subseteq WW
      /\ At("asleep") \cap Readers \subseteq RR
  BY DEF At, IsWaitFits
<1>4. WW \subseteq Barring
  BY KindsAssumption DEF IsWaitFits, Barring, In, Slow, Holding
<1> QED
  BY <1>2, <1>3, <1>4

\* How a step moves the sleepers and those who will wake them, apart from the steps
\* that look at the word or at the counts.
LEMMA FreshWritersMove ==
  ASSUME TypeOK, NEW t \in Threads, Step(t), ~Recheck(t)
  PROVE  LET H == In(Holding \cup {"wake_writers"})
         IN \/ FreshWriters' \subseteq FreshWriters /\ H \subseteq H'
            \/ H' # {} \/ FreshWriters' = {}
<1> USE KindsAssumption DEF TypeOK, FreshWriters, In, Holding, Goto
<1>1. CASE Lock(t)
  BY <1>1 DEF Lock
<1>2. CASE TryLoad(t)
  BY <1>2 DEF TryLoad, AfterFailure
<1>3. CASE TryCas(t)
  BY <1>3 DEF TryCas, AfterFailure
<1>4. CASE Prepare(t)
  BY <1>4 DEF Prepare
<1>5. CASE Load(t)
  BY <1>5 DEF Load
<1>6. CASE Cas(t)
  BY <1>6 DEF Cas
<1>7. CASE Decide(t)
  BY <1>7 DEF Decide
<1>8. CASE RegisterWaiter(t)
  BY <1>8 DEF RegisterWaiter
<1>9. CASE Reload(t)
  BY <1>9 DEF Reload
<1>10. CASE Recheck(t)
  BY <1>10
<1>11. CASE Deregister(t)
  BY <1>11 DEF Deregister, Forget
<1>12. CASE Sleep(t)
  BY <1>12 DEF Sleep, Forget
<1>13. CASE Retire(t)
  BY <1>13 DEF Retire
<1>14. CASE Unlock(t)
  BY <1>14 DEF Unlock
<1>15. CASE WakeWriters(t)
  BY <1>15 DEF WakeWriters, Outdate
<1>16. CASE NotifyWriter(t)
  BY <1>16 DEF NotifyWriter, At
<1>17. CASE WakeReaders(t)
  BY <1>17 DEF WakeReaders, Outdate
<1>18. CASE NotifyReaders(t)
  BY <1>18 DEF NotifyReaders, At
<1> QED
  BY <1>1, <1>2, <1>3, <1>4, <1>5, <1>6, <1>7, <1>8, <1>9, <1>10, <1>11, <1>12, <1>13, <1>14, <1>15, <1>16, <1>17, <1>18 DEF Step, Locking, Unlocking

LEMMA FreshReadersMove ==
  ASSUME TypeOK, NEW t \in Threads, Step(t), ~Recheck(t), ~WakeWriters(t)
  PROVE  LET K == In({"wake_writers", "wake_readers"})
         IN \/ FreshReaders' \subseteq FreshReaders /\ Barring \subseteq Barring' /\ K \subseteq K'
            \/ K' # {}
            \/ FreshReaders' = {}
<1> USE KindsAssumption DEF TypeOK, FreshReaders, Barring, In, Slow, Holding, Goto
<1>1. CASE Lock(t)
  BY <1>1 DEF Lock
<1>2. CASE TryLoad(t)
  BY <1>2 DEF TryLoad, AfterFailure
<1>3. CASE TryCas(t)
  BY <1>3 DEF TryCas, AfterFailure
<1>4. CASE Prepare(t)
  BY <1>4 DEF Prepare
<1>5. CASE Load(t)
  BY <1>5 DEF Load
<1>6. CASE Cas(t)
  BY <1>6 DEF Cas
<1>7. CASE Decide(t)
  BY <1>7 DEF Decide
<1>8. CASE RegisterWaiter(t)
  BY <1>8 DEF RegisterWaiter
<1>9. CASE Reload(t)
  BY <1>9 DEF Reload
<1>10. CASE Recheck(t)
  BY <1>10
<1>11. CASE Deregister(t)
  BY <1>11 DEF Deregister, Forget
<1>12. CASE Sleep(t)
  BY <1>12 DEF Sleep, Forget
<1>13. CASE Retire(t)
  BY <1>13 DEF Retire
<1>14. CASE Unlock(t)
  BY <1>14 DEF Unlock
<1>15. CASE WakeWriters(t)
  BY <1>15
<1>16. CASE NotifyWriter(t)
  BY <1>16 DEF NotifyWriter, At
<1>17. CASE WakeReaders(t)
  BY <1>17 DEF WakeReaders, Outdate
<1>18. CASE NotifyReaders(t)
  BY <1>18 DEF NotifyReaders, At
<1> QED
  BY <1>1, <1>2, <1>3, <1>4, <1>5, <1>6, <1>7, <1>8, <1>9, <1>10, <1>11, <1>12, <1>13, <1>14, <1>15, <1>16, <1>17, <1>18 DEF Step, Locking, Unlocking

LEMMA StaleWritersMove ==
  ASSUME TypeOK, NEW t \in Threads, Step(t), ~Sleep(t), ~WakeWriters(t)
  PROVE  LET E == In(Holding \cup {"wake_writers", "notify_writer"})
             S == At("asleep") \cap Writers
         IN \/ S' \subseteq S /\ E \subseteq E' /\ AwakeWriters \subseteq AwakeWriters'
            \/ E' # {} \/ AwakeWriters' # {}
            \/ S' = {}
<1> USE KindsAssumption DEF TypeOK, AwakeWriters, At, In, Slow, Holding, Goto
<1>1. CASE Lock(t)
  BY <1>1 DEF Lock
<1>2. CASE TryLoad(t)
  BY <1>2 DEF TryLoad, AfterFailure
<1>3. CASE TryCas(t)
  BY <1>3 DEF TryCas, AfterFailure
<1>4. CASE Prepare(t)
  BY <1>4 DEF Prepare
<1>5. CASE Load(t)
  BY <1>5 DEF Load
<1>6. CASE Cas(t)
  BY <1>6 DEF Cas
<1>7. CASE Decide(t)
  BY <1>7 DEF Decide
<1>8. CASE RegisterWaiter(t)
  BY <1>8 DEF RegisterWaiter
<1>9. CASE Reload(t)
  BY <1>9 DEF Reload
<1>10. CASE Recheck(t)
  BY <1>10 DEF Recheck
<1>11. CASE Deregister(t)
  BY <1>11 DEF Deregister, Forget
<1>12. CASE Sleep(t)
  BY <1>12
<1>13. CASE Retire(t)
  BY <1>13 DEF Retire
<1>14. CASE Unlock(t)
  BY <1>14 DEF Unlock
<1>15. CASE WakeWriters(t)
  BY <1>15
<1>16. CASE NotifyWriter(t)
  BY <1>16 DEF NotifyWriter, At
<1>17. CASE WakeReaders(t)
  BY <1>17 DEF WakeReaders, Outdate
<1>18. CASE NotifyReaders(t)
  BY <1>18 DEF NotifyReaders, At
<1> QED
  BY <1>1, <1>2, <1>3, <1>4, <1>5, <1>6, <1>7, <1>8, <1>9, <1>10, <1>11, <1>12, <1>13, <1>14, <1>15, <1>16, <1>17, <1>18 DEF Step, Locking, Unlocking

LEMMA StaleReadersMove ==
  ASSUME TypeOK, NEW t \in Threads, Step(t), ~WakeReaders(t)
  PROVE  \/ StaleReaders' \subseteq StaleReaders /\ At("notify_readers") \subseteq At("notify_readers")'
         \/ StaleReaders' = {}
<1> USE KindsAssumption DEF TypeOK, StaleReaders, At, Goto
<1>1. CASE Lock(t)
  BY <1>1 DEF Lock
<1>2. CASE TryLoad(t)
  BY <1>2 DEF TryLoad, AfterFailure
<1>3. CASE TryCas(t)
  BY <1>3 DEF TryCas, AfterFailure
<1>4. CASE Prepare(t)
  BY <1>4 DEF Prepare
<1>5. CASE Load(t)
  BY <1>5 DEF Load
<1>6. CASE Cas(t)
  BY <1>6 DEF Cas
<1>7. CASE Decide(t)
  BY <1>7 DEF Decide
<1>8. CASE RegisterWaiter(t)
  BY <1>8 DEF RegisterWaiter
<1>9. CASE Reload(t)
  BY <1>9 DEF Reload
<1>10. CASE Recheck(t)
  BY <1>10 DEF Recheck
<1>11. CASE Deregister(t)
  BY <1>11 DEF Deregister, Forget
<1>12. CASE Sleep(t)
  BY <1>12 DEF Sleep, Forget
<1>13. CASE Retire(t)
  BY <1>13 DEF Retire
<1>14. CASE Unlock(t)
  BY <1>14 DEF Unlock
<1>15. CASE WakeWriters(t)
  BY <1>15 DEF WakeWriters, Outdate
<1>16. CASE NotifyWriter(t)
  BY <1>16 DEF NotifyWriter, At
<1>17. CASE WakeReaders(t)
  BY <1>17
<1>18. CASE NotifyReaders(t)
  BY <1>18 DEF NotifyReaders, At
<1> QED
  BY <1>1, <1>2, <1>3, <1>4, <1>5, <1>6, <1>7, <1>8, <1>9, <1>10, <1>11, <1>12, <1>13, <1>14, <1>15, <1>16, <1>17, <1>18 DEF Step, Locking, Unlocking

LEMMA FreshStep ==
  ASSUME TypeOK, WordIsExact, RegistrationsAreExact, IsWaitFits, FreshFits,
         NEW t \in Threads, Step(t)
  PROVE  FreshFits'
<1>1. CASE Recheck(t)
  <2>1. In(Holding)' = In(Holding) /\ Barring' = Barring
    BY <1>1 DEF Recheck, In, Holding, Slow, Barring, Goto, TypeOK
  <2>2. /\ In(Holding \cup {"wake_writers"})' = In(Holding \cup {"wake_writers"})
        /\ In({"wake_writers", "wake_readers"})' = In({"wake_writers", "wake_readers"})
    BY <1>1 DEF Recheck, In, Holding, Goto, TypeOK
  <2>3. CASE MayEnter(t, state)
    <3>1. FreshWriters' \subseteq FreshWriters /\ FreshReaders' \subseteq FreshReaders
      BY <1>1, <2>3, KindsAssumption DEF Recheck, FreshWriters, FreshReaders, Goto, TypeOK
    <3> QED
      BY <2>1, <2>2, <3>1 DEF FreshFits
  <2>4. CASE ~MayEnter(t, state) /\ Writes(t)
    <3>1. In(Holding)' # {}
      BY <2>1, <2>4, WordTells DEF MayEnter
    <3>2. In(Holding \cup {"wake_writers"})' # {}
      BY <3>1 DEF In
    <3>3. FreshReaders' \subseteq FreshReaders
      BY <1>1, <2>4, KindsAssumption DEF Recheck, FreshReaders, Goto, TypeOK, Writes
    <3> QED
      BY <2>1, <2>2, <3>2, <3>3 DEF FreshFits
  <2>5. CASE ~MayEnter(t, state) /\ ~Writes(t)
    <3>1. Barring' # {}
      BY <2>1, <2>5, WordTells DEF MayEnter
    <3>2. FreshWriters' \subseteq FreshWriters
      BY <1>1, <2>5, KindsAssumption DEF Recheck, FreshWriters, Goto, TypeOK, Writes
    <3> QED
      BY <2>2, <3>1, <3>2 DEF FreshFits
  <2> QED
    BY <2>3, <2>4, <2>5
<1>2. CASE WakeWriters(t)
  <2>1. FreshWriters' = {}
    BY <1>2, KindsAssumption DEF WakeWriters, Outdate, FreshWriters
  <2>2. Barring' = Barring
    BY <1>2 DEF WakeWriters, Barring, In, Slow, Holding, Goto, TypeOK
  <2>3. Barring' # {} \/ In({"wake_writers", "wake_readers"})' # {}
    <3>1. CASE wait_write # 0
      BY <2>2, <3>1, CountsTell
    <3>2. CASE wait_write = 0
      BY <1>2, <3>2 DEF WakeWriters, In, Goto, TypeOK
    <3> QED
      BY <3>1, <3>2
  <2> QED
    BY <2>1, <2>3 DEF FreshFits
<1>3. CASE ~Recheck(t) /\ ~WakeWriters(t)
  BY <1>3, FreshWritersMove, FreshReadersMove DEF FreshFits
<1> QED
  BY <1>1, <1>2, <1>3

LEMMA StaleStep ==
  ASSUME TypeOK, WordIsExact, RegistrationsAreExact, IsWaitFits, FreshFits, StaleFits,
         NEW t \in Threads, Step(t)
  PROVE  StaleFits'
<1> DEFINE E == In(Holding \cup {"wake_writers", "notify_writer"})
           S == At("asleep") \cap Writers
<1>0. Writers \subseteq Threads /\ Readers \subseteq Threads
  BY KindsAssumption
<1>1. S' # {} => E' # {} \/ AwakeWriters' # {}
  <2>1. CASE Sleep(t)
    <3>1. E' = E
      BY <2>1 DEF Sleep, In, Holding, Goto, TypeOK
    <3>2. CASE pc'[t] = "load" \/ t \notin Writers
      <4>1. S' = S /\ AwakeWriters' = AwakeWriters
        BY <1>0, <2>1, <3>2 DEF Sleep, At, In, AwakeWriters, Slow, Goto, TypeOK
      <4> QED
        BY <3>1, <4>1 DEF StaleFits
    <3>3. CASE pc'[t] # "load" /\ t \in Writers
      <4>1. t \in FreshWriters
        BY <2>1, <3>3 DEF Sleep, FreshWriters, Goto, TypeOK
      <4>2. In(Holding \cup {"wake_writers"}) # {}
        BY <4>1 DEF FreshFits
      <4>3. E # {}
        BY <4>2 DEF In
      <4> QED
        BY <3>1, <4>3
    <3> QED
      BY <3>2, <3>3
  <2>2. CASE WakeWriters(t)
    <3>1. S' = S
      BY <2>2 DEF WakeWriters, At, Goto, TypeOK
    <3>2. S # {} => pc'[t] = "notify_writer"
      BY <2>2, CountsTell DEF WakeWriters, Goto, TypeOK
    <3> QED
      BY <3>1, <3>2 DEF In
  <2>3. CASE ~Sleep(t) /\ ~WakeWriters(t)
    BY <2>3, StaleWritersMove DEF StaleFits
  <2> QED
    BY <2>1, <2>2, <2>3
<1>2. StaleReaders' # {} => At("notify_readers")' # {}
  <2>1. CASE WakeReaders(t)
    <3>1. CASE wait_read = 0
      <4>1. At("asleep") \cap Readers = {}
        BY <3>1, CountsTell
      <4>2. StaleReaders' = {}
        BY <1>0, <2>1, <4>1 DEF WakeReaders, StaleReaders, At, Goto, TypeOK
      <4> QED
        BY <4>2
    <3>2. CASE wait_read # 0
      BY <2>1, <3>2 DEF WakeReaders, At, Goto, TypeOK
    <3> QED
      BY <3>1, <3>2
  <2>2. CASE ~WakeReaders(t)
    BY <2>2, StaleReadersMove DEF StaleFits
  <2> QED
    BY <2>1, <2>2
<1> QED
  BY <1>1, <1>2 DEF StaleFits

-----------------------------------------------------------------------------
(* The theorems.                                                           *)

\* A holder finds itself in the word, so only an idle handle has nothing to unlock.
LEMMA UnheldIsIdle ==
  ASSUME TypeOK, WordIsExact, NEW t \in Threads, UnlockUnheld(t)
  PROVE  UNCHANGED vars
<1> DEFINE HW == In(Holding) \cap Writers
           HR == In(Holding) \cap Readers
<1>1. HW \in SUBSET Threads /\ HR \in SUBSET Threads
  BY DEF In
<1>2. (Writes(t) => HW = {}) /\ (~Writes(t) => HR = {})
  BY <1>1, Counting DEF UnlockUnheld, Active, WordIsExact
<1>3. pc[t] # "held"
  BY <1>2, KindsAssumption DEF In, Holding, Writes
<1> QED
  BY <1>3 DEF UnlockUnheld, Goto, TypeOK, vars

LEMMA ZeroWord == Zero \in Word /\ 0 \in Count
BY CountAssumption DEF Zero, Word, Count

\* A step leaves every variable in its range, given that it leaves the counts there.
LEMMA TypeStep ==
  ASSUME TypeOK, NEW t \in Threads, Step(t),
         state' \in Word, wait_write' \in Count, wait_read' \in Count
  PROVE  TypeOK'
<1> USE ZeroWord DEF TypeOK, Goto
<1>1. CASE Lock(t)
  BY <1>1 DEF Lock, Labels, Slow, Holding, Waking
<1>2. CASE TryLoad(t)
  BY <1>2 DEF TryLoad, AfterFailure, Labels, Slow, Holding, Waking
<1>3. CASE TryCas(t)
  BY <1>3 DEF TryCas, AfterFailure, Labels, Slow, Holding, Waking
<1>4. CASE Prepare(t)
  BY <1>4 DEF Prepare, Labels, Slow, Holding, Waking
<1>5. CASE Load(t)
  BY <1>5 DEF Load, Labels, Slow, Holding, Waking
<1>6. CASE Cas(t)
  BY <1>6 DEF Cas, Labels, Slow, Holding, Waking
<1>7. CASE Decide(t)
  BY <1>7 DEF Decide, Labels, Slow, Holding, Waking
<1>8. CASE RegisterWaiter(t)
  <2>1. (Waiters(t) + 1) % CountMod \in Count
    BY CountAssumption DEF Waiters, Count
  <2>2. expect' \in [Threads -> Count]
    BY <1>8, <2>1 DEF RegisterWaiter
  <2> QED
    BY <1>8, <2>2 DEF RegisterWaiter, Labels, Slow, Holding, Waking
<1>9. CASE Reload(t)
  BY <1>9 DEF Reload, Waiters, Labels, Slow, Holding, Waking
<1>10. CASE Recheck(t)
  BY <1>10 DEF Recheck, Labels, Slow, Holding, Waking
<1>11. CASE Deregister(t)
  BY <1>11 DEF Deregister, Forget, Labels, Slow, Holding, Waking
<1>12. CASE Sleep(t)
  <2>1. pc' \in [Threads -> Labels]
    BY <1>12 DEF Sleep, Labels, Slow
  <2>2. expect' \in [Threads -> Count] /\ fresh' \in [Threads -> BOOLEAN]
    <3>1. \/ expect' = expect /\ fresh' = fresh
          \/ /\ expect' = [expect EXCEPT ![t] = 0]
             /\ fresh' = [fresh EXCEPT ![t] = FALSE]
      BY <1>12 DEF Sleep, Forget
    <3>2. expect' \in [Threads -> Count]
      BY <3>1
    <3>3. fresh' \in [Threads -> BOOLEAN]
      BY <3>1
    <3> QED
      BY <3>2, <3>3
  <2> QED
    BY <1>12, <2>1, <2>2 DEF Sleep
<1>13. CASE Retire(t)
  BY <1>13 DEF Retire, Labels, Slow, Holding, Waking
<1>14. CASE Unlock(t)
  BY <1>14 DEF Unlock, Labels, Slow, Holding, Waking
<1>15. CASE WakeWriters(t)
  BY <1>15 DEF WakeWriters, Outdate, Labels, Slow, Holding, Waking
<1>16. CASE NotifyWriter(t)
  BY <1>16 DEF NotifyWriter, At, Labels, Slow, Holding, Waking
<1>17. CASE WakeReaders(t)
  BY <1>17 DEF WakeReaders, Outdate, Labels, Slow, Holding, Waking
<1>18. CASE NotifyReaders(t)
  BY <1>18 DEF NotifyReaders, At, Labels, Slow, Holding, Waking
<1> QED
  BY <1>1, <1>2, <1>3, <1>4, <1>5, <1>6, <1>7, <1>8, <1>9, <1>10, <1>11, <1>12, <1>13, <1>14, <1>15, <1>16, <1>17, <1>18 DEF Step, Locking, Unlocking

IInv == Counts /\ FreshFits /\ StaleFits

LEMMA IInvInit == Init => IInv
<1> SUFFICES ASSUME Init PROVE IInv
  OBVIOUS
<1>1. TypeOK
  BY ZeroWord DEF Init, TypeOK, Labels
<1>2. In(Holding) = {} /\ In(Slow) = {} /\ \A t \in Threads : ~is_wait[t]
  BY DEF Init, In, Holding, Slow
<1>3. WordIsExact
  BY <1>2, FS_EmptySet DEF Init, WordIsExact, Zero
<1>4. RegistrationsAreExact
  <2>1. {t \in Writers : is_wait[t]} = {} /\ {t \in Readers : is_wait[t]} = {}
    BY <1>2, KindsAssumption
  <2> QED
    BY <2>1, FS_EmptySet DEF Init, RegistrationsAreExact
<1>5. SeenAllows /\ IsWaitFits
  BY <1>2 DEF Init, SeenAllows, IsWaitFits
<1>6. FreshFits /\ StaleFits
  BY KindsAssumption DEF Init, FreshFits, StaleFits, FreshWriters, FreshReaders, StaleReaders, At
<1> QED
  BY <1>1, <1>3, <1>4, <1>5, <1>6 DEF IInv, Counts

LEMMA IInvNext == IInv /\ [Next]_vars => IInv'
<1> SUFFICES ASSUME IInv, [Next]_vars PROVE IInv'
  OBVIOUS
<1> USE DEF IInv, Counts
<1>1. (\E t \in Threads : Step(t)) \/ UNCHANGED vars
  <2>1. CASE \E t \in Threads : UnlockUnheld(t)
    BY <2>1, UnheldIsIdle
  <2>2. CASE \A t \in Threads : ~UnlockUnheld(t)
    BY <2>2 DEF Next, Step
  <2> QED
    BY <2>1, <2>2
<1>2. CASE \E t \in Threads : Step(t)
  <2>1. PICK t \in Threads : Step(t)
    BY <1>2
  <2>2. WordIsExact' /\ state' \in Word
    BY <2>1, WordStep
  <2>3. RegistrationsAreExact' /\ wait_write' \in Count /\ wait_read' \in Count
    BY <2>1, WaitersStep
  <2>4. TypeOK'
    BY <2>1, <2>2, <2>3, TypeStep
  <2>5. SeenAllows' /\ IsWaitFits'
    BY <2>1, SeenStep, IsWaitStep
  <2>6. FreshFits' /\ StaleFits'
    BY <2>1, FreshStep, StaleStep
  <2> QED
    BY <2>2, <2>3, <2>4, <2>5, <2>6
<1>3. CASE UNCHANGED vars
  <2> USE <1>3 DEF vars
  <2>1. TypeOK'
    BY DEF TypeOK
  <2>2. WordIsExact' /\ RegistrationsAreExact'
    BY DEF WordIsExact, RegistrationsAreExact, In
  <2>3. SeenAllows' /\ IsWaitFits'
    BY DEF SeenAllows, IsWaitFits
  <2>4. FreshFits' /\ StaleFits'
    BY DEF FreshFits, StaleFits, FreshWriters, FreshReaders, StaleReaders, Barring,
           AwakeWriters, In, At
  <2> QED
    BY <2>1, <2>2, <2>3, <2>4
<1> QED
  BY <1>1, <1>2, <1>3

\* Every variable stays in its range.  The counts wrap, so what says that none of them
\* falls below zero are the two theorems that follow.
THEOREM TypeCorrect == Spec => []TypeOK
BY IInvInit, IInvNext, PTL DEF Spec, IInv, Counts

\* The word counts exactly who holds the lock and who has announced himself, and a
\* writer holds the lock alone, for any number of threads that a field can count.
THEOREM RwLockIsExclusive == Spec => []WordIsExact
BY IInvInit, IInvNext, PTL DEF Spec, IInv, Counts

\* The wait counts are the registered threads: no path through the loop that waits
\* registers a thread twice or forgets to deregister it.
THEOREM RegistrationsBalance == Spec => []RegistrationsAreExact
BY IInvInit, IInvNext, PTL DEF Spec, IInv, Counts

\* Nobody is left asleep: a writer sleeps only while somebody holds the lock or a writer
\* is awake, a reader only while a writer keeps it out or somebody is waking others, for
\* any number of threads that a field can count; the check between registering and sleeping is what it takes.
THEOREM SleepersAreRemembered == Spec => []NoForgottenSleeper
<1>1. IInv => NoForgottenSleeper
  <2> SUFFICES ASSUME IInv PROVE NoForgottenSleeper
    OBVIOUS
  <2>1. TypeOK /\ WordIsExact /\ FreshFits /\ StaleFits
    BY DEF IInv, Counts
  <2>2. At("asleep") \cap Writers # {} =>
          \/ In(Holding) # {} \/ In({"wake_writers", "notify_writer"}) # {}
          \/ In(Slow \ {"asleep"}) \cap Writers # {}
    BY <2>1 DEF StaleFits, AwakeWriters, In
  <2>3. At("asleep") \cap Readers # {} => Barring # {} \/ In(Waking) # {}
    <3> SUFFICES ASSUME NEW r \in Readers, pc[r] = "asleep" PROVE Barring # {} \/ In(Waking) # {}
      BY DEF At
    <3>1. CASE fresh[r]
      BY <2>1, <3>1 DEF FreshFits, FreshReaders, In, Waking
    <3>2. CASE ~fresh[r]
      BY <2>1, <3>2 DEF StaleFits, StaleReaders, At, In, Waking
    <3> QED
      BY <3>1, <3>2
  <2> QED
    BY <2>1, <2>2, <2>3, WordTells DEF NoForgottenSleeper
<1> QED
  BY <1>1, IInvInit, IInvNext, PTL DEF Spec

=============================================================================
