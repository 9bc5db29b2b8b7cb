---------------------------- MODULE MutexProofs ----------------------------
(* Theorems about Mutex, for any set of threads. *)
EXTENDS MutexHistory, FiniteSetTheorems, TLAPS

LEMMA TypeInit == Init => TypeOK
<1> SUFFICES ASSUME Init PROVE TypeOK
  OBVIOUS
<1>1. wait_count \in 0..(CountMod - 1)
  BY CountAssumption DEF Init
<1>2. pc \in [Threads -> Labels]
  BY DEF Init, Labels
<1>3. flag \in BOOLEAN
  BY DEF Init
<1>4. /\ late \in [Threads -> BOOLEAN] /\ added \in [Threads -> BOOLEAN]
      /\ saw \in [Threads -> BOOLEAN]
  BY DEF Init
<1> QED
  BY <1>1, <1>2, <1>3, <1>4 DEF TypeOK

\* Every step keeps wait_count_ in its width and every thread at a program point.
LEMMA TypeNext == TypeOK /\ [Next]_vars => TypeOK'
<1> SUFFICES ASSUME TypeOK, [Next]_vars PROVE TypeOK'
  OBVIOUS
<1> USE CountAssumption DEF TypeOK, Labels, Trying, Waiting, Holding, Goto
<1>1. ASSUME NEW t \in Threads, Lock(t) PROVE TypeOK'
  BY <1>1 DEF Lock
<1>2. ASSUME NEW t \in Threads, Acquire(t) PROVE TypeOK'
  BY <1>2 DEF Acquire
<1>3. ASSUME NEW t \in Threads, Fail(t) PROVE TypeOK'
  BY <1>3 DEF Fail
<1>4. ASSUME NEW t \in Threads, Count(t) PROVE TypeOK'
  BY <1>4 DEF Count
<1>5. ASSUME NEW t \in Threads, Test(t) PROVE TypeOK'
  BY <1>5 DEF Test
<1>6. ASSUME NEW t \in Threads, Sleep(t) PROVE TypeOK'
  BY <1>6 DEF Sleep
<1>7. ASSUME NEW t \in Threads, Uncount(t) PROVE TypeOK'
  BY <1>7 DEF Uncount
<1>8. ASSUME NEW t \in Threads, Release(t) PROVE TypeOK'
  BY <1>8 DEF Release
<1>9. ASSUME NEW t \in Threads, LoadCount(t) PROVE TypeOK'
  BY <1>9 DEF LoadCount
<1>10. ASSUME NEW t \in Threads, EarlyLoad(t) PROVE TypeOK'
  BY <1>10 DEF EarlyLoad
<1>11. ASSUME NEW t \in Threads, LateStore(t) PROVE TypeOK'
  BY <1>11 DEF LateStore
<1>12. ASSUME NEW t \in Threads, Notify(t) PROVE TypeOK'
  BY <1>12 DEF Notify, At
<1>13. CASE UNCHANGED vars
  BY <1>13 DEF vars
<1> QED
  BY <1>1, <1>2, <1>3, <1>4, <1>5, <1>6, <1>7, <1>8, <1>9, <1>10, <1>11, <1>12, <1>13 DEF Next, Step

LEMMA ExclusionInit == Init => MutualExclusion
BY DEF Init, MutualExclusion, In, Holding

\* A thread starts to hold the lock only by turning flag_ from FALSE to TRUE, and
\* only a holder turns it back.
LEMMA ExclusionNext == TypeOK /\ MutualExclusion /\ [Next]_vars => MutualExclusion'
<1> SUFFICES ASSUME TypeOK, MutualExclusion, [Next]_vars PROVE MutualExclusion'
  OBVIOUS
<1> USE DEF TypeOK, MutualExclusion, In, Trying, Holding, Goto
<1>1. ASSUME NEW t \in Threads, Lock(t) PROVE MutualExclusion'
  BY <1>1 DEF Lock
<1>2. ASSUME NEW t \in Threads, Acquire(t) PROVE MutualExclusion'
  BY <1>2 DEF Acquire
<1>3. ASSUME NEW t \in Threads, Fail(t) PROVE MutualExclusion'
  BY <1>3 DEF Fail
<1>4. ASSUME NEW t \in Threads, Count(t) PROVE MutualExclusion'
  BY <1>4 DEF Count
<1>5. ASSUME NEW t \in Threads, Test(t) PROVE MutualExclusion'
  BY <1>5 DEF Test
<1>6. ASSUME NEW t \in Threads, Sleep(t) PROVE MutualExclusion'
  BY <1>6 DEF Sleep
<1>7. ASSUME NEW t \in Threads, Uncount(t) PROVE MutualExclusion'
  BY <1>7 DEF Uncount
<1>8. ASSUME NEW t \in Threads, Release(t) PROVE MutualExclusion'
  BY <1>8 DEF Release
<1>9. ASSUME NEW t \in Threads, LoadCount(t) PROVE MutualExclusion'
  BY <1>9 DEF LoadCount
<1>10. ASSUME NEW t \in Threads, EarlyLoad(t) PROVE MutualExclusion'
  BY <1>10 DEF EarlyLoad
<1>11. ASSUME NEW t \in Threads, LateStore(t) PROVE MutualExclusion'
  BY <1>11 DEF LateStore
<1>12. ASSUME NEW t \in Threads, Notify(t) PROVE MutualExclusion'
  BY <1>12 DEF Notify, At
<1>13. CASE UNCHANGED vars
  BY <1>13 DEF vars
<1> QED
  BY <1>1, <1>2, <1>3, <1>4, <1>5, <1>6, <1>7, <1>8, <1>9, <1>10, <1>11, <1>12, <1>13 DEF Next, Step

\* Every variable of the lock stays in its range.
THEOREM TypeCorrect == Spec => []TypeOK
BY TypeInit, TypeNext, PTL DEF Spec

\* At most one thread holds the lock, and flag_ is set exactly while one does,
\* whatever the waiting protocol and the store buffers do.
THEOREM MutexIsExclusive == Spec => []MutualExclusion
<1>1. Init => TypeOK /\ MutualExclusion
  BY TypeInit, ExclusionInit
<1>2. TypeOK /\ MutualExclusion /\ [Next]_vars => (TypeOK /\ MutualExclusion)'
  BY TypeNext, ExclusionNext
<1> QED
  BY <1>1, <1>2, PTL DEF Spec

-----------------------------------------------------------------------------
(* Wakeups, until the history says that one may have been lost.            *)

\* The threads that are in the count, as long as none has waited twice.
Counted == In({"test", "sleep", "asleep", "uncount"})

\* Those who will take a free lock or wake a sleeper.
OnTheWay == In({"load", "notify"} \cup Trying \cup (Waiting \ {"asleep"}))

WakeInv ==
  TypeOK /\ (~lapsed => wait_count = Cardinality(Counted) /\ FreeLockIsRemembered)

\* A step leaves the count and the counted threads alone, or moves them together, or
\* is the uncounted second wait.
LEMMA CountingStep ==
  ASSUME TypeOK, NEW t \in Threads, Step(t), ~SecondWait
  PROVE  \/ wait_count' = wait_count /\ Counted' = Counted
         \/ /\ wait_count' = (wait_count + 1) % CountMod
            /\ t \notin Counted /\ Counted' = Counted \cup {t}
         \/ /\ wait_count' = (wait_count - 1) % CountMod
            /\ t \in Counted /\ Counted' = Counted \ {t}
<1> USE DEF TypeOK, Counted, In, Trying, Goto
<1>1. CASE Lock(t)
  BY <1>1 DEF Lock
<1>2. CASE Acquire(t)
  BY <1>2 DEF Acquire
<1>3. CASE Fail(t)
  BY <1>3 DEF Fail
<1>4. CASE Count(t)
  BY <1>4 DEF Count, SecondWait
<1>5. CASE Test(t)
  BY <1>5 DEF Test
<1>6. CASE Sleep(t)
  BY <1>6 DEF Sleep
<1>7. CASE Uncount(t)
  BY <1>7 DEF Uncount
<1>8. CASE Release(t)
  BY <1>8 DEF Release
<1>9. CASE LoadCount(t)
  BY <1>9 DEF LoadCount
<1>10. CASE EarlyLoad(t)
  BY <1>10 DEF EarlyLoad
<1>11. CASE LateStore(t)
  BY <1>11 DEF LateStore
<1>12. CASE Notify(t)
  BY <1>12 DEF Notify, At
<1> QED
  BY <1>1, <1>2, <1>3, <1>4, <1>5, <1>6, <1>7, <1>8, <1>9, <1>10, <1>11, <1>12 DEF Step

\* The same for the flag, the sleepers and those on the way.
LEMMA SleepingStep ==
  ASSUME TypeOK, NEW t \in Threads, Step(t)
  PROVE  \/ flag' = TRUE
         \/ OnTheWay' # {}
         \/ At("asleep") = {} /\ At("asleep")' = {}
         \/ pc[t] = "load" /\ wait_count = 0 /\ At("asleep")' = At("asleep")
         \/ pc[t] = "store" /\ pc'[t] = "idle" /\ At("asleep")' = At("asleep")
         \/ /\ At("asleep")' = At("asleep") /\ flag' = flag
            /\ OnTheWay \subseteq OnTheWay'
<1> USE DEF TypeOK, OnTheWay, At, In, Trying, Waiting, Goto
<1>1. CASE Lock(t)
  BY <1>1 DEF Lock
<1>2. CASE Acquire(t)
  BY <1>2 DEF Acquire
<1>3. CASE Fail(t)
  BY <1>3 DEF Fail
<1>4. CASE Count(t)
  BY <1>4 DEF Count
<1>5. CASE Test(t)
  BY <1>5 DEF Test
<1>6. CASE Sleep(t)
  BY <1>6 DEF Sleep
<1>7. CASE Uncount(t)
  BY <1>7 DEF Uncount
<1>8. CASE Release(t)
  BY <1>8 DEF Release
<1>9. CASE LoadCount(t)
  BY <1>9 DEF LoadCount
<1>10. CASE EarlyLoad(t)
  BY <1>10 DEF EarlyLoad
<1>11. CASE LateStore(t)
  BY <1>11 DEF LateStore
<1>12. CASE Notify(t)
  BY <1>12 DEF Notify
<1> QED
  BY <1>1, <1>2, <1>3, <1>4, <1>5, <1>6, <1>7, <1>8, <1>9, <1>10, <1>11, <1>12 DEF Step

\* A count that does not wrap is zero only if nobody is counted, and follows the
\* threads that join and leave.
LEMMA CountFollows ==
  ASSUME NEW S \in SUBSET Threads, NEW t \in Threads, NEW n \in 0..(CountMod - 1),
         n = Cardinality(S)
  PROVE  /\ t \notin S => Cardinality(S \cup {t}) = (n + 1) % CountMod
         /\ t \in S => Cardinality(S \ {t}) = (n - 1) % CountMod
<1>1. IsFiniteSet(S) /\ n \in Nat /\ CountMod \in Nat /\ CountMod > 0 /\ n < CountMod
  BY FewThreads, CountAssumption, FS_Subset
<1>2. ASSUME t \notin S PROVE Cardinality(S \cup {t}) = (n + 1) % CountMod
  <2>1. Cardinality(S \cup {t}) = n + 1
    BY <1>1, <1>2, FS_AddElement
  <2>2. Cardinality(S \cup {t}) <= Cardinality(Threads) /\ Cardinality(Threads) \in Nat
    BY FewThreads, FS_Subset, FS_CardinalityType
  <2>3. n + 1 < CountMod
    BY <1>1, <2>1, <2>2, FewThreads
  <2> QED
    BY <1>1, <2>1, <2>3
<1>3. ASSUME t \in S PROVE Cardinality(S \ {t}) = (n - 1) % CountMod
  <2>1. Cardinality(S \ {t}) = n - 1 /\ Cardinality(S \ {t}) \in Nat
    BY <1>1, <1>3, FS_RemoveElement, FS_CardinalityType
  <2> QED
    BY <1>1, <2>1
<1> QED
  BY <1>2, <1>3

LEMMA SleepersAreCounted ==
  ASSUME wait_count = Cardinality(Counted), wait_count = 0
  PROVE  At("asleep") = {}
<1>1. Counted \subseteq Threads /\ At("asleep") \subseteq Counted
  BY DEF Counted, At, In
<1>2. IsFiniteSet(Counted)
  BY <1>1, FewThreads, FS_Subset
<1> QED
  BY <1>1, <1>2, FS_EmptySet

LEMMA WakeInvInit == HistoryInit => WakeInv
<1> SUFFICES ASSUME HistoryInit PROVE WakeInv
  OBVIOUS
<1>1. Counted = {} /\ At("asleep") = {}
  BY DEF HistoryInit, Init, Counted, In, At
<1>2. wait_count = Cardinality(Counted)
  BY <1>1, FS_EmptySet DEF HistoryInit, Init
<1>3. FreeLockIsRemembered
  BY <1>1 DEF FreeLockIsRemembered
<1> QED
  BY <1>2, <1>3, TypeInit DEF HistoryInit, WakeInv

LEMMA WakeInvNext == WakeInv /\ [HistoryNext]_<<vars, lapsed>> => WakeInv'
<1> SUFFICES ASSUME WakeInv, [HistoryNext]_<<vars, lapsed>> PROVE WakeInv'
  OBVIOUS
<1>1. TypeOK'
  BY TypeNext DEF WakeInv, HistoryNext
<1>2. CASE HistoryNext
  <2> SUFFICES ASSUME ~lapsed'
               PROVE  wait_count' = Cardinality(Counted') /\ FreeLockIsRemembered'
    BY <1>1 DEF WakeInv
  <2>1. ~lapsed /\ ~SecondWait /\ ~MissedWaiter
    BY <1>2 DEF HistoryNext
  <2>2. PICK t \in Threads : Step(t)
    BY <1>2 DEF HistoryNext, Next
  <2>3. /\ TypeOK /\ FreeLockIsRemembered /\ wait_count = Cardinality(Counted)
        /\ wait_count \in 0..(CountMod - 1) /\ Counted \in SUBSET Threads
    BY <2>1 DEF WakeInv, TypeOK, Counted, In
  <2>4. wait_count' = Cardinality(Counted')
    <3>1. /\ t \notin Counted => Cardinality(Counted \cup {t}) = (wait_count + 1) % CountMod
          /\ t \in Counted => Cardinality(Counted \ {t}) = (wait_count - 1) % CountMod
      BY <2>3, CountFollows
    <3> QED
      BY <2>1, <2>2, <2>3, <3>1, CountingStep
  <2>5. wait_count = 0 => At("asleep") = {}
    BY <2>3, SleepersAreCounted
  <2>6. pc[t] = "store" /\ pc'[t] = "idle" => wait_count = 0
    BY <2>1, <2>3, CountAssumption DEF MissedWaiter
  <2>7. /\ FreeLockIsRemembered <=> (~flag /\ At("asleep") # {} => OnTheWay # {})
        /\ FreeLockIsRemembered' <=> (~flag' /\ At("asleep")' # {} => OnTheWay' # {})
    BY DEF FreeLockIsRemembered, OnTheWay
  <2>8. FreeLockIsRemembered'
    BY <2>2, <2>3, <2>5, <2>6, <2>7, SleepingStep
  <2> QED
    BY <2>4, <2>8
<1>3. CASE UNCHANGED <<vars, lapsed>>
  BY <1>1, <1>3 DEF WakeInv, vars, Counted, In, At, FreeLockIsRemembered
<1> QED
  BY <1>2, <1>3

\* Until some thread waits a second time in one call, or an early load of the count
\* misses a waiter, no wakeup is lost: these two are the only ways, for any number of
\* threads that the count can hold.
THEOREM WakeupsKept == HistorySpec => []WakeupsAreKept
<1>1. WakeInv => WakeupsAreKept
  BY DEF WakeInv, WakeupsAreKept
<1> QED
  BY <1>1, WakeInvInit, WakeInvNext, PTL DEF HistorySpec

=============================================================================
