------------------------ MODULE AtomicQueueProofs ------------------------
(***************************************************************************)
(* Theorems about AtomicQueue, for any threads and any number of pushes:   *)
(*  - the structure: the power of two, who may resize, what is counted;    *)
(*  - the ring: slot ownership, the contents of the window, destruction    *)
(*    and size(), as long as no resize installs an array smaller than the  *)
(*    contents (FittingSpec) and the ring has two slots or more;           *)
(*  - the queue: every step of the ring is a step of TicketQueue or        *)
(*    invisible, under the same assumptions.                               *)
(***************************************************************************)
EXTENDS AtomicQueue, FiniteSetTheorems, SequenceTheorems, Induction

-----------------------------------------------------------------------------
(* Capacities stay powers of two, so pos & (capa - 1) is pos % capa.       *)

\* An odd divisor of an even number divides its half.
LEMMA OddDivisorOfDouble ==
  ASSUME NEW n \in Nat, NEW d \in Nat \ {0}, Divides(d, 2 * n), ~Divides(2, d)
  PROVE  Divides(d, n)
<1>1. PICK m \in Nat : 2 * n = d * m
  <2>1. 2 * n = (d * ((2 * n) \div d)) + ((2 * n) % d)
    OBVIOUS
  <2>2. (2 * n) \div d \in Nat
    OBVIOUS
  <2> QED
    BY <2>1, <2>2 DEF Divides
<1>2. PICK a \in Nat : d = 2 * a + 1
  BY DEF Divides
<1>3. PICK b \in Nat : m = 2 * b \/ m = 2 * b + 1
  <2>1. m \div 2 \in Nat /\ (m = 2 * (m \div 2) \/ m = 2 * (m \div 2) + 1)
    OBVIOUS
  <2> QED
    BY <2>1
<1>4. m # 2 * b + 1
  <2> SUFFICES ASSUME m = 2 * b + 1 PROVE FALSE
    OBVIOUS
  <2> DEFINE k == 2 * (a * b) + a + b
  <2>1. a * b \in Nat
    OBVIOUS
  <2>2. d * m = 2 * k + 1
    BY <1>2
  <2>3. k \in Nat
    BY <2>1
  <2> HIDE DEF k
  <2> QED
    BY <1>1, <2>2, <2>3
<1>5. n = d * b
  BY <1>1, <1>3, <1>4
<1> QED
  BY <1>5 DEF Divides

\* Doubling a power of two gives a power of two.
LEMMA DoublePowerOfTwo ==
  ASSUME NEW n \in Nat, IsPowerOfTwo(n)
  PROVE  IsPowerOfTwo(2 * n)
<1> SUFFICES ASSUME NEW d \in 2..(2 * n), Divides(d, 2 * n), ~Divides(2, d)
             PROVE  FALSE
  BY DEF IsPowerOfTwo
<1>1. Divides(d, n)
  BY OddDivisorOfDouble
<1>2. d <= n
  BY <1>1 DEF Divides, IsPowerOfTwo
<1> QED
  BY <1>1, <1>2 DEF IsPowerOfTwo

\* There is a power of two from every number below its double: the number after n has
\* that of n, or else the double of n.
LEMMA PowerOfTwoAbove ==
  ASSUME NEW n \in Nat \ {0}
  PROVE  \E p \in n..(2 * n - 1) : IsPowerOfTwo(p)
<1> DEFINE Good(k) == \E p \in k..(2 * k - 1) : IsPowerOfTwo(p)
           T == {k \in Nat : Good(k + 1)}
<1>1. 0 \in T
  <2>1. 1 \in 1..(2 * 1 - 1) /\ IsPowerOfTwo(1)
    BY DEF IsPowerOfTwo
  <2> QED
    BY <2>1
<1>2. ASSUME NEW k \in Nat, k \in T PROVE k + 1 \in T
  <2>1. PICK p \in (k + 1)..(2 * (k + 1) - 1) : IsPowerOfTwo(p)
    BY <1>2
  <2>2. CASE p = k + 1
    <3>1. IsPowerOfTwo(2 * p)
      BY <2>1, DoublePowerOfTwo
    <3>2. 2 * p \in ((k + 1) + 1)..(2 * ((k + 1) + 1) - 1)
      BY <2>2
    <3> QED
      BY <3>1, <3>2
  <2>3. CASE p # k + 1
    <3>1. p \in ((k + 1) + 1)..(2 * ((k + 1) + 1) - 1)
      BY <2>3
    <3> QED
      BY <2>1, <3>1
  <2> QED
    BY <2>2, <2>3
<1>3. \A k \in Nat : k \in T
  <2> HIDE DEF T
  <2> QED
    BY <1>1, <1>2, NaturalInduction
<1>4. n - 1 \in Nat /\ (n - 1) + 1 = n
  OBVIOUS
<1>5. n - 1 \in T
  BY <1>3, <1>4
<1> QED
  BY <1>4, <1>5

\* Half of a power of two above one is a power of two.
LEMMA HalfPowerOfTwo ==
  ASSUME NEW n \in Nat, n > 1, IsPowerOfTwo(n)
  PROVE  \E m \in Nat : n = 2 * m /\ IsPowerOfTwo(m)
<1>1. n \in 2..n /\ Divides(n, n)
  BY DEF Divides
<1>2. Divides(2, n)
  BY <1>1 DEF IsPowerOfTwo
<1>3. PICK m \in Nat : n = 2 * m
  <2>1. n = 2 * (n \div 2) /\ n \div 2 \in Nat
    BY <1>2 DEF Divides
  <2> QED
    BY <2>1
<1>4. ASSUME NEW d \in 2..m, Divides(d, m) PROVE Divides(2, d)
  <2>1. d \in Nat \ {0} /\ d \in 2..n
    BY <1>3
  <2>2. m = d * (m \div d) /\ m \div d \in Nat
    BY <1>4, <2>1 DEF Divides
  <2>3. PICK q \in Nat : m = d * q
    BY <2>2
  <2>4. n = d * (2 * q) + 0
    BY <1>3, <2>1, <2>3
  <2>5. n % d = 0
    <3> DEFINE r == 2 * q
    <3>1. r \in Nat /\ n = d * r
      BY <2>1, <2>4
    <3> HIDE DEF r
    <3>2. n = d * (n \div d) + (n % d) /\ n \div d \in Nat /\ n % d \in 0..(d - 1)
      BY <2>1
    <3> DEFINE u == n \div d
               v == n % d
    <3>3. d * r = d * u + v /\ u \in Nat /\ v \in 0..(d - 1)
      BY <3>1, <3>2
    <3> HIDE DEF u, v
    <3>4. r = u
      <4>1. r < u => d * r + d <= d * u
        <5>1. r + 1 <= u => d * (r + 1) <= d * u
          BY <2>1, <3>1, <3>3
        <5> QED
          BY <2>1, <3>1, <3>3, <5>1
      <4>2. u < r => d * u + d <= d * r
        <5>1. u + 1 <= r => d * (u + 1) <= d * r
          BY <2>1, <3>1, <3>3
        <5> QED
          BY <2>1, <3>1, <3>3, <5>1
      <4>3. d * r \in Int /\ d * u \in Int
        BY <2>1, <3>1, <3>3
      <4> QED
        BY <2>1, <3>1, <3>3, <4>1, <4>2, <4>3
    <3> QED
      BY <2>1, <3>1, <3>3, <3>4 DEF v
  <2> QED
    BY <2>1, <2>5 DEF Divides, IsPowerOfTwo
<1>5. IsPowerOfTwo(m)
  BY <1>3, <1>4 DEF IsPowerOfTwo
<1> QED
  BY <1>3, <1>5

\* Powers of two are at least a factor of two apart.
LEMMA PowersOfTwoApart ==
  ASSUME NEW p \in Nat, NEW q \in Nat, IsPowerOfTwo(p), IsPowerOfTwo(q), p < q
  PROVE  2 * p <= q
<1> DEFINE T == {k \in Nat : \A a \in Nat, b \in Nat :
                   a <= k /\ IsPowerOfTwo(a) /\ IsPowerOfTwo(b) /\ a < b => 2 * a <= b}
<1>1. 0 \in T
  BY DEF IsPowerOfTwo
<1>2. ASSUME NEW k \in Nat, k \in T PROVE k + 1 \in T
  <2> SUFFICES ASSUME NEW a \in Nat, NEW b \in Nat,
                      a <= k + 1, IsPowerOfTwo(a), IsPowerOfTwo(b), a < b
               PROVE  2 * a <= b
    BY <1>2
  <2>1. CASE a <= 1
    BY <2>1
  <2>2. CASE a > 1
    <3>1. PICK c \in Nat : a = 2 * c /\ IsPowerOfTwo(c)
      BY <2>2, HalfPowerOfTwo
    <3>2. b > 1
      BY <2>2
    <3>3. PICK e \in Nat : b = 2 * e /\ IsPowerOfTwo(e)
      BY <3>2, HalfPowerOfTwo
    <3>4. c <= k /\ c < e
      BY <2>2, <3>1, <3>3
    <3>5. 2 * c <= e
      BY <1>2, <3>1, <3>3, <3>4
    <3> QED
      BY <3>1, <3>3, <3>5
  <2> QED
    BY <2>1, <2>2
<1>3. \A k \in Nat : k \in T
  <2> HIDE DEF T
  <2> QED
    BY <1>1, <1>2, NaturalInduction
<1>4. p \in T
  BY <1>3
<1> QED
  BY <1>4

\* std::bit_ceil: the least power of two that is not below n.
LEMMA BitCeilIs ==
  ASSUME NEW n \in Nat
  PROVE  /\ BitCeil(n) \in Nat \ {0} /\ IsPowerOfTwo(BitCeil(n)) /\ BitCeil(n) >= n
         /\ \A p \in Nat : IsPowerOfTwo(p) /\ p >= n => p >= BitCeil(n)
<1>1. CASE n = 0
  BY <1>1 DEF BitCeil, IsPowerOfTwo
<1>2. CASE n # 0
  <2>1. PICK b : b = BitCeil(n)
    OBVIOUS
  <2>2. b \in n..(2 * n - 1) /\ IsPowerOfTwo(b)
    BY <1>2, <2>1, PowerOfTwoAbove DEF BitCeil
  <2>3. ASSUME NEW p \in Nat, IsPowerOfTwo(p), p >= n, p < b PROVE FALSE
    <3>1. 2 * p <= b
      BY <2>2, <2>3, PowersOfTwoApart
    <3> QED
      BY <2>2, <2>3, <3>1
  <2> QED
    BY <1>2, <2>1, <2>2, <2>3
<1> QED
  BY <1>1, <1>2

\* The capacity reset_capa() installs is twice the old one or more, and again a power
\* of two.
LEMMA BitCeilOfDouble ==
  ASSUME NEW n \in Nat
  PROVE  /\ BitCeil(2 * n) \in Nat \ {0}
         /\ IsPowerOfTwo(BitCeil(2 * n))
         /\ BitCeil(2 * n) >= 2 * n
<1>1. 2 * n \in Nat
  OBVIOUS
<1> QED
  BY <1>1, BitCeilIs

-----------------------------------------------------------------------------
(* The inductive invariant: types, the exact count of threads inside, who   *)
(* may resize, and the freshness of what a thread inside has loaded.        *)

\* A capacity a thread has loaded and still uses is a power of two.
CapaLoaded ==
  \A t \in In(Holding \cup {"leave_full", "grow", "quiesce", "migrate"}) :
    IsPowerOfTwo(capa[t])

IInv == TypeOK /\ ActiveIsExact /\ QuiescentResize /\ NoStaleMap /\ CapaLoaded

Step(t) == Call(t) \/ Attempt(t) \/ ClaimFails(t) \/ Resize(t) \/ SizeHead(t)

\* The slot a thread with current locals addresses exists.
LEMMA SlotExists ==
  ASSUME TypeOK, NoStaleMap, NEW t \in In(Holding)
  PROVE  Slot(t) \in 0..(capacity - 1)
BY DEF TypeOK, NoStaleMap, Slot, In

\* Sequences the migration writes are natural numbers.
LEMMA NewSequenceType ==
  ASSUME TypeOK, NEW n \in Nat \ {0}, NEW i \in 0..(n - 1)
  PROVE  NewSequence(i, n) \in Nat
<1> DEFINE y == Youngest(i, n)
<1>1. y \in Int
  BY DEF Youngest, TypeOK
<1>2. NewSequence(i, n) = IF y < head THEN i ELSE y + 1
  BY DEF NewSequence
<1> HIDE DEF y
<1> QED
  BY <1>1, <1>2 DEF TypeOK

\* Objects the migration moves are items: the old slot exists.
LEMMA MigratedType ==
  ASSUME TypeOK, NEW n \in Nat \ {0}, NEW i \in 0..(n - 1)
  PROVE  (IF Youngest(i, n) < head THEN Raw ELSE data[Youngest(i, n) % capacity])
           \in Items \cup {Raw}
<1> DEFINE y == Youngest(i, n)
<1>1. y \in Int
  BY DEF Youngest, TypeOK
<1> HIDE DEF y
<1>2. y % capacity \in 0..(capacity - 1)
  BY <1>1 DEF TypeOK
<1> QED
  BY <1>2 DEF TypeOK, y


\* A step leaves every variable in its range.  The four decrements are put off:
\* that the counter stays a natural number follows from its exactness.
LEMMA TypeStep ==
  ASSUME IInv, NEW t \in Threads, Step(t), active' \in Nat
  PROVE  TypeOK'
<1> USE DEF IInv
<1>1. CASE StartPush(t)
  BY SMTT(30), <1>1, BoundAssumption DEF TypeOK, Goto, Labels, Counted, Critical, Owning, StartPush, shared, Items
<1>2. CASE StartPop(t)
  BY <1>2, BoundAssumption DEF TypeOK, Goto, Labels, Counted, Critical, Owning, StartPop, shared
<1>3. CASE SizeTail(t)
  BY <1>3, BoundAssumption DEF TypeOK, Goto, Labels, Counted, Critical, Owning, SizeTail, shared
<1>4. CASE Check(t)
  BY <1>4, BoundAssumption DEF TypeOK, Goto, Labels, Counted, Critical, Owning, Check, shared, locals
<1>5. CASE Wait(t)
  BY <1>5, BoundAssumption DEF TypeOK, Goto, Labels, Counted, Critical, Owning, Wait, shared, locals
<1>6. CASE Enter(t)
  BY <1>6, BoundAssumption DEF TypeOK, Goto, Labels, Counted, Critical, Owning, Enter, locals
<1>7. CASE Recheck(t)
  BY <1>7, BoundAssumption DEF TypeOK, Goto, Labels, Counted, Critical, Owning, Recheck, shared, locals
<1>8. CASE Load(t)
  BY <1>8, BoundAssumption DEF TypeOK, Goto, Labels, Counted, Critical, Owning, Load, shared
<1>9. CASE Inspect(t)
  BY <1>9, BoundAssumption DEF TypeOK, Goto, Labels, Counted, Critical, Owning, Inspect, shared, locals
<1>10. CASE Claim(t)
  <2>1. pc' \in [Threads -> Labels]
    BY <1>10 DEF Claim, TypeOK, Goto, Labels, Counted, Critical
  <2>2. tail' \in Nat /\ head' \in Nat
    BY <1>10 DEF Claim, TypeOK
  <2> QED
    BY <1>10, <2>1, <2>2 DEF Claim, TypeOK, locals
<1>11. CASE ClaimFails(t)
  BY <1>11, BoundAssumption DEF TypeOK, Goto, Labels, Counted, Critical, Owning, ClaimFails, shared, locals
<1>12. CASE Construct(t)
  BY <1>12, BoundAssumption DEF TypeOK, Goto, Labels, Counted, Critical, Owning, Construct, locals
<1>13. CASE StartResize(t)
  <2>1. pc' \in [Threads -> Labels]
    BY <1>13 DEF StartResize, Goto, TypeOK, Labels, Owning
  <2>2. capa' \in [Threads -> Nat]
    BY <1>13 DEF StartResize, TypeOK
  <2>3. stat' \in {"normal", "resizing"}
    BY <1>13 DEF StartResize
  <2> QED
    BY <1>13, <2>1, <2>2, <2>3 DEF TypeOK, StartResize
<1>14. CASE Quiesce(t)
  BY <1>14, BoundAssumption DEF TypeOK, Goto, Labels, Counted, Critical, Owning, Quiesce, shared, locals
<1>15. CASE AllocFails(t)
  BY <1>15, BoundAssumption DEF TypeOK, Goto, Labels, Counted, Critical, Owning, AllocFails, Forget, shared
<1>16. CASE Reopen(t)
  BY <1>16, BoundAssumption DEF TypeOK, Goto, Labels, Counted, Critical, Owning, Reopen, locals
<1>17. CASE Notify(t)
  BY <1>17, BoundAssumption DEF TypeOK, Goto, Labels, Counted, Critical, Owning, Notify, shared, locals
<1>18. CASE SizeHead(t)
  BY <1>18, BoundAssumption DEF TypeOK, Goto, Labels, Counted, Critical, Owning, SizeHead, Forget, shared
<1>19. CASE BackOff(t)
  BY <1>19 DEF TypeOK, Goto, Labels, Counted, Critical, Owning, BackOff, locals
<1>20. CASE Leave(t)
  BY <1>20 DEF TypeOK, Goto, Labels, Counted, Critical, Owning, Leave, Forget
<1>21. CASE LeaveRetry(t)
  BY <1>21 DEF TypeOK, Goto, Labels, Counted, Critical, Owning, LeaveRetry
<1>22. CASE LeaveFull(t)
  BY <1>22 DEF TypeOK, Goto, Labels, Counted, Critical, Owning, LeaveFull
<1>23. CASE MoveOut(t)
  <2>1. data[Slot(t)] \in Items \cup {Raw}
    BY <1>23, SlotExists DEF MoveOut, TypeOK, In, Holding
  <2> QED
    BY <1>23, <2>1 DEF TypeOK, Goto, Labels, Counted, Critical, Owning, MoveOut
<1>24. CASE Publish(t)
  <2>1. (IF op[t] = "push" THEN pos[t] + 1 ELSE pos[t] + capa[t]) \in Nat
    BY DEF TypeOK
  <2> QED
    BY <1>24, <2>1 DEF TypeOK, Goto, Labels, Counted, Critical, Owning, Publish, locals
<1>25. CASE Migrate(t)
  <2> DEFINE n == BitCeil(2 * capa[t])
  <2>1. n \in Nat \ {0} /\ IsPowerOfTwo(n)
    BY <1>25, BitCeilOfDouble DEF Migrate, CapaLoaded, In, TypeOK
  <2>2. seq' \in [0..(n - 1) -> Nat]
    BY <1>25, <2>1, NewSequenceType DEF Migrate
  <2>3. data' \in [0..(n - 1) -> Items \cup {Raw}]
    BY <1>25, <2>1, MigratedType DEF Migrate
  <2>4. capacity' = n
    BY <1>25 DEF Migrate
  <2>5. /\ kmap' = kmap + 1 /\ capa' = [capa EXCEPT ![t] = 0]
        /\ pc' = [pc EXCEPT ![t] = "reopen"]
        /\ UNCHANGED <<stat, head, tail, active, op, pos, map, item, pushes, alive>>
    BY <1>25 DEF Migrate, Goto
  <2> HIDE DEF n
  <2> QED
    BY SMTT(30), <2>1, <2>2, <2>3, <2>4, <2>5 DEF TypeOK, Labels, Counted, Critical, Owning
<1> QED
  BY <1>1, <1>2, <1>3, <1>4, <1>5, <1>6, <1>7, <1>8, <1>9, <1>10, <1>11, <1>12, <1>13, <1>14, <1>15, <1>16, <1>17, <1>18, <1>19, <1>20, <1>21, <1>22, <1>23, <1>24, <1>25 DEF Step, Call, Attempt, Resize


\* A step counts its thread in, counts it out, or leaves the count alone, and
\* active_threads_ follows it.
LEMMA CountedStep ==
  ASSUME TypeOK, NEW t \in Threads, Step(t)
  PROVE  \/ In(Counted)' = In(Counted) /\ active' = active
         \/ /\ t \notin In(Counted) /\ In(Counted)' = In(Counted) \cup {t}
            /\ active' = active + 1
         \/ /\ t \in In(Counted) /\ In(Counted)' = In(Counted) \ {t}
            /\ active' = active - 1
<1> USE DEF In, Counted, Critical, TypeOK, Goto
<1>1. CASE StartPush(t)
  BY <1>1 DEF StartPush, shared
<1>2. CASE StartPop(t)
  BY <1>2 DEF StartPop, shared
<1>3. CASE SizeTail(t)
  BY <1>3 DEF SizeTail, shared
<1>4. CASE Check(t)
  BY <1>4 DEF Check, shared
<1>5. CASE Wait(t)
  BY <1>5 DEF Wait, shared
<1>6. CASE Recheck(t)
  BY <1>6 DEF Recheck, shared
<1>7. CASE Load(t)
  BY <1>7 DEF Load, shared
<1>8. CASE Inspect(t)
  BY <1>8 DEF Inspect, shared
<1>9. CASE Claim(t)
  BY <1>9 DEF Claim
<1>10. CASE ClaimFails(t)
  BY <1>10 DEF ClaimFails, shared
<1>11. CASE Construct(t)
  BY <1>11 DEF Construct
<1>12. CASE MoveOut(t)
  BY <1>12 DEF MoveOut
<1>13. CASE Publish(t)
  BY <1>13 DEF Publish
<1>14. CASE StartResize(t)
  BY <1>14 DEF StartResize
<1>15. CASE Quiesce(t)
  BY <1>15 DEF Quiesce, shared
<1>16. CASE Migrate(t)
  BY <1>16 DEF Migrate
<1>17. CASE AllocFails(t)
  BY <1>17 DEF AllocFails, shared
<1>18. CASE Reopen(t)
  BY <1>18 DEF Reopen
<1>19. CASE Notify(t)
  BY <1>19 DEF Notify, shared
<1>20. CASE SizeHead(t)
  BY <1>20 DEF SizeHead, shared
<1>21. CASE Enter(t)
  BY <1>21 DEF Enter
<1>22. CASE BackOff(t)
  BY <1>22 DEF BackOff
<1>23. CASE Leave(t)
  BY <1>23 DEF Leave
<1>24. CASE LeaveRetry(t)
  BY <1>24 DEF LeaveRetry
<1>25. CASE LeaveFull(t)
  BY <1>25 DEF LeaveFull
<1> QED
  BY <1>1, <1>2, <1>3, <1>4, <1>5, <1>6, <1>7, <1>8, <1>9, <1>10, <1>11, <1>12, <1>13, <1>14, <1>15, <1>16, <1>17, <1>18, <1>19, <1>20, <1>21, <1>22, <1>23, <1>24, <1>25 DEF Step, Call, Attempt, Resize

\* active_threads_ stays exact, so it never falls below zero.
LEMMA ActiveStep ==
  ASSUME TypeOK, ActiveIsExact, NEW t \in Threads, Step(t)
  PROVE  ActiveIsExact' /\ active' \in Nat
<1> DEFINE C == In(Counted)
<1>1. IsFiniteSet(C) /\ C' \subseteq Threads
  <2>1. C \subseteq Threads /\ C' \subseteq Threads
    BY DEF In, Threads
  <2> QED
    BY <2>1, ThreadsAssumption, FS_Subset
<1>2. active = Cardinality(C) /\ Cardinality(C) \in Nat
  BY <1>1, FS_CardinalityType DEF ActiveIsExact
<1>3. CASE C' = C /\ active' = active
  BY <1>2, <1>3 DEF ActiveIsExact
<1>4. CASE t \notin C /\ C' = C \cup {t} /\ active' = active + 1
  <2>1. Cardinality(C \cup {t}) = Cardinality(C) + 1
    BY <1>1, <1>4, FS_AddElement
  <2> QED
    BY <1>2, <1>4, <2>1 DEF ActiveIsExact
<1>5. CASE t \in C /\ C' = C \ {t} /\ active' = active - 1
  <2>1. Cardinality(C \ {t}) = Cardinality(C) - 1 /\ Cardinality(C \ {t}) \in Nat
    BY <1>1, <1>5, FS_RemoveElement, FS_CardinalityType
  <2> QED
    BY <1>2, <1>5, <2>1 DEF ActiveIsExact
<1> QED
  BY CountedStep, <1>3, <1>4, <1>5


\* If nobody is counted in, nobody is in the critical region.
LEMMA NobodyInside ==
  ASSUME TypeOK, ActiveIsExact, active = 0
  PROVE  In(Critical) = {}
<1>1. IsFiniteSet(In(Counted))
  <2>1. In(Counted) \subseteq Threads
    BY DEF In
  <2> QED
    BY <2>1, ThreadsAssumption, FS_Subset
<1>2. In(Counted) = {}
  BY <1>1, FS_EmptySet DEF ActiveIsExact
<1> QED
  BY <1>2 DEF In, Counted

\* A thread gets into the critical region only while stat_ is normal, and to the
\* migration only when the critical region is empty.
LEMMA QuiescentStep ==
  ASSUME TypeOK, ActiveIsExact, QuiescentResize, NEW t \in Threads, Step(t)
  PROVE  QuiescentResize'
<1> USE DEF QuiescentResize, In, Critical, Owning, TypeOK, Goto
<1>1. CASE StartPush(t)
  BY <1>1 DEF StartPush, shared
<1>2. CASE StartPop(t)
  BY <1>2 DEF StartPop, shared
<1>3. CASE SizeTail(t)
  BY <1>3 DEF SizeTail, shared
<1>4. CASE Check(t)
  BY <1>4 DEF Check, shared, locals
<1>5. CASE Wait(t)
  BY <1>5 DEF Wait, shared, locals
<1>6. CASE Load(t)
  BY <1>6 DEF Load, shared
<1>7. CASE Inspect(t)
  BY SMTT(30), <1>7 DEF Inspect, shared, locals
<1>8. CASE Claim(t)
  BY <1>8 DEF Claim, locals
<1>9. CASE ClaimFails(t)
  BY <1>9 DEF ClaimFails, shared, locals
<1>10. CASE Construct(t)
  BY <1>10 DEF Construct, locals
<1>11. CASE MoveOut(t)
  BY <1>11 DEF MoveOut
<1>12. CASE Publish(t)
  BY <1>12 DEF Publish, locals
<1>13. CASE AllocFails(t)
  BY <1>13 DEF AllocFails, shared, Forget
<1>14. CASE Notify(t)
  <2>1. stat' = stat
    BY <1>14 DEF Notify, shared
  <2>2. In(Owning)' = In(Owning) /\ In(Critical)' = In(Critical)
        /\ In({"migrate", "reopen"})' = In({"migrate", "reopen"})
    BY <1>14 DEF Notify
  <2> QED
    BY <2>1, <2>2
<1>15. CASE SizeHead(t)
  BY <1>15 DEF SizeHead, shared, Forget
<1>16. CASE Enter(t)
  BY <1>16 DEF Enter, locals
<1>17. CASE BackOff(t)
  BY <1>17 DEF BackOff, locals
<1>18. CASE Leave(t)
  BY <1>18 DEF Leave, Forget
<1>19. CASE LeaveRetry(t)
  BY <1>19 DEF LeaveRetry
<1>20. CASE LeaveFull(t)
  BY <1>20 DEF LeaveFull
<1>21. CASE Recheck(t)
  BY <1>21 DEF Recheck, shared, locals
<1>22. CASE StartResize(t)
  BY SMTT(30), <1>22 DEF StartResize
<1>23. CASE Reopen(t)
  BY <1>23 DEF Reopen, locals
<1>24. CASE Quiesce(t)
  <2>1. In(Critical) = {}
    BY <1>24, NobodyInside DEF Quiesce
  <2>2. pc[t] = "quiesce" /\ pc' = [pc EXCEPT ![t] = "migrate"] /\ stat' = stat
    BY <1>24 DEF Quiesce, shared
  <2>3. In(Owning)' = In(Owning) /\ In(Critical)' = {}
    BY <2>1, <2>2
  <2> QED
    BY <2>2, <2>3
<1>25. CASE Migrate(t)
  BY SMTT(30), <1>25 DEF Migrate
<1> QED
  BY <1>1, <1>2, <1>3, <1>4, <1>5, <1>6, <1>7, <1>8, <1>9, <1>10, <1>11, <1>12, <1>13, <1>14, <1>15, <1>16, <1>17, <1>18, <1>19, <1>20, <1>21, <1>22, <1>23, <1>24, <1>25 DEF Step, Call, Attempt, Resize

\* Only a migration changes kmap_ and capacity_, and none runs while a thread
\* holds what it loaded from them.
LEMMA NoStaleStep ==
  ASSUME TypeOK, QuiescentResize, NoStaleMap, NEW t \in Threads, Step(t)
  PROVE  NoStaleMap'
<1> USE DEF NoStaleMap, In, Holding, TypeOK, Goto
<1>1. CASE StartPush(t)
  BY <1>1 DEF StartPush, shared
<1>2. CASE StartPop(t)
  BY <1>2 DEF StartPop, shared
<1>3. CASE SizeTail(t)
  BY <1>3 DEF SizeTail, shared
<1>4. CASE Check(t)
  BY <1>4 DEF Check, shared, locals
<1>5. CASE Wait(t)
  BY <1>5 DEF Wait, shared, locals
<1>6. CASE Load(t)
  BY <1>6 DEF Load, shared
<1>7. CASE Inspect(t)
  BY <1>7 DEF Inspect, shared, locals
<1>8. CASE Claim(t)
  BY <1>8 DEF Claim, locals
<1>9. CASE ClaimFails(t)
  BY <1>9 DEF ClaimFails, shared, locals
<1>10. CASE Construct(t)
  BY <1>10 DEF Construct, locals
<1>11. CASE MoveOut(t)
  BY <1>11 DEF MoveOut
<1>12. CASE Publish(t)
  BY <1>12 DEF Publish, locals
<1>13. CASE AllocFails(t)
  BY <1>13 DEF AllocFails, shared, Forget
<1>14. CASE Notify(t)
  BY <1>14 DEF Notify, shared, locals
<1>15. CASE SizeHead(t)
  BY <1>15 DEF SizeHead, shared, Forget
<1>16. CASE Enter(t)
  BY <1>16 DEF Enter, locals
<1>17. CASE BackOff(t)
  BY <1>17 DEF BackOff, locals
<1>18. CASE Leave(t)
  BY <1>18 DEF Leave, Forget
<1>19. CASE LeaveRetry(t)
  BY <1>19 DEF LeaveRetry
<1>20. CASE LeaveFull(t)
  BY <1>20 DEF LeaveFull
<1>21. CASE Recheck(t)
  BY <1>21 DEF Recheck, shared, locals
<1>22. CASE StartResize(t)
  BY <1>22 DEF StartResize
<1>23. CASE Reopen(t)
  BY <1>23 DEF Reopen, locals
<1>24. CASE Quiesce(t)
  BY <1>24 DEF Quiesce, shared, locals
<1>25. CASE Migrate(t)
  <2>1. In(Critical) = {}
    BY <1>25 DEF Migrate, QuiescentResize
  <2>2. In(Holding)' = {}
    BY <1>25, <2>1 DEF Migrate, Critical
  <2> QED
    BY <2>2
<1> QED
  BY <1>1, <1>2, <1>3, <1>4, <1>5, <1>6, <1>7, <1>8, <1>9, <1>10, <1>11, <1>12, <1>13, <1>14, <1>15, <1>16, <1>17, <1>18, <1>19, <1>20, <1>21, <1>22, <1>23, <1>24, <1>25 DEF Step, Call, Attempt, Resize

\* Capacities are loaded from capacity_, a power of two, and kept until used.
LEMMA CapaStep ==
  ASSUME TypeOK, CapaLoaded, NEW t \in Threads, Step(t)
  PROVE  CapaLoaded'
<1> USE DEF CapaLoaded, In, Holding, TypeOK, Goto
<1>1. CASE StartPush(t)
  BY <1>1 DEF StartPush, shared
<1>2. CASE StartPop(t)
  BY <1>2 DEF StartPop, shared
<1>3. CASE SizeTail(t)
  BY <1>3 DEF SizeTail, shared
<1>4. CASE Check(t)
  BY <1>4 DEF Check, shared, locals
<1>5. CASE Wait(t)
  BY <1>5 DEF Wait, shared, locals
<1>6. CASE Load(t)
  BY <1>6 DEF Load, shared
<1>7. CASE Inspect(t)
  BY <1>7 DEF Inspect, shared, locals
<1>8. CASE Claim(t)
  BY <1>8 DEF Claim, locals
<1>9. CASE ClaimFails(t)
  BY <1>9 DEF ClaimFails, shared, locals
<1>10. CASE Construct(t)
  BY <1>10 DEF Construct, locals
<1>11. CASE MoveOut(t)
  BY <1>11 DEF MoveOut
<1>12. CASE Publish(t)
  BY <1>12 DEF Publish, locals
<1>13. CASE AllocFails(t)
  BY <1>13 DEF AllocFails, shared, Forget
<1>14. CASE Notify(t)
  BY <1>14 DEF Notify, shared, locals
<1>15. CASE SizeHead(t)
  BY <1>15 DEF SizeHead, shared, Forget
<1>16. CASE Enter(t)
  BY <1>16 DEF Enter, locals
<1>17. CASE BackOff(t)
  BY <1>17 DEF BackOff, locals
<1>18. CASE Leave(t)
  BY <1>18 DEF Leave, Forget
<1>19. CASE LeaveRetry(t)
  BY <1>19 DEF LeaveRetry
<1>20. CASE LeaveFull(t)
  BY <1>20 DEF LeaveFull
<1>21. CASE Recheck(t)
  BY <1>21 DEF Recheck, shared, locals
<1>22. CASE StartResize(t)
  BY <1>22 DEF StartResize
<1>23. CASE Reopen(t)
  BY <1>23 DEF Reopen, locals
<1>24. CASE Quiesce(t)
  BY <1>24 DEF Quiesce, shared, locals
<1>25. CASE Migrate(t)
  BY <1>25 DEF Migrate
<1> QED
  BY <1>1, <1>2, <1>3, <1>4, <1>5, <1>6, <1>7, <1>8, <1>9, <1>10, <1>11, <1>12, <1>13, <1>14, <1>15, <1>16, <1>17, <1>18, <1>19, <1>20, <1>21, <1>22, <1>23, <1>24, <1>25 DEF Step, Call, Attempt, Resize

-----------------------------------------------------------------------------

LEMMA IInvInit == Init => IInv
<1> SUFFICES ASSUME Init PROVE IInv
  OBVIOUS
<1>1. capacity \in Nat \ {0} /\ IsPowerOfTwo(capacity)
  BY CapaAssumption, BitCeilIs DEF Init
<1>2. TypeOK
  BY <1>1, BoundAssumption DEF Init, TypeOK, Labels, Items
<1>3. In(Counted) = {} /\ In(Owning) = {} /\ In(Critical) = {} /\ In(Holding) = {}
      /\ In({"migrate", "reopen"}) = {}
      /\ In(Holding \cup {"leave_full", "grow", "quiesce", "migrate"}) = {}
  BY DEF Init, In, Counted, Critical, Owning, Holding
<1>4. ActiveIsExact
  BY <1>3, FS_EmptySet DEF Init, ActiveIsExact
<1> QED
  BY <1>2, <1>3, <1>4 DEF IInv, QuiescentResize, NoStaleMap, CapaLoaded

LEMMA IInvNext == IInv /\ [Next]_vars => IInv'
<1> SUFFICES ASSUME IInv, [Next]_vars PROVE IInv'
  OBVIOUS
<1>1. CASE \E t \in Threads : Step(t)
  <2>1. PICK t \in Threads : Step(t)
    BY <1>1
  <2>2. ActiveIsExact' /\ active' \in Nat
    BY <2>1, ActiveStep DEF IInv
  <2>3. TypeOK'
    BY <2>1, <2>2, TypeStep
  <2>4. QuiescentResize' /\ NoStaleMap' /\ CapaLoaded'
    BY <2>1, QuiescentStep, NoStaleStep, CapaStep DEF IInv
  <2> QED
    BY <2>2, <2>3, <2>4 DEF IInv
<1>2. CASE Destroy
  <2>1. TypeOK'
    BY <1>2 DEF IInv, Destroy, TypeOK, locals
  <2> QED
    BY <1>2, <2>1 DEF IInv, Destroy, locals, ActiveIsExact, QuiescentResize,
                      NoStaleMap, CapaLoaded, In
<1>3. CASE UNCHANGED vars
  BY <1>3 DEF IInv, vars, shared, locals, TypeOK, ActiveIsExact, QuiescentResize,
              NoStaleMap, CapaLoaded, In
<1> QED
  BY <1>1, <1>2, <1>3 DEF Next, Step, Destroyed

\* The inductive invariant holds in every reachable state.
THEOREM Inductive == Spec => []IInv
BY IInvInit, IInvNext, PTL DEF Spec

\* Every variable of the queue stays in its range: slot indices exist, positions
\* and counters never fall below zero, the capacity is always a power of two.
THEOREM TypeCorrect == Spec => []TypeOK
BY Inductive, PTL DEF IInv

\* active_threads_ is the number of threads inside push() or pop().
THEOREM ActiveCorrect == Spec => []ActiveIsExact
BY Inductive, PTL DEF IInv

\* The array is replaced by one thread, alone.
THEOREM ResizeIsQuiescent == Spec => []QuiescentResize
BY Inductive, PTL DEF IInv

\* No thread ever uses an array or a capacity that a resize has replaced, so
\* `delete[] old_map` frees memory nobody will touch.
THEOREM NoUseAfterFree == Spec => []NoStaleMap
BY Inductive, PTL DEF IInv

-----------------------------------------------------------------------------
(* Positions and slots.                                                    *)

\* The slot of position p in an array of n slots.
Cell(p, n) == p % n

\* Every position has a slot.
LEMMA CellType ==
  ASSUME NEW n \in Nat \ {0}, NEW p \in Int
  PROVE  Cell(p, n) \in 0..(n - 1)
BY DEF Cell

\* Two numbers below n that differ by a multiple of n are equal.
LEMMA Residue ==
  ASSUME NEW n \in Nat \ {0}, NEW a \in 0..(n - 1), NEW b \in 0..(n - 1),
         NEW m \in Int, a - b = n * m
  PROVE  a = b
<1>1. m >= 1 => n * m >= n
  OBVIOUS
<1>2. m <= -1 => n * m <= -n
  OBVIOUS
<1> QED
  BY <1>1, <1>2

\* A position is a number of rounds and a slot.
LEMMA Division ==
  ASSUME NEW n \in Nat \ {0}, NEW p \in Int
  PROVE  \E k \in Int : p = n * k + Cell(p, n)
<1>1. p \div n \in Int /\ p = n * (p \div n) + (p % n)
  OBVIOUS
<1> QED
  BY <1>1 DEF Cell

\* Positions a multiple of the capacity apart share a slot.
LEMMA ShiftedCell ==
  ASSUME NEW n \in Nat \ {0}, NEW p \in Int, NEW k \in Int
  PROVE  Cell(p + n * k, n) = Cell(p, n)
<1> DEFINE q == p + n * k
<1>0. q \in Int
  OBVIOUS
<1>1. PICK a \in Int : p = n * a + Cell(p, n)
  BY Division
<1>2. PICK b \in Int : q = n * b + Cell(q, n)
  BY <1>0, Division
<1>3. Cell(p, n) \in 0..(n - 1) /\ Cell(q, n) \in 0..(n - 1)
  BY <1>0, CellType
<1>4. (b - a) - k \in Int /\ Cell(p, n) - Cell(q, n) = n * ((b - a) - k)
  <2>1. n * ((b - a) - k) = n * b - n * a - n * k
    OBVIOUS
  <2> QED
    BY <1>1, <1>2, <1>3, <2>1
<1> HIDE DEF q
<1>5. Cell(p, n) = Cell(q, n)
  BY <1>3, <1>4, Residue
<1> QED
  BY <1>5 DEF q

\* One round later comes the same slot.
LEMMA NextCell ==
  ASSUME NEW n \in Nat \ {0}, NEW p \in Int
  PROVE  Cell(p + n, n) = Cell(p, n)
<1>1. p + n * 1 = p + n
  OBVIOUS
<1> QED
  BY <1>1, ShiftedCell

\* Positions that share a slot are a round or more apart.
LEMMA SameCell ==
  ASSUME NEW n \in Nat \ {0}, NEW p \in Int, NEW q \in Int, Cell(p, n) = Cell(q, n), p < q
  PROVE  p + n <= q
<1>1. PICK a \in Int : p = n * a + Cell(p, n)
  BY Division
<1>2. PICK b \in Int : q = n * b + Cell(q, n)
  BY Division
<1>3. Cell(p, n) \in Int
  BY CellType
<1>4. q - p = n * (b - a)
  BY <1>1, <1>2, <1>3
<1>5. b - a >= 1
  <2>1. b - a <= 0 => n * (b - a) <= 0
    OBVIOUS
  <2> QED
    BY <1>4, <2>1
<1>6. n * (b - a) >= n
  BY <1>5
<1> QED
  BY <1>4, <1>6

\* A number below the capacity is its own slot.
LEMMA SmallCell ==
  ASSUME NEW n \in Nat \ {0}, NEW i \in 0..(n - 1)
  PROVE  Cell(i, n) = i
<1>0. i \in Int
  OBVIOUS
<1>1. PICK a \in Int : i = n * a + Cell(i, n)
  BY <1>0, Division
<1>2. Cell(i, n) \in 0..(n - 1)
  BY <1>0, CellType
<1>3. i - Cell(i, n) = n * a
  BY <1>1, <1>2
<1> QED
  BY <1>2, <1>3, Residue

\* So a number below the capacity is the slot of every position a round away.
LEMMA ShiftedSmallCell ==
  ASSUME NEW n \in Nat \ {0}, NEW i \in 0..(n - 1), NEW k \in Int
  PROVE  Cell(i + n * k, n) = i
<1>1. i \in Int
  OBVIOUS
<1>2. Cell(i + n * k, n) = Cell(i, n)
  BY <1>1, ShiftedCell
<1> QED
  BY <1>2, SmallCell

\* A round of positions visits every slot.
LEMMA EveryCell ==
  ASSUME NEW n \in Nat \ {0}, NEW h \in Int, NEW i \in 0..(n - 1)
  PROVE  \E p \in h..(h + n - 1) : Cell(p, n) = i
<1> DEFINE d == Cell(i - h, n)
<1>0. i \in Int /\ i - h \in Int
  OBVIOUS
<1>1. d \in 0..(n - 1)
  BY <1>0, CellType
<1>2. PICK k \in Int : i - h = n * k + d
  BY <1>0, Division
<1> HIDE DEF d
<1>3. h + d \in h..(h + n - 1) /\ h + d = i + n * (-k)
  <2> DEFINE m == n * k
  <2>1. m \in Int /\ i - h = m + d /\ n * (-k) = -m
    BY <1>2
  <2> HIDE DEF m
  <2>2. h + d \in h..(h + n - 1) /\ h + d = i + (-m)
    BY <1>0, <1>1, <2>1
  <2> QED
    BY <2>1, <2>2
<1>4. -k \in Int
  OBVIOUS
<1>5. Cell(i + n * (-k), n) = i
  BY <1>4, ShiftedSmallCell
<1> QED
  BY <1>3, <1>5

\* The youngest position of a slot is one of the last n before tail_pos_.
LEMMA YoungestIs ==
  ASSUME NEW n \in Nat \ {0}, NEW i \in 0..(n - 1), tail \in Nat
  PROVE  /\ Youngest(i, n) \in Int
         /\ tail - n <= Youngest(i, n) /\ Youngest(i, n) < tail
         /\ Cell(Youngest(i, n), n) = i
<1> DEFINE d == Cell(tail - 1 - i, n)
<1>0. tail - 1 - i \in Int
  OBVIOUS
<1>1. d \in 0..(n - 1)
  BY <1>0, CellType
<1>2. PICK k \in Int : tail - 1 - i = n * k + d
  BY <1>0, Division
<1>3. Youngest(i, n) = (tail - 1) - d
  BY DEF Youngest, Cell
<1> HIDE DEF d
<1>4. Youngest(i, n) = i + n * k
  <2> DEFINE m == n * k
  <2>1. m \in Int /\ tail - 1 - i = m + d
    BY <1>2
  <2> HIDE DEF m
  <2>2. (tail - 1) - d = i + m
    BY <1>0, <1>1, <2>1
  <2> QED
    BY <1>3, <2>2 DEF m
<1>5. Cell(i + n * k, n) = i
  BY ShiftedSmallCell
<1> QED
  BY <1>1, <1>3, <1>4, <1>5

\* Of the positions of the last round, each is the youngest of its slot.
LEMMA YoungestOf ==
  ASSUME NEW n \in Nat \ {0}, NEW p \in Int, tail \in Nat, tail - n <= p, p < tail
  PROVE  Youngest(Cell(p, n), n) = p
<1> DEFINE y == Youngest(Cell(p, n), n)
<1>1. y \in Int /\ tail - n <= y /\ y < tail /\ Cell(y, n) = Cell(p, n)
  BY CellType, YoungestIs
<1> HIDE DEF y
<1>2. ~(y < p) /\ ~(p < y)
  BY <1>1, SameCell
<1>3. y = p
  BY <1>1, <1>2
<1> QED
  BY <1>3 DEF y

\* No position lies below its slot.
LEMMA CellAtMost ==
  ASSUME NEW n \in Nat \ {0}, NEW p \in Nat
  PROVE  Cell(p, n) <= p
<1>0. p \in Int
  OBVIOUS
<1>1. Cell(p, n) \in 0..(n - 1)
  BY <1>0, CellType
<1>2. PICK k \in Int : p = n * k + Cell(p, n)
  BY <1>0, Division
<1>3. k <= -1 => n * k <= -n
  OBVIOUS
<1>4. k >= 0
  BY <1>1, <1>2, <1>3
<1>5. n * k \in Nat
  BY <1>4
<1> QED
  BY <1>1, <1>2, <1>5

-----------------------------------------------------------------------------
(* The inductive invariant of the ring.                                    *)

Owners == In({"access", "publish"})
Claimers == In({"inspect", "claim"})
SeqAt(p) == seq[Cell(p, capacity)]
DataAt(p) == data[Cell(p, capacity)]

\* With one slot the sequence of a filled slot would be that of the next position.
Shape == capacity >= 2 /\ head <= tail /\ tail <= head + capacity

\* A position of the window is readable or belongs to the push that fills it.
Filled(p) == SeqAt(p) = p + 1 /\ DataAt(p) # Raw
Filling(p) == \E t \in Owners : op[t] = "push" /\ pos[t] = p
WindowFits == \A p \in head..(tail - 1) : Filled(p) \/ Filling(p)

\* A position after it is writable, or fresh from a resize, or the pop of the
\* position one round earlier is not done with the slot.
Vacant(p) == DataAt(p) = Raw /\ SeqAt(p) \in {p, Cell(p, capacity)}
Vacating(p) == \E t \in Owners : op[t] = "pop" /\ pos[t] = p - capacity
RoomFits == \A p \in tail..(head + capacity - 1) : Vacant(p) \/ Vacating(p)

\* A thread that claimed a position finds its slot as it left it.
PushersFit ==
  \A t \in Owners : op[t] = "push" =>
    /\ head <= pos[t] /\ pos[t] < tail
    /\ SeqAt(pos[t]) = pos[t]
    /\ pc[t] = "access" => DataAt(pos[t]) = Raw
    /\ pc[t] = "publish" => DataAt(pos[t]) # Raw
PoppersFit ==
  \A t \in Owners : op[t] = "pop" =>
    /\ tail <= pos[t] + capacity /\ pos[t] < head
    /\ SeqAt(pos[t]) = pos[t] + 1
    /\ pc[t] = "access" => DataAt(pos[t]) # Raw
    /\ pc[t] = "publish" => DataAt(pos[t]) = Raw
Distinct ==
  \A t, u \in Owners : Cell(pos[t], capacity) = Cell(pos[u], capacity) => t = u

\* What a thread about to claim saw is still so, if its compare-exchange can succeed.
Claimable ==
  \A t \in Claimers :
    /\ op[t] = "push" => pos[t] <= tail
    /\ op[t] = "pop" => pos[t] <= head
    /\ pc[t] = "claim" /\ op[t] = "push" /\ pos[t] = tail => SeqAt(tail) = tail
    /\ pc[t] = "claim" /\ op[t] = "pop" /\ pos[t] = head => SeqAt(head) = head + 1

\* A thread inside a call of push() or pop() knows which, and a push has its argument.
Working ==
  \A t \in Threads : pc[t] \notin {"idle", "size_head"} =>
    /\ op[t] \in {"push", "pop"}
    /\ op[t] = "push" => item[t] # Raw

\* tail_pos_ only grows.
SizesSeen == \A t \in At("size_head") : pos[t] <= tail

Slots == Shape /\ WindowFits /\ RoomFits /\ PushersFit /\ PoppersFit /\ Distinct
Ring == Slots /\ Claimable /\ Working /\ SizesSeen
Gone == (\A t \in Threads : pc[t] = "idle") /\ \A i \in DOMAIN data : data[i] = Raw
RInv == IF alive THEN Ring ELSE Gone

-----------------------------------------------------------------------------
(* Steps that touch neither the slots nor who owns them.                   *)

\* All steps but the claim, the accesses to the slot, its publication and the migration.
LEMMA QuietStep ==
  ASSUME TypeOK, NEW t \in Threads, Step(t), ~Claim(t), ~Construct(t), ~MoveOut(t),
         ~Publish(t), ~Migrate(t)
  PROVE  /\ UNCHANGED <<seq, data, head, tail, capacity>>
         /\ Owners' = Owners
         /\ \A u \in Owners : pc'[u] = pc[u] /\ op'[u] = op[u] /\ pos'[u] = pos[u]
<1> USE DEF TypeOK, Owners, In, Goto
<1>1. CASE StartPush(t)
  BY <1>1 DEF StartPush, shared
<1>2. CASE StartPop(t)
  BY <1>2 DEF StartPop, shared
<1>3. CASE SizeTail(t)
  BY <1>3 DEF SizeTail, shared
<1>4. CASE Check(t)
  BY <1>4 DEF Check, shared, locals
<1>5. CASE Wait(t)
  BY <1>5 DEF Wait, shared, locals
<1>6. CASE Enter(t)
  BY <1>6 DEF Enter, locals
<1>7. CASE Recheck(t)
  BY <1>7 DEF Recheck, shared, locals
<1>8. CASE BackOff(t)
  BY <1>8 DEF BackOff, locals
<1>9. CASE Load(t)
  BY <1>9 DEF Load, shared
<1>10. CASE Inspect(t)
  BY <1>10 DEF Inspect, shared, locals
<1>11. CASE ClaimFails(t)
  BY <1>11 DEF ClaimFails, shared, locals
<1>12. CASE Leave(t)
  BY <1>12 DEF Leave, Forget
<1>13. CASE LeaveRetry(t)
  BY <1>13 DEF LeaveRetry
<1>14. CASE LeaveFull(t)
  BY <1>14 DEF LeaveFull
<1>15. CASE StartResize(t)
  BY <1>15 DEF StartResize
<1>16. CASE Quiesce(t)
  BY <1>16 DEF Quiesce, shared, locals
<1>17. CASE AllocFails(t)
  BY <1>17 DEF AllocFails, shared, Forget
<1>18. CASE Reopen(t)
  BY <1>18 DEF Reopen, locals
<1>19. CASE Notify(t)
  BY <1>19 DEF Notify, shared, locals
<1>20. CASE SizeHead(t)
  BY <1>20 DEF SizeHead, shared, Forget
<1>21. CASE Claim(t)
  BY <1>21
<1>22. CASE Construct(t)
  BY <1>22
<1>23. CASE MoveOut(t)
  BY <1>23
<1>24. CASE Publish(t)
  BY <1>24
<1>25. CASE Migrate(t)
  BY <1>25
<1> QED
  BY <1>1, <1>2, <1>3, <1>4, <1>5, <1>6, <1>7, <1>8, <1>9, <1>10, <1>11, <1>12, <1>13,
     <1>14, <1>15, <1>16, <1>17, <1>18, <1>19, <1>20, <1>21, <1>22, <1>23, <1>24, <1>25
     DEF Step, Call, Attempt, Resize

\* They leave everything about the slots as it is.
LEMMA QuietSlots ==
  ASSUME TypeOK, Slots, NEW t \in Threads, Step(t), ~Claim(t), ~Construct(t),
         ~MoveOut(t), ~Publish(t), ~Migrate(t)
  PROVE  Slots'
<1>1. /\ UNCHANGED <<seq, data, head, tail, capacity>>
      /\ Owners' = Owners
      /\ \A u \in Owners : pc'[u] = pc[u] /\ op'[u] = op[u] /\ pos'[u] = pos[u]
  BY QuietStep
<1>2. Shape' /\ PushersFit'
  BY <1>1 DEF Slots, Shape, PushersFit, SeqAt, DataAt
<1>3. PoppersFit' /\ Distinct'
  BY <1>1 DEF Slots, PoppersFit, Distinct, SeqAt, DataAt
<1>4. WindowFits'
  <2> SUFFICES ASSUME NEW p \in head..(tail - 1) PROVE Filled(p)' \/ Filling(p)'
    BY <1>1 DEF WindowFits
  <2>1. Filled(p) \/ Filling(p)
    BY DEF Slots, WindowFits
  <2> QED
    BY <1>1, <2>1 DEF Filled, Filling, SeqAt, DataAt
<1>5. RoomFits'
  <2> SUFFICES ASSUME NEW p \in tail..(head + capacity - 1) PROVE Vacant(p)' \/ Vacating(p)'
    BY <1>1 DEF RoomFits
  <2>1. Vacant(p) \/ Vacating(p)
    BY DEF Slots, RoomFits
  <2> QED
    BY <1>1, <2>1 DEF Vacant, Vacating, SeqAt, DataAt
<1> QED
  BY <1>2, <1>3, <1>4, <1>5 DEF Slots

\* A position is loaded before it is claimed, and its slot inspected.
LEMMA QuietClaimable ==
  ASSUME TypeOK, NoStaleMap, Claimable, Working, NEW t \in Threads, Step(t), ~Claim(t),
         ~Construct(t), ~MoveOut(t), ~Publish(t), ~Migrate(t)
  PROVE  Claimable'
<1>0. /\ UNCHANGED <<seq, head, tail, capacity>>
      /\ \A p : SeqAt(p)' = SeqAt(p)
  BY QuietStep DEF SeqAt
<1> USE DEF TypeOK, Claimable, Claimers, In, Goto
<1>1. CASE StartPush(t)
  BY <1>1, <1>0 DEF StartPush, shared
<1>2. CASE StartPop(t)
  BY <1>2, <1>0 DEF StartPop, shared
<1>3. CASE SizeTail(t)
  BY <1>3, <1>0 DEF SizeTail, shared
<1>4. CASE Check(t)
  BY <1>4, <1>0 DEF Check, shared, locals
<1>5. CASE Wait(t)
  BY <1>5, <1>0 DEF Wait, shared, locals
<1>6. CASE Enter(t)
  BY <1>6, <1>0 DEF Enter, locals
<1>7. CASE Recheck(t)
  BY <1>7, <1>0 DEF Recheck, shared, locals
<1>8. CASE BackOff(t)
  BY <1>8, <1>0 DEF BackOff, locals
<1>9. CASE Load(t)
  BY <1>9, <1>0 DEF Load, shared
<1>10. CASE Inspect(t)
  <2>1. Slot(t) = Cell(pos[t], capacity)
    BY <1>10 DEF Inspect, NoStaleMap, Holding, Slot, Cell
  <2>2. pc'[t] = "claim" => SeqAt(pos[t]) = Wanted(t)
    BY <1>10, <2>1 DEF Inspect, SeqAt
  <2>3. UNCHANGED <<op, pos>> /\ \A u \in Threads : u # t => pc'[u] = pc[u]
    BY <1>10 DEF Inspect, locals
  <2> QED
    BY <1>0, <1>10, <2>2, <2>3 DEF Inspect, Wanted
<1>11. CASE ClaimFails(t)
  BY <1>11, <1>0 DEF ClaimFails, shared, locals
<1>12. CASE Leave(t)
  BY <1>12, <1>0 DEF Leave, Forget
<1>13. CASE LeaveRetry(t)
  BY <1>13, <1>0 DEF LeaveRetry
<1>14. CASE LeaveFull(t)
  BY <1>14, <1>0 DEF LeaveFull
<1>15. CASE StartResize(t)
  BY <1>15, <1>0 DEF StartResize
<1>16. CASE Quiesce(t)
  BY <1>16, <1>0 DEF Quiesce, shared, locals
<1>17. CASE AllocFails(t)
  BY <1>17, <1>0 DEF AllocFails, shared, Forget
<1>18. CASE Reopen(t)
  BY <1>18, <1>0 DEF Reopen, locals
<1>19. CASE Notify(t)
  BY <1>19, <1>0 DEF Notify, shared, locals
<1>20. CASE SizeHead(t)
  BY <1>20, <1>0 DEF SizeHead, shared, Forget
<1>21. CASE Claim(t)
  BY <1>21
<1>22. CASE Construct(t)
  BY <1>22
<1>23. CASE MoveOut(t)
  BY <1>23
<1>24. CASE Publish(t)
  BY <1>24
<1>25. CASE Migrate(t)
  BY <1>25
<1> QED
  BY <1>1, <1>2, <1>3, <1>4, <1>5, <1>6, <1>7, <1>8, <1>9, <1>10, <1>11, <1>12, <1>13,
     <1>14, <1>15, <1>16, <1>17, <1>18, <1>19, <1>20, <1>21, <1>22, <1>23, <1>24, <1>25
     DEF Step, Call, Attempt, Resize

\* Every step.
LEMMA WorkingStep ==
  ASSUME TypeOK, Working, NEW t \in Threads, Step(t)
  PROVE  Working'
<1> USE DEF TypeOK, Working, Goto
<1>1. CASE StartPush(t)
  BY <1>1, BoundAssumption DEF StartPush, shared, Raw
<1>2. CASE StartPop(t)
  BY <1>2 DEF StartPop, shared
<1>3. CASE SizeTail(t)
  BY <1>3 DEF SizeTail, shared
<1>4. CASE Check(t)
  BY <1>4 DEF Check, shared, locals
<1>5. CASE Wait(t)
  BY <1>5 DEF Wait, shared, locals
<1>6. CASE Enter(t)
  BY <1>6 DEF Enter, locals
<1>7. CASE Recheck(t)
  BY <1>7 DEF Recheck, shared, locals
<1>8. CASE BackOff(t)
  BY <1>8 DEF BackOff, locals
<1>9. CASE Load(t)
  BY <1>9 DEF Load, shared
<1>10. CASE Inspect(t)
  BY <1>10 DEF Inspect, shared, locals
<1>11. CASE ClaimFails(t)
  BY <1>11 DEF ClaimFails, shared, locals
<1>12. CASE Leave(t)
  BY <1>12 DEF Leave, Forget
<1>13. CASE LeaveRetry(t)
  BY <1>13 DEF LeaveRetry
<1>14. CASE LeaveFull(t)
  BY <1>14 DEF LeaveFull
<1>15. CASE StartResize(t)
  BY <1>15 DEF StartResize
<1>16. CASE Quiesce(t)
  BY <1>16 DEF Quiesce, shared, locals
<1>17. CASE AllocFails(t)
  BY <1>17 DEF AllocFails, shared, Forget
<1>18. CASE Reopen(t)
  BY <1>18 DEF Reopen, locals
<1>19. CASE Notify(t)
  BY <1>19 DEF Notify, shared, locals
<1>20. CASE SizeHead(t)
  BY <1>20 DEF SizeHead, shared, Forget
<1>21. CASE Claim(t)
  BY <1>21 DEF Claim, locals
<1>22. CASE Construct(t)
  BY <1>22 DEF Construct, locals
<1>23. CASE MoveOut(t)
  BY <1>23 DEF MoveOut
<1>24. CASE Publish(t)
  BY <1>24 DEF Publish, locals
<1>25. CASE Migrate(t)
  BY <1>25 DEF Migrate
<1> QED
  BY <1>1, <1>2, <1>3, <1>4, <1>5, <1>6, <1>7, <1>8, <1>9, <1>10, <1>11, <1>12, <1>13,
     <1>14, <1>15, <1>16, <1>17, <1>18, <1>19, <1>20, <1>21, <1>22, <1>23, <1>24, <1>25
     DEF Step, Call, Attempt, Resize

\* size() keeps a value of tail_pos_, which never falls.
LEMMA SizesStep ==
  ASSUME TypeOK, SizesSeen, NEW t \in Threads, Step(t)
  PROVE  SizesSeen'
<1> USE DEF TypeOK, SizesSeen, At, Goto
<1>1. CASE StartPush(t)
  BY <1>1 DEF StartPush, shared
<1>2. CASE StartPop(t)
  BY <1>2 DEF StartPop, shared
<1>3. CASE SizeTail(t)
  BY <1>3 DEF SizeTail, shared
<1>4. CASE Check(t)
  BY <1>4 DEF Check, shared, locals
<1>5. CASE Wait(t)
  BY <1>5 DEF Wait, shared, locals
<1>6. CASE Enter(t)
  BY <1>6 DEF Enter, locals
<1>7. CASE Recheck(t)
  BY <1>7 DEF Recheck, shared, locals
<1>8. CASE BackOff(t)
  BY <1>8 DEF BackOff, locals
<1>9. CASE Load(t)
  BY <1>9 DEF Load, shared
<1>10. CASE Inspect(t)
  BY <1>10 DEF Inspect, shared, locals
<1>11. CASE ClaimFails(t)
  BY <1>11 DEF ClaimFails, shared, locals
<1>12. CASE Leave(t)
  BY <1>12 DEF Leave, Forget
<1>13. CASE LeaveRetry(t)
  BY <1>13 DEF LeaveRetry
<1>14. CASE LeaveFull(t)
  BY <1>14 DEF LeaveFull
<1>15. CASE StartResize(t)
  BY <1>15 DEF StartResize
<1>16. CASE Quiesce(t)
  BY <1>16 DEF Quiesce, shared, locals
<1>17. CASE AllocFails(t)
  BY <1>17 DEF AllocFails, shared, Forget
<1>18. CASE Reopen(t)
  BY <1>18 DEF Reopen, locals
<1>19. CASE Notify(t)
  BY <1>19 DEF Notify, shared, locals
<1>20. CASE SizeHead(t)
  BY <1>20 DEF SizeHead, shared, Forget
<1>21. CASE Claim(t)
  BY <1>21 DEF Claim, locals
<1>22. CASE Construct(t)
  BY <1>22 DEF Construct, locals
<1>23. CASE MoveOut(t)
  BY <1>23 DEF MoveOut
<1>24. CASE Publish(t)
  BY <1>24 DEF Publish, locals
<1>25. CASE Migrate(t)
  BY <1>25 DEF Migrate
<1> QED
  BY <1>1, <1>2, <1>3, <1>4, <1>5, <1>6, <1>7, <1>8, <1>9, <1>10, <1>11, <1>12, <1>13,
     <1>14, <1>15, <1>16, <1>17, <1>18, <1>19, <1>20, <1>21, <1>22, <1>23, <1>24, <1>25
     DEF Step, Call, Attempt, Resize

-----------------------------------------------------------------------------
(* The steps that claim a position, use its slot, or publish it.           *)

\* A slot that a claimed position or a slot's bounds speak of is in the array.
LEMMA Bounds ==
  ASSUME TypeOK
  PROVE  /\ capacity \in Nat \ {0} /\ head \in Nat /\ tail \in Nat
         /\ \A p \in Int : Cell(p, capacity) \in 0..(capacity - 1)
         /\ \A u \in Threads : pos[u] \in Nat
         /\ Owners \subseteq Threads /\ Claimers \subseteq Threads
BY CellType DEF TypeOK, Owners, Claimers, In

\* A position whose slot has the sequence of a claim is nobody's yet.
LEMMA UnownedForPush ==
  ASSUME TypeOK, Slots, Working, SeqAt(tail) = tail, NEW u \in Owners
  PROVE  Cell(pos[u], capacity) # Cell(tail, capacity)
<1> SUFFICES ASSUME Cell(pos[u], capacity) = Cell(tail, capacity) PROVE FALSE
  OBVIOUS
<1>1. u \in Threads /\ op[u] \in {"push", "pop"} /\ pos[u] \in Nat
  BY Bounds DEF Owners, In, Working
<1>2. SeqAt(pos[u]) = tail
  BY DEF SeqAt
<1>3. CASE op[u] = "push"
  BY <1>1, <1>2, <1>3, Bounds DEF Slots, PushersFit
<1>4. CASE op[u] = "pop"
  <2>1. pos[u] + 1 = tail
    BY <1>1, <1>2, <1>4 DEF Slots, PoppersFit
  <2>2. pos[u] + capacity <= tail
    BY <1>1, <2>1, Bounds, SameCell
  <2> QED
    BY <1>1, <2>1, <2>2, Bounds DEF Slots, Shape
<1> QED
  BY <1>1, <1>3, <1>4

\* The same of a position to be popped.
LEMMA UnownedForPop ==
  ASSUME TypeOK, Slots, Working, SeqAt(head) = head + 1, NEW u \in Owners
  PROVE  Cell(pos[u], capacity) # Cell(head, capacity)
<1> SUFFICES ASSUME Cell(pos[u], capacity) = Cell(head, capacity) PROVE FALSE
  OBVIOUS
<1>1. u \in Threads /\ op[u] \in {"push", "pop"} /\ pos[u] \in Nat
  BY Bounds DEF Owners, In, Working
<1>2. SeqAt(pos[u]) = head + 1
  BY DEF SeqAt
<1>3. CASE op[u] = "push"
  <2>1. pos[u] = head + 1
    BY <1>1, <1>2, <1>3 DEF Slots, PushersFit
  <2>2. head + capacity <= pos[u]
    BY <1>1, <2>1, Bounds, SameCell
  <2> QED
    BY <1>1, <2>1, <2>2, Bounds DEF Slots, Shape
<1>4. CASE op[u] = "pop"
  BY <1>1, <1>2, <1>4, Bounds DEF Slots, PoppersFit
<1> QED
  BY <1>1, <1>3, <1>4

\* A slot with the sequence of the next push is vacant, and the ring is not full.
LEMMA RoomForPush ==
  ASSUME TypeOK, Slots, Working, SeqAt(tail) = tail
  PROVE  tail < head + capacity /\ DataAt(tail) = Raw
<1>1. tail # head + capacity
  <2> SUFFICES ASSUME tail = head + capacity PROVE FALSE
    OBVIOUS
  <2>0. head \in Int /\ capacity \in Nat \ {0}
    BY Bounds
  <2>1. Cell(head + capacity, capacity) = Cell(head, capacity)
    BY <2>0, NextCell
  <2>2. head \in head..(tail - 1)
    BY Bounds
  <2>3. Filled(head) \/ Filling(head)
    BY <2>2 DEF Slots, WindowFits
  <2>4. SeqAt(head) \in {head, head + 1}
    BY <2>3 DEF Filled, Filling, Slots, PushersFit
  <2>5. SeqAt(head) = SeqAt(tail)
    BY <2>1 DEF SeqAt
  <2> QED
    BY <2>4, <2>5, Bounds DEF Slots, Shape
<1>2. tail < head + capacity
  BY <1>1, Bounds DEF Slots, Shape
<1>3. tail \in tail..(head + capacity - 1)
  BY <1>2, Bounds
<1>4. Vacant(tail) \/ Vacating(tail)
  BY <1>3 DEF Slots, RoomFits
<1>5. ~Vacating(tail)
  <2> SUFFICES ASSUME NEW u \in Owners, pos[u] = tail - capacity PROVE FALSE
    BY DEF Vacating
  <2>1. pos[u] \in Int /\ pos[u] + capacity = tail
    BY Bounds
  <2>2. Cell(pos[u], capacity) = Cell(tail, capacity)
    BY <2>1, NextCell, Bounds
  <2> QED
    BY <2>2, UnownedForPush
<1> QED
  BY <1>2, <1>4, <1>5 DEF Vacant

\* A slot with the sequence of the next pop holds an object of the window.
LEMMA ItemForPop ==
  ASSUME TypeOK, Slots, Working, SeqAt(head) = head + 1
  PROVE  head < tail /\ DataAt(head) # Raw
<1>1. head # tail
  <2> SUFFICES ASSUME head = tail PROVE FALSE
    OBVIOUS
  <2>1. head \in tail..(head + capacity - 1)
    BY Bounds
  <2>2. Vacant(head) \/ Vacating(head)
    BY <2>1 DEF Slots, RoomFits
  <2>3. ~Vacating(head)
    <3> SUFFICES ASSUME NEW u \in Owners, pos[u] = head - capacity PROVE FALSE
      BY DEF Vacating
    <3>1. pos[u] \in Int /\ pos[u] + capacity = head
      BY Bounds
    <3>2. Cell(pos[u], capacity) = Cell(head, capacity)
      BY <3>1, NextCell, Bounds
    <3> QED
      BY <3>2, UnownedForPop
  <2>4. Cell(head, capacity) \in Nat /\ Cell(head, capacity) <= head
    BY CellAtMost, Bounds
  <2> QED
    BY <2>2, <2>3, <2>4, Bounds DEF Vacant
<1>2. head < tail
  BY <1>1, Bounds DEF Slots, Shape
<1>3. head \in head..(tail - 1)
  BY <1>2, Bounds
<1>4. Filled(head) \/ Filling(head)
  BY <1>3 DEF Slots, WindowFits
<1>5. ~Filling(head)
  BY UnownedForPop DEF Filling
<1> QED
  BY <1>2, <1>4, <1>5 DEF Filled

\* A claim takes a slot nobody owns and moves the window past it.
LEMMA ClaimSlots ==
  ASSUME TypeOK, Slots, Claimable, Working, NEW t \in Threads, Claim(t)
  PROVE  Slots'
<1>1. /\ pc[t] = "claim" /\ pc' = [pc EXCEPT ![t] = "access"]
      /\ UNCHANGED <<seq, data, capacity, op, pos>>
      /\ t \in Claimers /\ t \notin Owners /\ Owners' = Owners \cup {t}
      /\ \A u \in Owners : pc'[u] = pc[u]
      /\ pc'[t] = "access"
  BY DEF Claim, Goto, TypeOK, Owners, Claimers, In, locals
<1> DEFINE c(p) == Cell(p, capacity)
<1>2. CASE op[t] = "push"
  <2>1. pos[t] = tail /\ tail' = tail + 1 /\ head' = head
    BY <1>2 DEF Claim
  <2>2. SeqAt(tail) = tail
    BY <1>1, <1>2, <2>1 DEF Claimable
  <2>3. tail < head + capacity /\ DataAt(tail) = Raw
    BY <2>2, RoomForPush
  <2>4. \A u \in Owners : c(pos[u]) # c(tail)
    BY <2>2, UnownedForPush
  <2>5. Shape'
    BY <1>1, <2>1, <2>3, Bounds DEF Slots, Shape
  <2>6. WindowFits'
    <3> SUFFICES ASSUME NEW p \in head..tail PROVE Filled(p)' \/ Filling(p)'
      BY <2>1, Bounds DEF WindowFits
    <3>1. CASE p = tail
      BY <1>1, <1>2, <2>1, <3>1 DEF Filling
    <3>2. CASE p \in head..(tail - 1)
      <4>1. Filled(p) \/ Filling(p)
        BY <3>2 DEF Slots, WindowFits
      <4> QED
        BY <1>1, <4>1 DEF Filled, Filling, SeqAt, DataAt
    <3> QED
      BY <3>1, <3>2, Bounds
  <2>7. RoomFits'
    <3> SUFFICES ASSUME NEW p \in (tail + 1)..(head + capacity - 1)
                 PROVE  Vacant(p)' \/ Vacating(p)'
      BY <1>1, <2>1 DEF RoomFits
    <3>1. p \in tail..(head + capacity - 1)
      BY Bounds
    <3>2. Vacant(p) \/ Vacating(p)
      BY <3>1 DEF Slots, RoomFits
    <3> QED
      BY <1>1, <3>2 DEF Vacant, Vacating, SeqAt, DataAt
  <2>8. PushersFit'
    <3> SUFFICES ASSUME NEW u \in Owners', op[u] = "push"
                 PROVE  /\ head <= pos[u] /\ pos[u] < tail + 1
                        /\ SeqAt(pos[u]) = pos[u]
                        /\ pc'[u] = "access" => DataAt(pos[u]) = Raw
                        /\ pc'[u] = "publish" => DataAt(pos[u]) # Raw
      BY <1>1, <2>1 DEF PushersFit, SeqAt, DataAt
    <3>1. CASE u = t
      BY <1>1, <2>1, <2>2, <2>3, <3>1, Bounds DEF Slots, Shape
    <3>2. CASE u \in Owners
      BY <1>1, <3>2, Bounds DEF Slots, PushersFit
    <3> QED
      BY <1>1, <3>1, <3>2
  <2>9. PoppersFit'
    <3> SUFFICES ASSUME NEW u \in Owners, op[u] = "pop"
                 PROVE  /\ tail + 1 <= pos[u] + capacity /\ pos[u] < head
                        /\ SeqAt(pos[u]) = pos[u] + 1
                        /\ pc[u] = "access" => DataAt(pos[u]) # Raw
                        /\ pc[u] = "publish" => DataAt(pos[u]) = Raw
      BY <1>1, <1>2, <2>1 DEF PoppersFit, SeqAt, DataAt
    <3>1. tail # pos[u] + capacity
      BY <2>4, NextCell, Bounds
    <3> QED
      BY <3>1, Bounds DEF Slots, PoppersFit
  <2>10. Distinct'
    BY <1>1, <2>1, <2>4 DEF Slots, Distinct
  <2> QED
    BY <2>5, <2>6, <2>7, <2>8, <2>9, <2>10 DEF Slots
<1>3. CASE op[t] = "pop"
  <2>1. pos[t] = head /\ head' = head + 1 /\ tail' = tail
    BY <1>3 DEF Claim
  <2>2. SeqAt(head) = head + 1
    BY <1>1, <1>3, <2>1 DEF Claimable
  <2>3. head < tail /\ DataAt(head) # Raw
    BY <2>2, ItemForPop
  <2>4. \A u \in Owners : c(pos[u]) # c(head)
    BY <2>2, UnownedForPop
  <2>5. Shape'
    BY <1>1, <2>1, <2>3, Bounds DEF Slots, Shape
  <2>6. WindowFits'
    <3> SUFFICES ASSUME NEW p \in (head + 1)..(tail - 1) PROVE Filled(p)' \/ Filling(p)'
      BY <2>1 DEF WindowFits
    <3>1. p \in head..(tail - 1)
      BY Bounds
    <3>2. Filled(p) \/ Filling(p)
      BY <3>1 DEF Slots, WindowFits
    <3> QED
      BY <1>1, <3>2 DEF Filled, Filling, SeqAt, DataAt
  <2>7. RoomFits'
    <3> SUFFICES ASSUME NEW p \in tail..(head + capacity) PROVE Vacant(p)' \/ Vacating(p)'
      BY <1>1, <2>1, Bounds DEF RoomFits
    <3>1. CASE p = head + capacity
      <4>1. pos[t] = p - capacity
        BY <2>1, <3>1, Bounds
      <4> QED
        BY <1>1, <1>3, <4>1 DEF Vacating
    <3>2. CASE p \in tail..(head + capacity - 1)
      <4>1. Vacant(p) \/ Vacating(p)
        BY <3>2 DEF Slots, RoomFits
      <4> QED
        BY <1>1, <4>1 DEF Vacant, Vacating, SeqAt, DataAt
    <3> QED
      BY <3>1, <3>2, Bounds
  <2>8. PushersFit'
    <3> SUFFICES ASSUME NEW u \in Owners, op[u] = "push"
                 PROVE  /\ head + 1 <= pos[u] /\ pos[u] < tail
                        /\ SeqAt(pos[u]) = pos[u]
                        /\ pc[u] = "access" => DataAt(pos[u]) = Raw
                        /\ pc[u] = "publish" => DataAt(pos[u]) # Raw
      BY <1>1, <1>3, <2>1 DEF PushersFit, SeqAt, DataAt
    <3>1. head # pos[u]
      BY <2>4
    <3> QED
      BY <3>1, Bounds DEF Slots, PushersFit
  <2>9. PoppersFit'
    <3> SUFFICES ASSUME NEW u \in Owners', op[u] = "pop"
                 PROVE  /\ tail <= pos[u] + capacity /\ pos[u] < head + 1
                        /\ SeqAt(pos[u]) = pos[u] + 1
                        /\ pc'[u] = "access" => DataAt(pos[u]) # Raw
                        /\ pc'[u] = "publish" => DataAt(pos[u]) = Raw
      BY <1>1, <2>1 DEF PoppersFit, SeqAt, DataAt
    <3>1. CASE u = t
      BY <1>1, <2>1, <2>2, <2>3, <3>1, Bounds DEF Slots, Shape
    <3>2. CASE u \in Owners
      BY <1>1, <3>2, Bounds DEF Slots, PoppersFit
    <3> QED
      BY <1>1, <3>1, <3>2
  <2>10. Distinct'
    BY <1>1, <2>1, <2>4 DEF Slots, Distinct
  <2> QED
    BY <2>5, <2>6, <2>7, <2>8, <2>9, <2>10 DEF Slots
<1> QED
  BY <1>2, <1>3 DEF Claim

\* What the thread at a claimed slot knows: the slot is its own, and no position of
\* the ring but one shares it.
LEMMA OwnSlot ==
  ASSUME TypeOK, NoStaleMap, Slots, NEW t \in Owners
  PROVE  /\ Slot(t) = Cell(pos[t], capacity)
         /\ capa[t] = capacity
         /\ pos[t] \in Nat
         /\ Cell(pos[t], capacity) \in DOMAIN data /\ Cell(pos[t], capacity) \in DOMAIN seq
         /\ \A u \in Owners : u # t => Cell(pos[u], capacity) # Cell(pos[t], capacity)
<1>1. capa[t] = capacity
  BY DEF NoStaleMap, In, Owners, Holding
<1>2. pos[t] \in Nat /\ Cell(pos[t], capacity) \in 0..(capacity - 1)
  BY Bounds
<1> QED
  BY <1>1, <1>2 DEF Slot, Cell, TypeOK, Slots, Distinct

\* No other position of the ring shares the slot of a push.
LEMMA PushSlot ==
  ASSUME TypeOK, NoStaleMap, Slots, NEW t \in Owners, op[t] = "push"
  PROVE  \A p \in head..(head + capacity - 1) :
           p # pos[t] => Cell(p, capacity) # Cell(pos[t], capacity)
<1> SUFFICES ASSUME NEW p \in head..(head + capacity - 1), p # pos[t],
                    Cell(p, capacity) = Cell(pos[t], capacity)
             PROVE  FALSE
  OBVIOUS
<1>1. p \in Int /\ pos[t] \in Int /\ capacity \in Nat \ {0}
  BY Bounds
<1>2. head <= pos[t] /\ pos[t] < tail /\ tail <= head + capacity
  BY DEF Slots, Shape, PushersFit
<1>3. CASE p < pos[t]
  BY <1>1, <1>2, <1>3, SameCell, Bounds
<1>4. CASE pos[t] < p
  BY <1>1, <1>2, <1>4, SameCell, Bounds
<1> QED
  BY <1>1, <1>3, <1>4

\* Only the position one round later shares the slot of a pop.
LEMMA PopSlot ==
  ASSUME TypeOK, NoStaleMap, Slots, NEW t \in Owners, op[t] = "pop"
  PROVE  /\ \A p \in head..(head + capacity - 1) :
              p # pos[t] + capacity => Cell(p, capacity) # Cell(pos[t], capacity)
         /\ Cell(pos[t] + capacity, capacity) = Cell(pos[t], capacity)
<1>1. pos[t] \in Int /\ capacity \in Nat \ {0}
  BY Bounds
<1>2. tail <= pos[t] + capacity /\ pos[t] < head /\ head <= tail
  BY DEF Slots, Shape, PoppersFit
<1>3. Cell(pos[t] + capacity, capacity) = Cell(pos[t], capacity)
  BY <1>1, NextCell
<1>4. ASSUME NEW p \in head..(head + capacity - 1), p # pos[t] + capacity,
             Cell(p, capacity) = Cell(pos[t], capacity)
      PROVE  FALSE
  <2>1. p \in Int /\ pos[t] + capacity \in Int
    BY <1>1, Bounds
  <2>2. CASE p < pos[t] + capacity
    <3>1. p + capacity <= pos[t] + capacity
      BY <1>1, <1>3, <1>4, <2>1, <2>2, SameCell
    <3> QED
      BY <1>1, <1>2, <2>1, <3>1, Bounds
  <2>3. CASE pos[t] + capacity < p
    <3>1. pos[t] + capacity + capacity <= p
      BY <1>1, <1>3, <1>4, <2>1, <2>3, SameCell
    <3> QED
      BY <1>1, <1>2, <2>1, <3>1, Bounds
  <2> QED
    BY <1>4, <2>1, <2>2, <2>3
<1> QED
  BY <1>3, <1>4

\* push() constructs its argument.
LEMMA ConstructSlots ==
  ASSUME TypeOK, NoStaleMap, Slots, Working, NEW t \in Threads, Construct(t)
  PROVE  Slots'
<1>1. /\ op[t] = "push" /\ item[t] # Raw
      /\ pc' = [pc EXCEPT ![t] = "publish"]
      /\ UNCHANGED <<seq, head, tail, capacity, op, pos>>
      /\ t \in Owners /\ Owners' = Owners
      /\ pc'[t] = "publish" /\ \A u \in Owners : u # t => pc'[u] = pc[u]
  BY DEF Construct, Goto, TypeOK, Owners, In, locals, Working
<1>2. /\ DataAt(pos[t])' # Raw
      /\ \A p : Cell(p, capacity) # Cell(pos[t], capacity) => DataAt(p)' = DataAt(p)
      /\ \A p : SeqAt(p)' = SeqAt(p)
  BY <1>1, OwnSlot DEF Construct, DataAt, SeqAt, TypeOK
<1>3. Shape' /\ Distinct'
  BY <1>1 DEF Slots, Shape, Distinct
<1>4. WindowFits'
  <2> SUFFICES ASSUME NEW p \in head..(tail - 1) PROVE Filled(p)' \/ Filling(p)'
    BY <1>1 DEF WindowFits
  <2>1. Filled(p) \/ Filling(p)
    BY DEF Slots, WindowFits
  <2>2. CASE Filling(p)
    BY <1>1, <2>2 DEF Filling
  <2>3. CASE Filled(p) /\ p = pos[t]
    BY <1>1, <2>3 DEF Filling
  <2>4. CASE Filled(p) /\ p # pos[t]
    <3>1. p \in head..(head + capacity - 1)
      BY Bounds DEF Slots, Shape
    <3>2. DataAt(p)' = DataAt(p)
      BY <1>1, <1>2, <2>4, <3>1, PushSlot
    <3> QED
      BY <1>2, <2>4, <3>2 DEF Filled
  <2> QED
    BY <2>1, <2>2, <2>3, <2>4
<1>5. RoomFits'
  <2> SUFFICES ASSUME NEW p \in tail..(head + capacity - 1) PROVE Vacant(p)' \/ Vacating(p)'
    BY <1>1 DEF RoomFits
  <2>1. Vacant(p) \/ Vacating(p)
    BY DEF Slots, RoomFits
  <2>2. p \in head..(head + capacity - 1) /\ p # pos[t]
    BY <1>1, Bounds DEF Slots, Shape, PushersFit
  <2>3. DataAt(p)' = DataAt(p)
    BY <1>1, <1>2, <2>2, PushSlot
  <2> QED
    BY <1>1, <1>2, <2>1, <2>3 DEF Vacant, Vacating
<1>6. PushersFit'
  <2> SUFFICES ASSUME NEW u \in Owners, op[u] = "push"
               PROVE  /\ head <= pos[u] /\ pos[u] < tail
                      /\ SeqAt(pos[u]) = pos[u]
                      /\ pc'[u] = "access" => DataAt(pos[u])' = Raw
                      /\ pc'[u] = "publish" => DataAt(pos[u])' # Raw
    BY <1>1, <1>2 DEF PushersFit, DataAt, SeqAt
  <2>1. CASE u = t
    BY <1>1, <1>2, <2>1 DEF Slots, PushersFit
  <2>2. CASE u # t
    <3>1. DataAt(pos[u])' = DataAt(pos[u])
      BY <1>1, <1>2, <2>2, OwnSlot DEF DataAt
    <3> QED
      BY <1>1, <2>2, <3>1 DEF Slots, PushersFit
  <2> QED
    BY <2>1, <2>2
<1>7. PoppersFit'
  <2> SUFFICES ASSUME NEW u \in Owners, op[u] = "pop"
               PROVE  /\ tail <= pos[u] + capacity /\ pos[u] < head
                      /\ SeqAt(pos[u]) = pos[u] + 1
                      /\ pc'[u] = "access" => DataAt(pos[u])' # Raw
                      /\ pc'[u] = "publish" => DataAt(pos[u])' = Raw
    BY <1>1, <1>2 DEF PoppersFit, DataAt, SeqAt
  <2>1. u # t
    BY <1>1
  <2>2. DataAt(pos[u])' = DataAt(pos[u])
    BY <1>1, <1>2, <2>1, OwnSlot DEF DataAt
  <2> QED
    BY <1>1, <2>1, <2>2 DEF Slots, PoppersFit
<1> QED
  BY <1>3, <1>4, <1>5, <1>6, <1>7 DEF Slots

\* pop() moves the object out and destroys what is left.
LEMMA MoveOutSlots ==
  ASSUME TypeOK, NoStaleMap, Slots, Working, NEW t \in Threads, MoveOut(t)
  PROVE  Slots'
<1>1. /\ op[t] = "pop"
      /\ pc' = [pc EXCEPT ![t] = "publish"]
      /\ UNCHANGED <<seq, head, tail, capacity, op, pos>>
      /\ t \in Owners /\ Owners' = Owners
      /\ pc'[t] = "publish" /\ \A u \in Owners : u # t => pc'[u] = pc[u]
  BY DEF MoveOut, Goto, TypeOK, Owners, In
<1>2. /\ DataAt(pos[t])' = Raw
      /\ \A p : Cell(p, capacity) # Cell(pos[t], capacity) => DataAt(p)' = DataAt(p)
      /\ \A p : DataAt(p)' \in {DataAt(p), Raw}
      /\ \A p : SeqAt(p)' = SeqAt(p)
  BY <1>1, OwnSlot DEF MoveOut, DataAt, SeqAt, TypeOK
<1>3. Shape' /\ Distinct'
  BY <1>1 DEF Slots, Shape, Distinct
<1>4. WindowFits'
  <2> SUFFICES ASSUME NEW p \in head..(tail - 1) PROVE Filled(p)' \/ Filling(p)'
    BY <1>1 DEF WindowFits
  <2>1. Filled(p) \/ Filling(p)
    BY DEF Slots, WindowFits
  <2>2. CASE Filling(p)
    BY <1>1, <2>2 DEF Filling
  <2>3. CASE Filled(p)
    <3>1. p \in head..(head + capacity - 1) /\ p # pos[t] + capacity
      BY <1>1, Bounds DEF Slots, Shape, PoppersFit
    <3>2. DataAt(p)' = DataAt(p)
      BY <1>1, <1>2, <3>1, PopSlot
    <3> QED
      BY <1>2, <2>3, <3>2 DEF Filled
  <2> QED
    BY <2>1, <2>2, <2>3
<1>5. RoomFits'
  <2> SUFFICES ASSUME NEW p \in tail..(head + capacity - 1) PROVE Vacant(p)' \/ Vacating(p)'
    BY <1>1 DEF RoomFits
  <2>1. Vacant(p) \/ Vacating(p)
    BY DEF Slots, RoomFits
  <2> QED
    BY <1>1, <1>2, <2>1 DEF Vacant, Vacating
<1>6. PushersFit'
  <2> SUFFICES ASSUME NEW u \in Owners, op[u] = "push"
               PROVE  /\ head <= pos[u] /\ pos[u] < tail
                      /\ SeqAt(pos[u]) = pos[u]
                      /\ pc'[u] = "access" => DataAt(pos[u])' = Raw
                      /\ pc'[u] = "publish" => DataAt(pos[u])' # Raw
    BY <1>1, <1>2 DEF PushersFit, DataAt, SeqAt
  <2>1. u # t
    BY <1>1
  <2>2. DataAt(pos[u])' = DataAt(pos[u])
    BY <1>1, <1>2, <2>1, OwnSlot DEF DataAt
  <2> QED
    BY <1>1, <2>1, <2>2 DEF Slots, PushersFit
<1>7. PoppersFit'
  <2> SUFFICES ASSUME NEW u \in Owners, op[u] = "pop"
               PROVE  /\ tail <= pos[u] + capacity /\ pos[u] < head
                      /\ SeqAt(pos[u]) = pos[u] + 1
                      /\ pc'[u] = "access" => DataAt(pos[u])' # Raw
                      /\ pc'[u] = "publish" => DataAt(pos[u])' = Raw
    BY <1>1, <1>2 DEF PoppersFit, DataAt, SeqAt
  <2>1. CASE u = t
    BY <1>1, <1>2, <2>1 DEF Slots, PoppersFit
  <2>2. CASE u # t
    <3>1. DataAt(pos[u])' = DataAt(pos[u])
      BY <1>1, <1>2, <2>2, OwnSlot DEF DataAt
    <3> QED
      BY <1>1, <2>2, <3>1 DEF Slots, PoppersFit
  <2> QED
    BY <2>1, <2>2
<1> QED
  BY <1>3, <1>4, <1>5, <1>6, <1>7 DEF Slots

\* The store to sequence_ gives the slot away: to the pop of the same position, or to
\* the push of the next round.
LEMMA PublishSlots ==
  ASSUME TypeOK, NoStaleMap, Slots, Working, NEW t \in Threads, Publish(t)
  PROVE  Slots'
<1>1. /\ pc[t] = "publish" /\ op[t] \in {"push", "pop"}
      /\ pc' = [pc EXCEPT ![t] = "leave"]
      /\ UNCHANGED <<data, head, tail, capacity, op, pos>>
      /\ t \in Owners /\ Owners' = Owners \ {t}
      /\ \A u \in Owners : u # t => pc'[u] = pc[u]
  BY DEF Publish, Goto, TypeOK, Owners, In, locals, Working
<1>2. /\ SeqAt(pos[t])' = IF op[t] = "push" THEN pos[t] + 1 ELSE pos[t] + capacity
      /\ \A p : Cell(p, capacity) # Cell(pos[t], capacity) => SeqAt(p)' = SeqAt(p)
      /\ \A p : DataAt(p)' = DataAt(p)
  BY SMTT(30), <1>1, OwnSlot DEF Publish, DataAt, SeqAt, TypeOK
<1>3. Shape' /\ Distinct'
  BY <1>1 DEF Slots, Shape, Distinct
<1>4. WindowFits'
  <2> SUFFICES ASSUME NEW p \in head..(tail - 1) PROVE Filled(p)' \/ Filling(p)'
    BY <1>1 DEF WindowFits
  <2>1. Filled(p) \/ Filling(p)
    BY DEF Slots, WindowFits
  <2>2. p \in head..(head + capacity - 1)
    BY Bounds DEF Slots, Shape
  <2>3. CASE op[t] = "push" /\ p = pos[t]
    BY <1>1, <1>2, <2>3 DEF Filled, Slots, PushersFit
  <2>4. CASE op[t] = "push" /\ p # pos[t]
    <3>1. SeqAt(p)' = SeqAt(p)
      BY <1>1, <1>2, <2>2, <2>4, PushSlot
    <3> QED
      BY <1>1, <1>2, <2>1, <2>4, <3>1 DEF Filled, Filling
  <2>5. CASE op[t] = "pop"
    <3>1. p # pos[t] + capacity
      BY <1>1, <2>5, Bounds DEF Slots, PoppersFit
    <3>2. SeqAt(p)' = SeqAt(p)
      BY <1>1, <1>2, <2>2, <2>5, <3>1, PopSlot
    <3> QED
      BY <1>1, <1>2, <2>1, <2>5, <3>2 DEF Filled, Filling
  <2> QED
    BY <1>1, <2>3, <2>4, <2>5
<1>5. RoomFits'
  <2> SUFFICES ASSUME NEW p \in tail..(head + capacity - 1) PROVE Vacant(p)' \/ Vacating(p)'
    BY <1>1 DEF RoomFits
  <2>1. Vacant(p) \/ Vacating(p)
    BY DEF Slots, RoomFits
  <2>2. p \in head..(head + capacity - 1)
    BY Bounds DEF Slots, Shape
  <2>3. CASE op[t] = "push"
    <3>1. p # pos[t]
      BY <1>1, <2>3, Bounds DEF Slots, PushersFit
    <3>2. SeqAt(p)' = SeqAt(p)
      BY <1>1, <1>2, <2>2, <2>3, <3>1, PushSlot
    <3> QED
      BY <1>1, <1>2, <2>1, <2>3, <3>2 DEF Vacant, Vacating
  <2>4. CASE op[t] = "pop" /\ p = pos[t] + capacity
    <3>1. Cell(p, capacity) = Cell(pos[t], capacity)
      BY <1>1, <2>4, PopSlot
    <3>2. SeqAt(p)' = p /\ DataAt(p)' = Raw
      <4>1. SeqAt(p)' = SeqAt(pos[t])' /\ DataAt(p) = DataAt(pos[t])
        BY <1>1, <3>1 DEF SeqAt, DataAt
      <4> QED
        BY <1>1, <1>2, <2>4, <4>1 DEF Slots, PoppersFit
    <3> QED
      BY <3>2 DEF Vacant
  <2>5. CASE op[t] = "pop" /\ p # pos[t] + capacity
    <3>1. SeqAt(p)' = SeqAt(p)
      BY <1>1, <1>2, <2>2, <2>5, PopSlot
    <3>2. pos[t] # p - capacity
      BY <2>5, Bounds
    <3> QED
      BY <1>1, <1>2, <2>1, <3>1, <3>2 DEF Vacant, Vacating
  <2> QED
    BY <1>1, <2>3, <2>4, <2>5
<1>6. ASSUME NEW u \in Owners'
      PROVE  /\ u \in Owners /\ u # t
             /\ pc'[u] = pc[u]
             /\ SeqAt(pos[u])' = SeqAt(pos[u]) /\ DataAt(pos[u])' = DataAt(pos[u])
  <2>1. u \in Owners /\ u # t
    BY <1>1
  <2>2. Cell(pos[u], capacity) # Cell(pos[t], capacity)
    BY <1>1, <2>1, OwnSlot
  <2>3. SeqAt(pos[u])' = SeqAt(pos[u])
    BY <1>1, <1>2, <2>2 DEF SeqAt
  <2> QED
    BY <1>1, <2>1, <2>3 DEF DataAt
<1>7. PushersFit' /\ PoppersFit'
  BY <1>1, <1>6 DEF Slots, PushersFit, PoppersFit
<1> QED
  BY <1>3, <1>4, <1>5, <1>7 DEF Slots

\* A resize that fits finds each object of the window at its position in the new ring.
LEMMA MigrateSlots ==
  ASSUME IInv, Slots, NEW t \in Threads, Migrate(t), MigrationFits
  PROVE  Slots' /\ Claimable'
<1> DEFINE n == BitCeil(2 * capa[t])
<1>1. TypeOK /\ QuiescentResize /\ CapaLoaded
  BY DEF IInv
<1>2. n \in Nat \ {0} /\ n >= 2
  <2>1. capa[t] \in Nat /\ IsPowerOfTwo(capa[t])
    BY <1>1 DEF Migrate, CapaLoaded, In, TypeOK
  <2>2. n \in Nat \ {0} /\ n >= 2 * capa[t]
    BY <2>1, BitCeilOfDouble
  <2>3. capa[t] > 0
    BY <2>1 DEF IsPowerOfTwo
  <2> QED
    BY <2>1, <2>2, <2>3
<1>3. In(Critical) = {} /\ Owners = {} /\ Claimers = {}
  BY <1>1 DEF Migrate, QuiescentResize, In, Owners, Claimers, Critical
<1>4. Owners' = {} /\ Claimers' = {}
  BY <1>1, <1>3 DEF Migrate, Goto, Owners, Claimers, In, TypeOK
<1>5. /\ capacity' = n /\ UNCHANGED <<head, tail>>
      /\ \A i \in 0..(n - 1) : seq'[i] = NewSequence(i, n)
      /\ \A i \in 0..(n - 1) :
           data'[i] = IF Youngest(i, n) < head THEN Raw ELSE data[Youngest(i, n) % capacity]
  BY DEF Migrate
<1>6. tail - head <= n
  BY <1>5 DEF MigrationFits
<1> HIDE DEF n
<1>7. Shape'
  BY <1>1, <1>2, <1>5, <1>6, Bounds DEF Slots, Shape
<1>8. WindowFits'
  <2> SUFFICES ASSUME NEW p \in head..(tail - 1) PROVE Filled(p)'
    BY <1>5 DEF WindowFits
  <2>1. p \in Int /\ tail - n <= p /\ p < tail /\ head <= p
    BY <1>1, <1>2, <1>6, Bounds
  <2>2. Youngest(Cell(p, n), n) = p
    BY <1>1, <1>2, <2>1, YoungestOf, Bounds
  <2>3. Cell(p, n) \in 0..(n - 1)
    BY <1>2, <2>1, CellType
  <2>4. Filled(p)
    BY <1>3 DEF Slots, WindowFits, Filling
  <2>5. ~(p < head)
    BY <1>1, <2>1, Bounds
  <2>6. SeqAt(p)' = p + 1
    BY <1>5, <2>2, <2>3, <2>5 DEF SeqAt, NewSequence
  <2>7. DataAt(p)' = DataAt(p)
    BY <1>5, <2>2, <2>3, <2>5 DEF DataAt, Cell
  <2> QED
    BY <2>4, <2>6, <2>7 DEF Filled
<1>9. RoomFits'
  <2> SUFFICES ASSUME NEW p \in tail..(head + n - 1) PROVE Vacant(p)'
    BY <1>5 DEF RoomFits
  <2> DEFINE q == p - n
  <2>1. q \in Int /\ p = q + n /\ tail - n <= q /\ q < head /\ q < tail
    BY <1>1, <1>2, Bounds DEF Slots, Shape
  <2> HIDE DEF q
  <2>2. Cell(p, n) = Cell(q, n)
    BY <1>2, <2>1, NextCell
  <2>3. Youngest(Cell(q, n), n) = q
    BY <1>1, <1>2, <2>1, YoungestOf, Bounds
  <2>4. Cell(q, n) \in 0..(n - 1)
    BY <1>2, <2>1, CellType
  <2>5. SeqAt(p)' = Cell(p, n) /\ DataAt(p)' = Raw
    BY <1>5, <2>1, <2>2, <2>3, <2>4 DEF SeqAt, DataAt, NewSequence
  <2> QED
    BY <1>5, <2>5 DEF Vacant
<1>10. PushersFit' /\ PoppersFit' /\ Distinct' /\ Claimable'
  BY <1>4 DEF PushersFit, PoppersFit, Distinct, Claimable
<1> QED
  BY <1>7, <1>8, <1>9, <1>10 DEF Slots

\* A publication is at a slot no claim is waiting for.
LEMMA LoudClaimable ==
  ASSUME TypeOK, NoStaleMap, Slots, Claimable, Working, NEW t \in Threads,
         Claim(t) \/ Construct(t) \/ MoveOut(t) \/ Publish(t)
  PROVE  Claimable'
<1> USE DEF Claimable
<1>1. CASE Claim(t)
  <2>1. /\ Claimers' = Claimers \ {t}
        /\ UNCHANGED <<seq, capacity, op, pos>>
        /\ \A u \in Claimers : u # t => pc'[u] = pc[u]
        /\ \A p : SeqAt(p)' = SeqAt(p)
    BY <1>1 DEF Claim, Goto, TypeOK, Claimers, In, locals, SeqAt
  <2>2. CASE op[t] = "push"
    <3>1. tail' = tail + 1 /\ head' = head
      BY <1>1, <2>2 DEF Claim
    <3> QED
      BY <2>1, <3>1, Bounds
  <2>3. CASE op[t] = "pop"
    <3>1. head' = head + 1 /\ tail' = tail
      BY <1>1, <2>3 DEF Claim
    <3> QED
      BY <2>1, <3>1, Bounds
  <2> QED
    BY <1>1, <2>2, <2>3 DEF Claim
<1>2. CASE Construct(t)
  BY <1>2 DEF Construct, Goto, TypeOK, Claimers, In, locals, SeqAt
<1>3. CASE MoveOut(t)
  BY <1>3 DEF MoveOut, Goto, TypeOK, Claimers, In, SeqAt
<1>4. CASE Publish(t)
  <2>1. /\ Claimers' = Claimers /\ t \in Owners
        /\ UNCHANGED <<head, tail, capacity, op, pos>>
        /\ \A u \in Claimers : pc'[u] = pc[u]
    BY <1>4 DEF Publish, Goto, TypeOK, Claimers, Owners, In, locals
  <2>2. \A p : Cell(p, capacity) # Cell(pos[t], capacity) => SeqAt(p)' = SeqAt(p)
    BY SMTT(30), <1>4, <2>1, OwnSlot DEF Publish, SeqAt, TypeOK
  <2>3. SeqAt(tail) = tail => SeqAt(tail)' = tail
    BY <2>1, <2>2, UnownedForPush
  <2>4. SeqAt(head) = head + 1 => SeqAt(head)' = head + 1
    BY <2>1, <2>2, UnownedForPop
  <2> QED
    BY <2>1, <2>3, <2>4
<1> QED
  BY <1>1, <1>2, <1>3, <1>4

-----------------------------------------------------------------------------
(* The life of the queue.                                                  *)

\* Threads do not destroy the queue.
LEMMA AliveStep ==
  ASSUME NEW t \in Threads, Step(t)
  PROVE  alive' = alive
<1>1. CASE StartPush(t)
  BY <1>1 DEF StartPush, shared
<1>2. CASE StartPop(t)
  BY <1>2 DEF StartPop, shared
<1>3. CASE SizeTail(t)
  BY <1>3 DEF SizeTail, shared
<1>4. CASE Check(t)
  BY <1>4 DEF Check, shared, locals
<1>5. CASE Wait(t)
  BY <1>5 DEF Wait, shared, locals
<1>6. CASE Enter(t)
  BY <1>6 DEF Enter, locals
<1>7. CASE Recheck(t)
  BY <1>7 DEF Recheck, shared, locals
<1>8. CASE BackOff(t)
  BY <1>8 DEF BackOff, locals
<1>9. CASE Load(t)
  BY <1>9 DEF Load, shared
<1>10. CASE Inspect(t)
  BY <1>10 DEF Inspect, shared, locals
<1>11. CASE ClaimFails(t)
  BY <1>11 DEF ClaimFails, shared, locals
<1>12. CASE Leave(t)
  BY <1>12 DEF Leave, Forget
<1>13. CASE LeaveRetry(t)
  BY <1>13 DEF LeaveRetry
<1>14. CASE LeaveFull(t)
  BY <1>14 DEF LeaveFull
<1>15. CASE StartResize(t)
  BY <1>15 DEF StartResize
<1>16. CASE Quiesce(t)
  BY <1>16 DEF Quiesce, shared, locals
<1>17. CASE AllocFails(t)
  BY <1>17 DEF AllocFails, shared, Forget
<1>18. CASE Reopen(t)
  BY <1>18 DEF Reopen, locals
<1>19. CASE Notify(t)
  BY <1>19 DEF Notify, shared, locals
<1>20. CASE SizeHead(t)
  BY <1>20 DEF SizeHead, shared, Forget
<1>21. CASE Claim(t)
  BY <1>21 DEF Claim, locals
<1>22. CASE Construct(t)
  BY <1>22 DEF Construct, locals
<1>23. CASE MoveOut(t)
  BY <1>23 DEF MoveOut
<1>24. CASE Publish(t)
  BY <1>24 DEF Publish, locals
<1>25. CASE Migrate(t)
  BY <1>25 DEF Migrate
<1> QED
  BY <1>1, <1>2, <1>3, <1>4, <1>5, <1>6, <1>7, <1>8, <1>9, <1>10, <1>11, <1>12, <1>13,
     <1>14, <1>15, <1>16, <1>17, <1>18, <1>19, <1>20, <1>21, <1>22, <1>23, <1>24, <1>25
     DEF Step, Call, Attempt, Resize

\* Nobody uses a destroyed queue.
LEMMA DeadStep ==
  ASSUME ~alive, Gone, NEW t \in Threads, Step(t)
  PROVE  FALSE
<1> USE DEF Gone
<1>1. CASE StartPush(t)
  BY <1>1 DEF StartPush, shared
<1>2. CASE StartPop(t)
  BY <1>2 DEF StartPop, shared
<1>3. CASE SizeTail(t)
  BY <1>3 DEF SizeTail, shared
<1>4. CASE Check(t)
  BY <1>4 DEF Check, shared, locals
<1>5. CASE Wait(t)
  BY <1>5 DEF Wait, shared, locals
<1>6. CASE Enter(t)
  BY <1>6 DEF Enter, locals
<1>7. CASE Recheck(t)
  BY <1>7 DEF Recheck, shared, locals
<1>8. CASE BackOff(t)
  BY <1>8 DEF BackOff, locals
<1>9. CASE Load(t)
  BY <1>9 DEF Load, shared
<1>10. CASE Inspect(t)
  BY <1>10 DEF Inspect, shared, locals
<1>11. CASE ClaimFails(t)
  BY <1>11 DEF ClaimFails, shared, locals
<1>12. CASE Leave(t)
  BY <1>12 DEF Leave, Forget
<1>13. CASE LeaveRetry(t)
  BY <1>13 DEF LeaveRetry
<1>14. CASE LeaveFull(t)
  BY <1>14 DEF LeaveFull
<1>15. CASE StartResize(t)
  BY <1>15 DEF StartResize
<1>16. CASE Quiesce(t)
  BY <1>16 DEF Quiesce, shared, locals
<1>17. CASE AllocFails(t)
  BY <1>17 DEF AllocFails, shared, Forget
<1>18. CASE Reopen(t)
  BY <1>18 DEF Reopen, locals
<1>19. CASE Notify(t)
  BY <1>19 DEF Notify, shared, locals
<1>20. CASE SizeHead(t)
  BY <1>20 DEF SizeHead, shared, Forget
<1>21. CASE Claim(t)
  BY <1>21 DEF Claim, locals
<1>22. CASE Construct(t)
  BY <1>22 DEF Construct, locals
<1>23. CASE MoveOut(t)
  BY <1>23 DEF MoveOut
<1>24. CASE Publish(t)
  BY <1>24 DEF Publish, locals
<1>25. CASE Migrate(t)
  BY <1>25 DEF Migrate
<1> QED
  BY <1>1, <1>2, <1>3, <1>4, <1>5, <1>6, <1>7, <1>8, <1>9, <1>10, <1>11, <1>12, <1>13,
     <1>14, <1>15, <1>16, <1>17, <1>18, <1>19, <1>20, <1>21, <1>22, <1>23, <1>24, <1>25
     DEF Step, Call, Attempt, Resize

\* A step of FittingNext other than a migration is not one.
LEMMA FittingStep ==
  ASSUME TypeOK, NEW t \in Threads,
         \/ Call(t) \/ Attempt(t) \/ ClaimFails(t) \/ SizeHead(t)
         \/ StartResize(t) \/ Quiesce(t) \/ AllocFails(t) \/ Reopen(t) \/ Notify(t)
         \/ Migrate(t) /\ MigrationFits
  PROVE  Step(t) /\ (Migrate(t) => MigrationFits)
<1>1. Step(t)
  BY DEF Step, Resize
<1> SUFFICES ASSUME Migrate(t), ~MigrationFits PROVE FALSE
  BY <1>1
<1>2. pc[t] = "migrate" /\ pc'[t] = "reopen"
  BY DEF Migrate, Goto, TypeOK
<1>3. ~Call(t)
  BY <1>2 DEF Call, StartPush, StartPop, SizeTail
<1>4. ~Attempt(t)
  BY <1>2 DEF Attempt, Check, Wait, Enter, Recheck, BackOff, Load, Inspect, Claim,
              Construct, MoveOut, Publish, Leave, LeaveRetry, LeaveFull
<1>5. /\ ~ClaimFails(t) /\ ~SizeHead(t) /\ ~StartResize(t)
      /\ ~Quiesce(t) /\ ~Reopen(t) /\ ~Notify(t)
  BY <1>2 DEF ClaimFails, SizeHead, StartResize, Quiesce, Reopen, Notify
<1>6. ~AllocFails(t)
  BY <1>2 DEF AllocFails, Goto, TypeOK
<1> QED
  BY <1>3, <1>4, <1>5, <1>6

\* The destructor finds every object: none lies outside the window, and nobody is
\* moving one out.
LEMMA DestroyAll ==
  ASSUME TypeOK, Slots, Destroy
  PROVE  Gone'
<1>1. /\ \A t \in Threads : pc'[t] = "idle"
      /\ Owners = {}
      /\ data' = [i \in DOMAIN data |-> IF Landing(i, capacity) = {} THEN data[i] ELSE Raw]
  BY DEF Destroy, Owners, In
<1>2. ASSUME NEW i \in DOMAIN data, Landing(i, capacity) = {}
      PROVE  data[i] = Raw
  <2>1. i \in 0..(capacity - 1)
    BY <1>2 DEF TypeOK
  <2>0. capacity \in Nat \ {0} /\ head \in Int
    BY Bounds
  <2>2. PICK p \in head..(head + capacity - 1) : Cell(p, capacity) = i
    BY <2>0, <2>1, EveryCell
  <2>3. p \notin head..(tail - 1)
    BY <1>2, <2>2 DEF Landing, Window, Cell
  <2>4. p \in tail..(head + capacity - 1)
    BY <2>3, Bounds
  <2>5. Vacant(p)
    BY <1>1, <2>4 DEF Slots, RoomFits, Vacating
  <2> QED
    BY <2>2, <2>5 DEF Vacant, DataAt
<1>3. \A i \in DOMAIN data' : data'[i] = Raw
  BY <1>1, <1>2
<1> QED
  BY <1>1, <1>3 DEF Gone

\* A new ring is vacant.
LEMMA RInvInit ==
  ASSUME InitialCapa >= 2
  PROVE  Init => RInv
<1> SUFFICES ASSUME Init PROVE RInv
  OBVIOUS
<1>1. TypeOK
  BY IInvInit DEF IInv
<1>2. Owners = {} /\ Claimers = {} /\ At("size_head") = {}
  BY DEF Init, Owners, Claimers, In, At
<1>3. alive /\ head = 0 /\ tail = 0 /\ capacity >= 2
  BY CapaAssumption, BitCeilIs DEF Init
<1>4. RoomFits
  <2> SUFFICES ASSUME NEW p \in 0..(capacity - 1) PROVE Vacant(p)
    BY <1>1, <1>3, Bounds DEF RoomFits
  <2>1. Cell(p, capacity) \in 0..(capacity - 1)
    BY <1>1, Bounds
  <2> QED
    BY <2>1 DEF Init, Vacant, SeqAt, DataAt
<1>5. Shape /\ WindowFits
  BY <1>1, <1>3, Bounds DEF Shape, WindowFits
<1>6. PushersFit /\ PoppersFit /\ Distinct /\ Claimable /\ SizesSeen
  BY <1>2 DEF PushersFit, PoppersFit, Distinct, Claimable, SizesSeen
<1>7. Working
  BY DEF Init, Working
<1> QED
  BY <1>3, <1>4, <1>5, <1>6, <1>7 DEF RInv, Ring, Slots

\* RInv is inductive relative to IInv.
LEMMA RInvNext == IInv /\ RInv /\ [FittingNext]_vars => RInv'
<1> SUFFICES ASSUME IInv, RInv, [FittingNext]_vars PROVE RInv'
  OBVIOUS
<1>1. TypeOK /\ NoStaleMap
  BY DEF IInv
<1>2. ASSUME NEW t \in Threads, Step(t), Migrate(t) => MigrationFits
      PROVE  RInv'
  <2>1. alive /\ alive' /\ Ring
    BY <1>2, DeadStep, AliveStep DEF RInv
  <2>2. Working' /\ SizesSeen'
    BY <1>1, <1>2, <2>1, WorkingStep, SizesStep DEF Ring
  <2>3. Slots' /\ Claimable'
    <3>1. CASE Claim(t)
      BY <1>1, <2>1, <3>1, ClaimSlots, LoudClaimable DEF Ring
    <3>2. CASE Construct(t)
      BY <1>1, <2>1, <3>2, ConstructSlots, LoudClaimable DEF Ring
    <3>3. CASE MoveOut(t)
      BY <1>1, <2>1, <3>3, MoveOutSlots, LoudClaimable DEF Ring
    <3>4. CASE Publish(t)
      BY <1>1, <2>1, <3>4, PublishSlots, LoudClaimable DEF Ring
    <3>5. CASE Migrate(t)
      BY <1>2, <2>1, <3>5, MigrateSlots DEF Ring
    <3>6. CASE ~Claim(t) /\ ~Construct(t) /\ ~MoveOut(t) /\ ~Publish(t) /\ ~Migrate(t)
      BY <1>1, <1>2, <2>1, <3>6, QuietSlots, QuietClaimable DEF Ring
    <3> QED
      BY <3>1, <3>2, <3>3, <3>4, <3>5, <3>6
  <2> QED
    BY <2>1, <2>2, <2>3 DEF RInv, Ring
<1>3. CASE Destroy
  <2>1. alive /\ Ring /\ ~alive'
    BY <1>3 DEF RInv, Destroy
  <2> QED
    BY <1>1, <1>3, <2>1, DestroyAll DEF RInv, Ring
<1>4. CASE UNCHANGED vars
  <2>1. UNCHANGED <<seq, data, head, tail, capacity, pc, op, pos, item, alive>>
    BY <1>4 DEF vars, shared, locals
  <2>2. Owners' = Owners /\ Claimers' = Claimers /\ At("size_head")' = At("size_head")
    BY <2>1 DEF Owners, Claimers, In, At
  <2>3. /\ Shape' = Shape /\ WindowFits' = WindowFits /\ RoomFits' = RoomFits
        /\ PushersFit' = PushersFit /\ PoppersFit' = PoppersFit /\ Distinct' = Distinct
    BY <2>1, <2>2 DEF Shape, WindowFits, RoomFits, PushersFit, PoppersFit, Distinct,
                      Filled, Filling, Vacant, Vacating, SeqAt, DataAt
  <2>4. /\ Claimable' = Claimable /\ Working' = Working
        /\ SizesSeen' = SizesSeen /\ Gone' = Gone
    BY <2>1, <2>2 DEF Claimable, Working, SizesSeen, Gone, SeqAt
  <2> QED
    BY <2>1, <2>3, <2>4 DEF RInv, Ring, Slots
<1>5. ASSUME NEW t \in Threads,
             \/ Call(t) \/ Attempt(t) \/ ClaimFails(t) \/ SizeHead(t)
             \/ StartResize(t) \/ Quiesce(t) \/ AllocFails(t) \/ Reopen(t) \/ Notify(t)
             \/ Migrate(t) /\ MigrationFits
      PROVE  RInv'
  BY <1>1, <1>2, <1>5, FittingStep
<1> QED
  BY <1>3, <1>4, <1>5 DEF FittingNext, Destroyed

\* FittingSpec restricts Spec.
LEMMA FittingIsNext == FittingNext => Next
BY DEF FittingNext, Next, Resize

-----------------------------------------------------------------------------

\* The inductive invariants hold in every state of a ring of two slots or more.
THEOREM RingInductive ==
  ASSUME InitialCapa >= 2
  PROVE  FittingSpec => [](IInv /\ RInv)
<1>1. Init => IInv /\ RInv
  BY IInvInit, RInvInit
<1>2. IInv /\ RInv /\ [FittingNext]_vars => (IInv /\ RInv)'
  BY IInvNext, RInvNext, FittingIsNext
<1> QED
  BY <1>1, <1>2, PTL DEF FittingSpec

\* Between claim and publication a thread has its slot for itself.
THEOREM SlotsAreOwned ==
  ASSUME InitialCapa >= 2
  PROVE  FittingSpec => []SlotOwnership
<1>1. IInv /\ RInv => SlotOwnership
  <2> SUFFICES ASSUME IInv, RInv PROVE SlotOwnership
    OBVIOUS
  <2>1. CASE ~alive
    BY <2>1 DEF RInv, Gone, SlotOwnership, PushFindsEmptySlot, At, In
  <2>2. CASE alive
    <3>1. Ring /\ TypeOK /\ NoStaleMap
      BY <2>2 DEF RInv, IInv
    <3>2. \A t \in Owners : Slot(t) = Cell(pos[t], capacity)
      BY <3>1, OwnSlot DEF Ring
    <3>3. At("access") \subseteq Owners /\ In({"access", "publish"}) = Owners
      BY DEF At, Owners, In
    <3>4. PushFindsEmptySlot
      BY <3>1, <3>2, <3>3 DEF PushFindsEmptySlot, Ring, Slots, PushersFit, DataAt, At
    <3>5. \A t \in At("access") : op[t] = "pop" => data[Slot(t)] # Raw
      BY <3>1, <3>2, <3>3 DEF Ring, Slots, PoppersFit, DataAt, At
    <3>6. \A t, u \in In({"access", "publish"}) : Slot(t) = Slot(u) => t = u
      BY <3>1, <3>2, <3>3 DEF Ring, Slots, Distinct
    <3> QED
      BY <3>4, <3>5, <3>6 DEF SlotOwnership
  <2> QED
    BY <2>1, <2>2
<1> QED
  BY <1>1, RingInductive, PTL

\* The ring holds the items of its window and nothing else.
THEOREM WindowIsHeld ==
  ASSUME InitialCapa >= 2
  PROVE  FittingSpec => []WindowHoldsItems
<1>1. IInv /\ RInv => WindowHoldsItems
  <2> SUFFICES ASSUME IInv, RInv, alive
               PROVE  /\ tail - head \in 0..capacity
                      /\ \A p \in Window :
                           \/ Cardinality(Pushing(p)) = 1
                           \/ data[p % capacity] # Raw /\ seq[p % capacity] = p + 1
                      /\ \A i \in 0..(capacity - 1) :
                           data[i] # Raw => Landing(i, capacity) # {} \/ Popping(i) # {}
    BY DEF WindowHoldsItems
  <2>1. Ring /\ Slots /\ TypeOK /\ NoStaleMap
    BY DEF RInv, IInv, Ring
  <2>2. tail - head \in 0..capacity
    BY <2>1, Bounds DEF Slots, Shape
  <2>3. ASSUME NEW p \in Window
        PROVE  \/ Cardinality(Pushing(p)) = 1
               \/ data[p % capacity] # Raw /\ seq[p % capacity] = p + 1
    <3>1. Filled(p) \/ Filling(p)
      BY <2>1, <2>3 DEF Slots, WindowFits, Window
    <3>2. CASE Filled(p)
      BY <3>2 DEF Filled, SeqAt, DataAt, Cell
    <3>3. CASE Filling(p)
      <4>1. PICK t \in Owners : op[t] = "push" /\ pos[t] = p
        BY <3>3 DEF Filling
      <4>2. Pushing(p) = {t}
        BY <2>1, <4>1 DEF Pushing, Owners, Slots, Distinct
      <4> QED
        BY <4>2, FS_Singleton
    <3> QED
      BY <3>1, <3>2, <3>3
  <2>4. ASSUME NEW i \in 0..(capacity - 1), data[i] # Raw, Landing(i, capacity) = {}
        PROVE  Popping(i) # {}
    <3>0. capacity \in Nat \ {0} /\ head \in Int
      BY <2>1, Bounds
    <3>1. PICK p \in head..(head + capacity - 1) : Cell(p, capacity) = i
      BY <3>0, <2>4, EveryCell
    <3>2. p \notin head..(tail - 1)
      BY <2>4, <3>1 DEF Landing, Window, Cell
    <3>3. p \in tail..(head + capacity - 1)
      BY <2>1, <3>2, Bounds
    <3>4. Vacating(p)
      BY <2>1, <2>4, <3>1, <3>3 DEF Slots, RoomFits, Vacant, DataAt
    <3>5. PICK t \in Owners : op[t] = "pop" /\ pos[t] = p - capacity
      BY <3>4 DEF Vacating
    <3>6. pos[t] \in Int /\ pos[t] + capacity = p
      BY <2>1, <3>1, <3>5, Bounds
    <3>7. Cell(pos[t], capacity) = i
      BY <2>1, <3>1, <3>6, NextCell, Bounds
    <3>8. DataAt(pos[t]) # Raw
      BY <2>4, <3>7 DEF DataAt
    <3>9. pc[t] = "access"
      BY <2>1, <3>5, <3>8 DEF Slots, PoppersFit, Owners, In
    <3>10. Slot(t) = i
      BY <2>1, <3>7, OwnSlot
    <3> QED
      BY <3>5, <3>9, <3>10 DEF Popping, At, Owners, In
  <2> QED
    BY <2>2, <2>3, <2>4
<1> QED
  BY <1>1, RingInductive, PTL

\* The destructor leaves no object alive.
THEOREM NothingLeft ==
  ASSUME InitialCapa >= 2
  PROVE  FittingSpec => []NothingLeaks
<1>1. RInv => NothingLeaks
  BY DEF RInv, Gone, NothingLeaks
<1> QED
  BY <1>1, RingInductive, PTL

\* size() never answers more than the queue holds when it loads head_pos_.
THEOREM SizeIsBounded ==
  ASSUME InitialCapa >= 2
  PROVE  FittingSpec => []SizeIsNoOverestimate
<1>1. IInv /\ RInv => SizeIsNoOverestimate
  <2> SUFFICES ASSUME IInv, RInv, NEW t \in At("size_head")
               PROVE  SizeAnswer(t) <= tail - head
    BY DEF SizeIsNoOverestimate
  <2>1. alive
    BY DEF RInv, Gone, At
  <2>2. pos[t] <= tail /\ head <= tail
    BY <2>1 DEF RInv, Ring, Slots, Shape, SizesSeen
  <2>3. pos[t] \in Nat /\ head \in Nat /\ tail \in Nat
    BY DEF IInv, TypeOK, At
  <2> QED
    BY <2>2, <2>3 DEF SizeAnswer
<1> QED
  BY <1>1, RingInductive, PTL

-----------------------------------------------------------------------------
(* Sequences given as functions.                                           *)

\* A function on 1..n is a sequence of length n.
LEMMA FunctionIsSeq ==
  ASSUME NEW n \in Nat, NEW S, NEW s \in [1..n -> S]
  PROVE  s \in Seq(S) /\ Len(s) = n
<1>1. s \in Seq(S)
  BY SeqDef
<1>2. DOMAIN s = 1..Len(s) /\ Len(s) \in Nat /\ DOMAIN s = 1..n
  BY <1>1, LenProperties
<1>3. Len(s) = n
  BY <1>2
<1> QED
  BY <1>1, <1>3

\* A sequence with one more element at its end.
LEMMA AppendIs ==
  ASSUME NEW n \in Nat, NEW S, NEW s \in [1..n -> S], NEW r \in [1..(n + 1) -> S],
         \A k \in 1..n : r[k] = s[k]
  PROVE  r = Append(s, r[n + 1])
<1>1. s \in Seq(S) /\ Len(s) = n
  BY FunctionIsSeq
<1>2. r \in Seq(S) /\ Len(r) = n + 1
  <2>1. n + 1 \in Nat
    OBVIOUS
  <2> QED
    BY <2>1, FunctionIsSeq
<1>3. r[n + 1] \in S
  OBVIOUS
<1> DEFINE a == Append(s, r[n + 1])
<1>4. a \in Seq(S) /\ Len(a) = n + 1 /\ (\A i \in 1..n : a[i] = s[i]) /\ a[n + 1] = r[n + 1]
  BY <1>1, <1>3, AppendProperties
<1> HIDE DEF a
<1>5. \A i \in 1..(n + 1) : r[i] = a[i]
  BY <1>4
<1>6. r = a
  BY <1>2, <1>4, <1>5, SeqEqual
<1> QED
  BY <1>6 DEF a

\* A sequence without its first element.
LEMMA TailIs ==
  ASSUME NEW n \in Nat \ {0}, NEW S, NEW s \in [1..n -> S], NEW r \in [1..(n - 1) -> S],
         \A k \in 1..(n - 1) : r[k] = s[k + 1]
  PROVE  s # << >> /\ Head(s) = s[1] /\ Tail(s) = r
<1>1. s \in Seq(S) /\ Len(s) = n
  BY FunctionIsSeq
<1>2. r \in Seq(S) /\ Len(r) = n - 1
  <2>1. n - 1 \in Nat
    OBVIOUS
  <2> QED
    BY <2>1, FunctionIsSeq
<1>3. s # << >>
  BY <1>1, EmptySeq
<1>4. Tail(s) \in Seq(S) /\ Len(Tail(s)) = n - 1 /\ \A i \in 1..(n - 1) : Tail(s)[i] =
s[i + 1]
  BY <1>1, <1>3, HeadTailProperties
<1>5. Tail(s) = r
  BY <1>2, <1>4, SeqEqual
<1>6. Head(s) = s[1]
  BY <1>1
<1> QED
  BY <1>3, <1>5, <1>6

-----------------------------------------------------------------------------
(* What RInv does not say: items differ, and a pop that was overtaken can tell. *)

\* Pushes that still have their item in hand.
Carrying == {t \in Threads : op[t] = "push" /\ pc[t] \notin {"publish", "leave"}}

\* No item is in two slots, in two hands, or in a slot and a hand.
ItemsDiffer ==
  /\ \A t \in Carrying : item[t] \in 1..pushes
  /\ \A t, u \in Carrying : item[t] = item[u] => t = u
  /\ \A i \in DOMAIN data : data[i] # Raw =>
       data[i] <= pushes /\ \A t \in Carrying : data[i] # item[t]
  /\ \A i, j \in DOMAIN data : data[i] # Raw /\ data[i] = data[j] => i = j

\* The slot of a position that was popped never looks unfilled to whoever loaded
\* that position: its sequence has moved past it.
Passed ==
  \A t \in Claimers : op[t] = "pop" /\ pos[t] < head => SeqAt(pos[t]) > pos[t]

FInv == ItemsDiffer /\ Passed

\* A new queue holds no items.
LEMMA FInvInit == Init => FInv
BY DEF Init, FInv, ItemsDiffer, Passed, Carrying, Claimers, In

-----------------------------------------------------------------------------
(* ItemsDiffer.                                                            *)

\* But for Construct, hands only lose items, or get a new one.
LEMMA HandsStep ==
  ASSUME TypeOK, Working, NEW t \in Threads, Step(t)
  PROVE  \/ /\ Carrying' \subseteq Carrying
            /\ \A u \in Carrying' : item'[u] = item[u]
            /\ pushes' = pushes
         \/ /\ Carrying' = Carrying \cup {t}
            /\ item'[t] = pushes + 1 /\ pushes' = pushes + 1
            /\ \A u \in Carrying : u # t => item'[u] = item[u]
<1> USE DEF TypeOK, Goto, Carrying
<1>1. CASE StartPush(t)
  BY <1>1 DEF StartPush, shared
<1>2. CASE StartPop(t)
  BY <1>2 DEF StartPop, shared
<1>3. CASE SizeTail(t)
  BY <1>3 DEF SizeTail, shared
<1>4. CASE Check(t)
  BY <1>4 DEF Check, shared, locals
<1>5. CASE Wait(t)
  BY <1>5 DEF Wait, shared, locals
<1>6. CASE Enter(t)
  BY <1>6 DEF Enter, locals
<1>7. CASE Recheck(t)
  BY <1>7 DEF Recheck, shared, locals
<1>8. CASE BackOff(t)
  BY <1>8 DEF BackOff, locals
<1>9. CASE Load(t)
  BY <1>9 DEF Load, shared
<1>10. CASE Inspect(t)
  BY <1>10 DEF Inspect, shared, locals
<1>11. CASE ClaimFails(t)
  BY <1>11 DEF ClaimFails, shared, locals
<1>12. CASE Leave(t)
  BY <1>12 DEF Leave, Forget
<1>13. CASE LeaveRetry(t)
  BY <1>13 DEF LeaveRetry
<1>14. CASE LeaveFull(t)
  BY <1>14 DEF LeaveFull
<1>15. CASE StartResize(t)
  BY <1>15 DEF StartResize
<1>16. CASE Quiesce(t)
  BY <1>16 DEF Quiesce, shared, locals
<1>17. CASE AllocFails(t)
  BY <1>17 DEF AllocFails, shared, Forget
<1>18. CASE Reopen(t)
  BY <1>18 DEF Reopen, locals
<1>19. CASE Notify(t)
  BY <1>19 DEF Notify, shared, locals
<1>20. CASE SizeHead(t)
  BY <1>20 DEF SizeHead, shared, Forget
<1>21. CASE Claim(t)
  BY <1>21 DEF Claim, locals
<1>22. CASE Construct(t)
  BY <1>22 DEF Construct, locals
<1>23. CASE MoveOut(t)
  BY <1>23 DEF MoveOut
<1>24. CASE Publish(t)
  BY <1>24 DEF Publish, locals
<1>25. CASE Migrate(t)
  BY <1>25 DEF Migrate
<1> QED
  BY <1>1, <1>2, <1>3, <1>4, <1>5, <1>6, <1>7, <1>8, <1>9, <1>10, <1>11, <1>12, <1>13,
     <1>14, <1>15, <1>16, <1>17, <1>18, <1>19, <1>20, <1>21, <1>22, <1>23, <1>24, <1>25
     DEF Step, Call, Attempt, Resize

\* Construct moves an item from a hand to a slot, MoveOut takes it out, and a migration
\* puts the objects of different positions into different slots.
LEMMA ItemsStep ==
  ASSUME IInv, Ring, ItemsDiffer, NEW t \in Threads, Step(t), Migrate(t) => MigrationFits
  PROVE  ItemsDiffer'
<1>1. TypeOK /\ NoStaleMap /\ Slots /\ Working /\ Claimable
  BY DEF IInv, Ring
<1>2. ASSUME data' = data
      PROVE  ItemsDiffer'
  <2>1. CASE /\ Carrying' \subseteq Carrying
             /\ \A u \in Carrying' : item'[u] = item[u]
             /\ pushes' = pushes
    BY <1>2, <2>1 DEF ItemsDiffer
  <2>2. CASE /\ Carrying' = Carrying \cup {t}
             /\ item'[t] = pushes + 1 /\ pushes' = pushes + 1
             /\ \A u \in Carrying : u # t => item'[u] = item[u]
    <3>1. pushes \in Nat /\ \A i \in DOMAIN data : data[i] \in Nat
      BY <1>1, BoundAssumption DEF TypeOK, Items, Raw
    <3> QED
      BY <1>2, <2>2, <3>1 DEF ItemsDiffer
  <2> QED
    BY <1>1, <2>1, <2>2, HandsStep
<1>3. CASE ~Construct(t) /\ ~MoveOut(t) /\ ~Migrate(t)
  <2>1. CASE Claim(t)
    BY <1>2, <2>1 DEF Claim
  <2>2. CASE Publish(t)
    BY <1>2, <2>2 DEF Publish
  <2>3. CASE ~Claim(t) /\ ~Publish(t)
    BY <1>1, <1>2, <1>3, <2>3, QuietStep
  <2> QED
    BY <2>1, <2>2, <2>3
<1>4. CASE Construct(t)
  <2>1. t \in Carrying /\ t \in Owners /\ pc[t] = "access" /\ op[t] = "push"
    BY <1>4 DEF Construct, Carrying, Owners, In
  <2>2. /\ Carrying' = Carrying \ {t} /\ UNCHANGED <<item, pushes>>
        /\ data' = [data EXCEPT ![Slot(t)] = item[t]]
    BY <1>1, <1>4 DEF Construct, Carrying, Goto, TypeOK, locals
  <2>3. Slot(t) \in DOMAIN data
    BY <1>1, <2>1, OwnSlot
  <2> QED
    BY <2>1, <2>2, <2>3 DEF ItemsDiffer
<1>5. CASE MoveOut(t)
  <2>1. /\ Carrying' = Carrying /\ pushes' = pushes
        /\ \A u \in Carrying : item'[u] = item[u]
        /\ DOMAIN data' = DOMAIN data
        /\ \A i \in DOMAIN data : data'[i] \in {data[i], Raw}
    BY <1>1, <1>5 DEF MoveOut, Carrying, Goto, TypeOK
  <2> QED
    BY <2>1 DEF ItemsDiffer
<1>6. CASE Migrate(t)
  <2> DEFINE n == BitCeil(2 * capa[t])
  <2>1. Carrying' = Carrying /\ UNCHANGED <<item, pushes, head, tail>> /\ capacity' = n
    BY <1>1, <1>6 DEF Migrate, Carrying, Goto, TypeOK
  <2>2. /\ DOMAIN data' = 0..(n - 1)
        /\ \A i \in 0..(n - 1) : data'[i] # Raw =>
              /\ ~(Youngest(i, n) < head)
              /\ data'[i] = DataAt(Youngest(i, n))
    BY <1>6 DEF Migrate, DataAt, Cell
  <2>3. n \in Nat \ {0}
    BY <1>1, <1>6, BitCeilOfDouble DEF Migrate, IInv, CapaLoaded, In, TypeOK
  <2> HIDE DEF n
  <2>4. \A i \in 0..(n - 1) :
           /\ Youngest(i, n) \in Int /\ Youngest(i, n) < tail
           /\ Cell(Youngest(i, n), n) = i
           /\ Cell(Youngest(i, n), capacity) \in DOMAIN data
    BY <1>1, <2>3, YoungestIs, Bounds DEF TypeOK
  <2>5. ASSUME NEW i \in 0..(n - 1), NEW j \in 0..(n - 1),
               data'[i] # Raw, data'[i] = data'[j]
        PROVE  i = j
    <3> DEFINE p == Youngest(i, n)
               q == Youngest(j, n)
    <3>1. /\ p \in Int /\ p < tail /\ head <= p /\ Cell(p, n) = i
          /\ q \in Int /\ q < tail /\ head <= q /\ Cell(q, n) = j
          /\ Cell(p, capacity) \in DOMAIN data /\ Cell(q, capacity) \in DOMAIN data
          /\ DataAt(p) # Raw /\ DataAt(p) = DataAt(q)
      <4>1. data'[j] # Raw /\ head \in Int
        BY <1>1, <2>5, Bounds
      <4>2. ~(p < head) /\ ~(q < head) /\ data'[i] = DataAt(p) /\ data'[j] = DataAt(q)
        BY <2>2, <2>5, <4>1
      <4>3. /\ p \in Int /\ p < tail /\ Cell(p, n) = i /\ Cell(p, capacity) \in DOMAIN data
            /\ q \in Int /\ q < tail /\ Cell(q, n) = j /\ Cell(q, capacity) \in DOMAIN data
        BY <2>4
      <4>4. DataAt(p) # Raw /\ DataAt(p) = DataAt(q)
        BY <2>5, <4>2
      <4> HIDE DEF p, q
      <4>5. head <= p /\ head <= q
        BY <4>1, <4>2, <4>3
      <4> QED
        BY <4>3, <4>4, <4>5
    <3> HIDE DEF p, q
    <3>2. Cell(p, capacity) = Cell(q, capacity)
      BY <3>1 DEF DataAt, ItemsDiffer
    <3>3. tail <= head + capacity /\ capacity \in Nat \ {0} /\ head \in Nat /\ tail \in Nat
      BY <1>1, Bounds DEF Slots, Shape
    <3>4. ~(p < q) /\ ~(q < p)
      BY <3>1, <3>2, <3>3, SameCell
    <3> QED
      BY <3>1, <3>4
  <2>6. ASSUME NEW i \in 0..(n - 1), data'[i] # Raw
        PROVE  data'[i] <= pushes /\ \A u \in Carrying : data'[i] # item[u]
    BY <2>2, <2>4, <2>6 DEF ItemsDiffer, DataAt
  <2> QED
    BY <2>1, <2>2, <2>5, <2>6 DEF ItemsDiffer
<1> QED
  BY <1>3, <1>4, <1>5, <1>6

-----------------------------------------------------------------------------
(* Passed.                                                                 *)

\* A thread loads the current head_pos_; what it loaded before stays as it was.
LEMMA QuietPassed ==
  ASSUME TypeOK, Passed, NEW t \in Threads, Step(t), ~Claim(t), ~Construct(t),
         ~MoveOut(t), ~Publish(t), ~Migrate(t)
  PROVE  Passed'
<1>0. /\ UNCHANGED <<seq, head, tail, capacity>>
      /\ \A p : SeqAt(p)' = SeqAt(p)
  BY QuietStep DEF SeqAt
<1> USE DEF TypeOK, Passed, Claimers, In, Goto
<1>1. CASE StartPush(t)
  BY <1>1, <1>0 DEF StartPush, shared
<1>2. CASE StartPop(t)
  BY <1>2, <1>0 DEF StartPop, shared
<1>3. CASE SizeTail(t)
  BY <1>3, <1>0 DEF SizeTail, shared
<1>4. CASE Check(t)
  BY <1>4, <1>0 DEF Check, shared, locals
<1>5. CASE Wait(t)
  BY <1>5, <1>0 DEF Wait, shared, locals
<1>6. CASE Enter(t)
  BY <1>6, <1>0 DEF Enter, locals
<1>7. CASE Recheck(t)
  BY <1>7, <1>0 DEF Recheck, shared, locals
<1>8. CASE BackOff(t)
  BY <1>8, <1>0 DEF BackOff, locals
<1>9. CASE Load(t)
  BY <1>9, <1>0 DEF Load, shared
<1>10. CASE Inspect(t)
  BY <1>10, <1>0 DEF Inspect, shared, locals
<1>11. CASE ClaimFails(t)
  BY <1>11, <1>0 DEF ClaimFails, shared, locals
<1>12. CASE Leave(t)
  BY <1>12, <1>0 DEF Leave, Forget
<1>13. CASE LeaveRetry(t)
  BY <1>13, <1>0 DEF LeaveRetry
<1>14. CASE LeaveFull(t)
  BY <1>14, <1>0 DEF LeaveFull
<1>15. CASE StartResize(t)
  BY <1>15, <1>0 DEF StartResize
<1>16. CASE Quiesce(t)
  BY <1>16, <1>0 DEF Quiesce, shared, locals
<1>17. CASE AllocFails(t)
  BY <1>17, <1>0 DEF AllocFails, shared, Forget
<1>18. CASE Reopen(t)
  BY <1>18, <1>0 DEF Reopen, locals
<1>19. CASE Notify(t)
  BY <1>19, <1>0 DEF Notify, shared, locals
<1>20. CASE SizeHead(t)
  BY <1>20, <1>0 DEF SizeHead, shared, Forget
<1>21. CASE Claim(t)
  BY <1>21
<1>22. CASE Construct(t)
  BY <1>22
<1>23. CASE MoveOut(t)
  BY <1>23
<1>24. CASE Publish(t)
  BY <1>24
<1>25. CASE Migrate(t)
  BY <1>25
<1> QED
  BY <1>1, <1>2, <1>3, <1>4, <1>5, <1>6, <1>7, <1>8, <1>9, <1>10, <1>11, <1>12, <1>13,
     <1>14, <1>15, <1>16, <1>17, <1>18, <1>19, <1>20, <1>21, <1>22, <1>23, <1>24, <1>25
     DEF Step, Call, Attempt, Resize

\* A pop that claims finds its slot published, and sequences only grow.
LEMMA PassedStep ==
  ASSUME IInv, Ring, Passed, NEW t \in Threads, Step(t)
  PROVE  Passed'
<1>1. TypeOK /\ NoStaleMap /\ Slots /\ Working /\ Claimable /\ QuiescentResize
  BY DEF IInv, Ring
<1>2. CASE Claim(t)
  <2>1. /\ Claimers' = Claimers \ {t} /\ t \in Claimers
        /\ UNCHANGED <<seq, capacity, op, pos>>
        /\ \A p : SeqAt(p)' = SeqAt(p)
    BY <1>1, <1>2 DEF Claim, Goto, TypeOK, Claimers, In, locals, SeqAt
  <2>2. CASE op[t] = "push"
    <3>1. head' = head
      BY <1>2, <2>2 DEF Claim
    <3> QED
      BY <2>1, <3>1 DEF Passed
  <2>3. CASE op[t] = "pop"
    <3>1. head' = head + 1 /\ pos[t] = head /\ pc[t] = "claim"
      BY <1>2, <2>3 DEF Claim
    <3>2. SeqAt(head) = head + 1
      BY <1>1, <2>1, <2>3, <3>1 DEF Claimable
    <3> QED
      BY <1>1, <2>1, <3>1, <3>2, Bounds DEF Passed
  <2> QED
    BY <1>2, <2>2, <2>3 DEF Claim
<1>3. CASE Construct(t)
  BY <1>1, <1>3 DEF Construct, Goto, TypeOK, Claimers, In, locals, SeqAt, Passed
<1>4. CASE MoveOut(t)
  BY <1>1, <1>4 DEF MoveOut, Goto, TypeOK, Claimers, In, SeqAt, Passed
<1>5. CASE Publish(t)
  <2>1. /\ Claimers' = Claimers /\ t \in Owners /\ op[t] \in {"push", "pop"}
        /\ UNCHANGED <<head, capacity, op, pos>>
        /\ seq' = [seq EXCEPT ![Slot(t)] =
                     IF op[t] = "push" THEN pos[t] + 1 ELSE pos[t] + capa[t]]
    BY <1>1, <1>5 DEF Publish, Goto, TypeOK, Claimers, Owners, In, locals, Working
  <2>2. /\ Slot(t) = Cell(pos[t], capacity) /\ Slot(t) \in DOMAIN seq
        /\ capa[t] = capacity /\ pos[t] \in Nat
    BY <1>1, <2>1, OwnSlot
  <2>3. seq'[Slot(t)] > seq[Slot(t)]
    <3>1. op[t] = "push" => seq[Slot(t)] = pos[t]
      BY <1>1, <2>1, <2>2 DEF Slots, PushersFit, SeqAt
    <3>2. op[t] = "pop" => seq[Slot(t)] = pos[t] + 1
      BY <1>1, <2>1, <2>2 DEF Slots, PoppersFit, SeqAt
    <3>3. capacity \in Nat /\ capacity >= 2
      BY <1>1, Bounds DEF Slots, Shape
    <3> QED
      BY <2>1, <2>2, <3>1, <3>2, <3>3
  <2>4. ASSUME NEW u \in Claimers
        PROVE  SeqAt(pos[u])' >= SeqAt(pos[u])
    <3>0. pos[u] \in Int /\ Cell(pos[u], capacity) \in 0..(capacity - 1)
      BY <1>1, Bounds
    <3>1. Cell(pos[u], capacity) \in DOMAIN seq /\ SeqAt(pos[u]) \in Nat
      BY <1>1, <3>0 DEF TypeOK, SeqAt
    <3>2. CASE Cell(pos[u], capacity) = Slot(t)
      <4>1. seq[Slot(t)] \in Nat /\ seq'[Slot(t)] \in Nat
        BY <2>1, <2>2, <3>1, <3>2, Bounds, <1>1 DEF SeqAt
      <4> QED
        BY <2>1, <2>3, <3>2, <4>1 DEF SeqAt
    <3>3. CASE Cell(pos[u], capacity) # Slot(t)
      BY <2>1, <3>1, <3>3 DEF SeqAt
    <3> QED
      BY <3>2, <3>3
  <2>5. ASSUME NEW u \in Claimers, op[u] = "pop", pos[u] < head
        PROVE  SeqAt(pos[u])' > pos[u]
    <3>1. SeqAt(pos[u])' >= SeqAt(pos[u]) /\ SeqAt(pos[u]) > pos[u]
      BY <2>4, <2>5 DEF Passed
    <3>2. pos[u] \in Int /\ Cell(pos[u], capacity) \in 0..(capacity - 1) /\ TypeOK'
      BY <1>1, Bounds, IInvNext DEF IInv, Next, Step
    <3>3. pos[u] \in Nat /\ SeqAt(pos[u]) \in Nat /\ SeqAt(pos[u])' \in Nat
      BY <1>1, <2>1, <3>2, Bounds DEF TypeOK, SeqAt
    <3> QED
      BY <3>1, <3>3
  <2> QED
    BY <2>1, <2>5 DEF Passed
<1>6. CASE Migrate(t)
  BY <1>1, <1>6 DEF Migrate, Goto, TypeOK, QuiescentResize, Claimers, Critical, In, Passed
<1> QED
  BY <1>1, <1>2, <1>3, <1>4, <1>5, <1>6, QuietPassed

-----------------------------------------------------------------------------
(* The abstract state.                                                     *)

Writers(p) == {t \in Pushing(p) : pc[t] = "access"}
PlaceOf == [p \in Int |-> [item |-> ItemAt(p), filled |-> SeqAt(p) = p + 1]]
Replies == [t \in Threads |-> Reply(t)]

\* The abstract queue lists the places of the window.
LEMMA PlacesAre ==
  alive /\ head \in Nat /\ tail \in Nat =>
    Places = [k \in 1..(tail - head) |-> PlaceOf[head + k - 1]]
<1> SUFFICES ASSUME alive, head \in Nat, tail \in Nat
             PROVE  Places = [k \in 1..(tail - head) |-> PlaceOf[head + k - 1]]
  OBVIOUS
<1>1. ASSUME NEW k \in 1..(tail - head)
      PROVE  [item |-> ItemAt(head + k - 1),
              filled |-> seq[(head + k - 1) % capacity] = head + k] = PlaceOf[head + k - 1]
  <2>1. head + k - 1 \in Int /\ (head + k - 1) + 1 = head + k
    OBVIOUS
  <2> QED
    BY <2>1 DEF PlaceOf, SeqAt, Cell
<1> QED
  BY <1>1 DEF Places

\* The same of the next state.
LEMMA PlacesWillBe ==
  alive' /\ head' \in Nat /\ tail' \in Nat =>
    Places' = [k \in 1..(tail' - head') |-> PlaceOf'[head' + k - 1]]
<1>1. (alive /\ head \in Nat /\ tail \in Nat =>
         Places = [k \in 1..(tail - head) |-> PlaceOf[head + k - 1]])'
  BY PlacesAre, PTL
<1> QED
  BY <1>1

\* Places that no step touches.
LEMMA SamePlaces ==
  ASSUME TypeOK, alive, alive', UNCHANGED <<head, tail>>,
         \A p \in Window : PlaceOf'[p] = PlaceOf[p]
  PROVE  Places' = Places
<1>1. head \in Nat /\ tail \in Nat /\ head' = head /\ tail' = tail
  BY DEF TypeOK
<1>2. \A k \in 1..(tail - head) : head + k - 1 \in Window
  BY <1>1 DEF Window
<1>3. \A k \in 1..(tail - head) : PlaceOf'[head + k - 1] = PlaceOf[head + k - 1]
  BY <1>2
<1>4. Places = [k \in 1..(tail - head) |-> PlaceOf[head + k - 1]]
  BY <1>1, PlacesAre
<1>5. Places' = [k \in 1..(tail - head) |-> PlaceOf'[head + k - 1]]
  BY <1>1, PlacesWillBe
<1> QED
  BY <1>3, <1>4, <1>5, Zenon

\* A position whose slot and writer stay as they are keeps its place.
LEMMA ItemFrame ==
  ASSUME NEW p, Writers(p)' = Writers(p), DataAt(p)' = DataAt(p),
         \A u \in Writers(p) : item'[u] = item[u]
  PROVE  ItemAt(p)' = ItemAt(p)
BY DEF ItemAt, Writers, DataAt, Cell

\* So does the place as a whole.
LEMMA PlaceFrame ==
  ASSUME NEW p \in Int, Writers(p)' = Writers(p),
         SeqAt(p)' = SeqAt(p), DataAt(p)' = DataAt(p),
         \A u \in Writers(p) : item'[u] = item[u]
  PROVE  PlaceOf'[p] = PlaceOf[p]
<1>1. ItemAt(p)' = ItemAt(p)
  BY ItemFrame
<1> QED
  BY <1>1 DEF PlaceOf

\* A place shows the item of the push that is about to fill it, or what its slot holds.
LEMMA ItemInHand ==
  ASSUME NEW p, NEW t, Writers(p) = {t}
  PROVE  ItemAt(p) = item[t]
BY DEF ItemAt, Writers

\* Once the push has constructed, the slot holds it.
LEMMA ItemInSlot ==
  ASSUME NEW p, Writers(p) = {}
  PROVE  ItemAt(p) = DataAt(p)
BY DEF ItemAt, Writers, DataAt, Cell

\* A position has one push to fill it.
LEMMA WriterIs ==
  ASSUME Slots, NEW t \in Owners, op[t] = "push", pc[t] = "access"
  PROVE  Writers(pos[t]) = {t}
BY DEF Writers, Pushing, Owners, In, Slots, Distinct

\* The pushes that fill a position own its slot.
LEMMA WritersAre ==
  ASSUME NEW p
  PROVE  Writers(p) = {u \in Owners : op[u] = "push" /\ pos[u] = p /\ pc[u] = "access"}
BY DEF Writers, Pushing, Owners

\* An item in hand is in no place.
LEMMA NotQueued ==
  ASSUME TypeOK, Slots, ItemsDiffer, NEW t \in Carrying, t \notin Owners, NEW p \in Window
  PROVE  ItemAt(p) # item[t]
<1>1. CASE Writers(p) = {}
  <2>0. p \in Int
    BY Bounds DEF Window
  <2>1. Cell(p, capacity) \in DOMAIN data
    BY <2>0, Bounds DEF TypeOK
  <2>2. item[t] # Raw
    BY DEF ItemsDiffer, Raw
  <2> QED
    BY <1>1, <2>1, <2>2, ItemInSlot DEF ItemsDiffer, DataAt
<1>2. CASE Writers(p) # {}
  <2>1. PICK u : u \in Writers(p)
    BY <1>2
  <2>2. u \in Owners /\ op[u] = "push" /\ pos[u] = p /\ pc[u] = "access" /\ u \in Carrying
    BY <2>1 DEF Writers, Pushing, Owners, In, Carrying
  <2>3. ItemAt(p) = item[u]
    BY <2>2, WriterIs, ItemInHand
  <2> QED
    BY <2>2, <2>3 DEF ItemsDiffer
<1> QED
  BY <1>1, <1>2

-----------------------------------------------------------------------------
(* Steps that are invisible, and the two of pop() that are not.            *)

\* Who owns a slot keeps his item.
LEMMA QuietItem ==
  ASSUME TypeOK, NEW t \in Threads, Step(t), ~Claim(t), ~Construct(t), ~MoveOut(t),
         ~Publish(t), ~Migrate(t)
  PROVE  \A u \in Owners : item'[u] = item[u]
<1> USE DEF TypeOK, Goto, Owners, In
<1>1. CASE StartPush(t)
  BY <1>1 DEF StartPush, shared
<1>2. CASE StartPop(t)
  BY <1>2 DEF StartPop, shared
<1>3. CASE SizeTail(t)
  BY <1>3 DEF SizeTail, shared
<1>4. CASE Check(t)
  BY <1>4 DEF Check, shared, locals
<1>5. CASE Wait(t)
  BY <1>5 DEF Wait, shared, locals
<1>6. CASE Enter(t)
  BY <1>6 DEF Enter, locals
<1>7. CASE Recheck(t)
  BY <1>7 DEF Recheck, shared, locals
<1>8. CASE BackOff(t)
  BY <1>8 DEF BackOff, locals
<1>9. CASE Load(t)
  BY <1>9 DEF Load, shared
<1>10. CASE Inspect(t)
  BY <1>10 DEF Inspect, shared, locals
<1>11. CASE ClaimFails(t)
  BY <1>11 DEF ClaimFails, shared, locals
<1>12. CASE Leave(t)
  BY <1>12 DEF Leave, Forget
<1>13. CASE LeaveRetry(t)
  BY <1>13 DEF LeaveRetry
<1>14. CASE LeaveFull(t)
  BY <1>14 DEF LeaveFull
<1>15. CASE StartResize(t)
  BY <1>15 DEF StartResize
<1>16. CASE Quiesce(t)
  BY <1>16 DEF Quiesce, shared, locals
<1>17. CASE AllocFails(t)
  BY <1>17 DEF AllocFails, shared, Forget
<1>18. CASE Reopen(t)
  BY <1>18 DEF Reopen, locals
<1>19. CASE Notify(t)
  BY <1>19 DEF Notify, shared, locals
<1>20. CASE SizeHead(t)
  BY <1>20 DEF SizeHead, shared, Forget
<1>21. CASE Claim(t)
  BY <1>21
<1>22. CASE Construct(t)
  BY <1>22
<1>23. CASE MoveOut(t)
  BY <1>23
<1>24. CASE Publish(t)
  BY <1>24
<1>25. CASE Migrate(t)
  BY <1>25
<1> QED
  BY <1>1, <1>2, <1>3, <1>4, <1>5, <1>6, <1>7, <1>8, <1>9, <1>10, <1>11, <1>12, <1>13,
     <1>14, <1>15, <1>16, <1>17, <1>18, <1>19, <1>20, <1>21, <1>22, <1>23, <1>24, <1>25
     DEF Step, Call, Attempt, Resize

\* Such steps leave the abstract queue as it is.
LEMMA QuietPlaces ==
  ASSUME TypeOK, alive, alive', NEW t \in Threads, Step(t), ~Claim(t), ~Construct(t),
         ~MoveOut(t), ~Publish(t), ~Migrate(t)
  PROVE  Places' = Places
<1>1. /\ UNCHANGED <<seq, data, head, tail, capacity>>
      /\ Owners' = Owners
      /\ \A u \in Owners : pc'[u] = pc[u] /\ op'[u] = op[u] /\ pos'[u] = pos[u]
  BY QuietStep
<1>2. \A u \in Owners : item'[u] = item[u]
  BY QuietItem
<1>3. ASSUME NEW p \in Window
      PROVE  PlaceOf'[p] = PlaceOf[p]
  <2>1. Writers(p)' = Writers(p) /\ Writers(p) \subseteq Owners
    BY <1>1 DEF Writers, Pushing, Owners
  <2>2. SeqAt(p)' = SeqAt(p) /\ DataAt(p)' = DataAt(p)
    BY <1>1 DEF SeqAt, DataAt
  <2>3. p \in Int
    BY Bounds DEF Window
  <2> QED
    BY <1>2, <2>1, <2>2, <2>3, PlaceFrame
<1> QED
  BY <1>1, <1>3, SamePlaces

\* A reply changes only at Inspect and Leave.
LEMMA QuietReplies ==
  ASSUME TypeOK, NEW t \in Threads, Step(t), ~Claim(t), ~Construct(t), ~MoveOut(t),
         ~Publish(t), ~Migrate(t), ~Inspect(t), ~Leave(t)
  PROVE  Replies' = Replies
<1>0. UNCHANGED data
  BY QuietStep
<1> SUFFICES ASSUME NEW u \in Threads PROVE Reply(u)' = Reply(u)
  BY DEF Replies
<1> USE DEF TypeOK, Goto, Reply, Slot
<1>1. CASE StartPush(t)
  BY <1>1, <1>0 DEF StartPush, shared
<1>2. CASE StartPop(t)
  BY <1>2, <1>0 DEF StartPop, shared
<1>3. CASE SizeTail(t)
  BY <1>3, <1>0 DEF SizeTail, shared
<1>4. CASE Check(t)
  BY <1>4, <1>0 DEF Check, shared, locals
<1>5. CASE Wait(t)
  BY <1>5, <1>0 DEF Wait, shared, locals
<1>6. CASE Enter(t)
  BY <1>6, <1>0 DEF Enter, locals
<1>7. CASE Recheck(t)
  BY <1>7, <1>0 DEF Recheck, shared, locals
<1>8. CASE BackOff(t)
  BY <1>8, <1>0 DEF BackOff, locals
<1>9. CASE Load(t)
  BY <1>9, <1>0 DEF Load, shared
<1>10. CASE Inspect(t)
  BY <1>10
<1>11. CASE ClaimFails(t)
  BY <1>11, <1>0 DEF ClaimFails, shared, locals
<1>12. CASE Leave(t)
  BY <1>12
<1>13. CASE LeaveRetry(t)
  BY <1>13, <1>0 DEF LeaveRetry
<1>14. CASE LeaveFull(t)
  BY <1>14, <1>0 DEF LeaveFull
<1>15. CASE StartResize(t)
  BY <1>15, <1>0 DEF StartResize
<1>16. CASE Quiesce(t)
  BY <1>16, <1>0 DEF Quiesce, shared, locals
<1>17. CASE AllocFails(t)
  BY <1>17, <1>0 DEF AllocFails, shared, Forget
<1>18. CASE Reopen(t)
  BY <1>18, <1>0 DEF Reopen, locals
<1>19. CASE Notify(t)
  BY <1>19, <1>0 DEF Notify, shared, locals
<1>20. CASE SizeHead(t)
  BY <1>20, <1>0 DEF SizeHead, shared, Forget
<1>21. CASE Claim(t)
  BY <1>21
<1>22. CASE Construct(t)
  BY <1>22
<1>23. CASE MoveOut(t)
  BY <1>23
<1>24. CASE Publish(t)
  BY <1>24
<1>25. CASE Migrate(t)
  BY <1>25
<1> QED
  BY <1>1, <1>2, <1>3, <1>4, <1>5, <1>6, <1>7, <1>8, <1>9, <1>10, <1>11, <1>12, <1>13,
     <1>14, <1>15, <1>16, <1>17, <1>18, <1>19, <1>20, <1>21, <1>22, <1>23, <1>24, <1>25
     DEF Step, Call, Attempt, Resize

\* A pop that finds its slot unfilled looked at the oldest place, and that is unfilled.
LEMMA InspectReplies ==
  ASSUME IInv, Ring, Passed, alive, NEW t \in Threads, Inspect(t)
  PROVE  Replies' = Replies \/ Tickets!FindEmpty(t)
<1>1. TypeOK /\ NoStaleMap /\ Slots /\ Claimable /\ Working
  BY DEF IInv, Ring
<1>2. /\ pc[t] = "inspect" /\ t \in Claimers /\ t \in Threads
      /\ UNCHANGED <<seq, data, head, tail, capacity, op, pos, capa, item, alive>>
      /\ Slot(t) = Cell(pos[t], capacity)
  BY <1>1 DEF Inspect, shared, locals, Claimers, In, NoStaleMap, Holding, Slot, Cell
<1>3. \A u \in Threads : u # t => Reply(u)' = Reply(u)
  BY <1>1, <1>2 DEF Inspect, Goto, Reply, Slot, TypeOK
<1>4. pc'[t] \in {"claim", "leave_full", "leave_empty", "leave_retry"} /\ Reply(t) = -1
  BY <1>1, <1>2 DEF Inspect, Goto, Reply, TypeOK
<1>5. CASE pc'[t] # "leave_empty" \/ op[t] # "pop"
  <2>1. Reply(t)' = -1
    BY <1>2, <1>4, <1>5 DEF Reply
  <2> QED
    BY <1>3, <1>4, <2>1 DEF Replies
<1>6. CASE pc'[t] = "leave_empty" /\ op[t] = "pop"
  <2>1. Reply(t)' = Raw
    BY <1>2, <1>6 DEF Reply
  <2>2. Replies' = [Replies EXCEPT ![t] = Raw]
    BY <1>2, <1>3, <2>1 DEF Replies
  <2>3. SeqAt(pos[t]) < pos[t] + 1
    BY <1>1, <1>2, <1>6 DEF Inspect, Goto, Wanted, SeqAt, TypeOK
  <2>4. pos[t] = head /\ SeqAt(head) # head + 1
    <3>1. pos[t] \in Nat /\ head \in Nat /\ Cell(pos[t], capacity) \in 0..(capacity - 1)
      BY <1>1, <1>2, Bounds
    <3>2. SeqAt(pos[t]) \in Nat
      BY <1>1, <3>1 DEF SeqAt, TypeOK
    <3>3. pos[t] <= head
      BY <1>1, <1>2, <1>6 DEF Claimable
    <3>4. ~(pos[t] < head)
      BY <1>2, <1>6, <2>3, <3>1, <3>2 DEF Passed
    <3>5. pos[t] = head
      BY <3>1, <3>3, <3>4
    <3> QED
      BY <2>3, <3>1, <3>2, <3>5
  <2>5. Places = << >> \/ ~Head(Places).filled
    <3>0. head \in Nat /\ tail \in Nat /\ head <= tail
      BY <1>1, Bounds DEF Slots, Shape
    <3>1. Places = [k \in 1..(tail - head) |-> PlaceOf[head + k - 1]]
      BY <3>0, PlacesAre
    <3>2. CASE head = tail
      BY <3>0, <3>1, <3>2
    <3>3. CASE head < tail
      <4>0. 1 \in 1..(tail - head) /\ head + 1 - 1 = head /\ head \in Int
        BY <3>0, <3>3
      <4>1. Places[1] = PlaceOf[head]
        BY <3>1, <4>0
      <4>3. PlaceOf[head] = [item |-> ItemAt(head), filled |-> SeqAt(head) = head + 1]
        BY <4>0 DEF PlaceOf
      <4>2. Head(Places) = Places[1]
        OBVIOUS
      <4>4. (SeqAt(head) = head + 1) = FALSE
        BY <2>4
      <4>5. PlaceOf[head] = [item |-> ItemAt(head), filled |-> FALSE]
        BY <4>3, <4>4
      <4>6. Head(Places).filled = FALSE
        BY <4>1, <4>2, <4>5
      <4> QED
        BY <4>6
    <3> QED
      BY <3>0, <3>2, <3>3
  <2>6. UNCHANGED Places
    BY <1>1, <1>2, QuietPlaces
       DEF Step, Attempt, Inspect, Claim, Construct, MoveOut, Publish, Migrate
  <2> QED
    BY <1>2, <1>4, <2>2, <2>5, <2>6
       DEF Tickets!FindEmpty, Tickets!NoReply, Tickets!Nullopt, Replies, Raw
<1> QED
  BY <1>5, <1>6

\* A pop returns, a push leaves unseen.
LEMMA LeaveReplies ==
  ASSUME TypeOK, alive, NEW t \in Threads, Leave(t)
  PROVE  Replies' = Replies \/ Tickets!Return(t)
<1>1. /\ pc[t] \in {"leave", "leave_empty"} /\ t \in Threads
      /\ UNCHANGED <<seq, data, head, tail, capacity, alive>>
      /\ pc'[t] = "idle" /\ op'[t] = "none"
      /\ \A u \in Threads : u # t =>
           /\ pc'[u] = pc[u] /\ op'[u] = op[u] /\ item'[u] = item[u]
           /\ pos'[u] = pos[u] /\ capa'[u] = capa[u]
  BY DEF Leave, Forget, Goto, TypeOK
<1>2. \A u \in Threads : u # t => Reply(u)' = Reply(u)
  BY <1>1 DEF Reply, Slot
<1>3. Reply(t)' = -1
  BY <1>1 DEF Reply
<1>4. CASE op[t] # "pop"
  BY <1>2, <1>3, <1>4 DEF Reply, Replies
<1>5. CASE op[t] = "pop"
  <2>1. Reply(t) \in Items \cup {Raw}
    BY <1>1, <1>5 DEF Reply, TypeOK
  <2>2. Reply(t) # -1
    BY <2>1, BoundAssumption DEF Items, Raw
  <2>3. Replies' = [Replies EXCEPT ![t] = -1]
    BY <1>1, <1>2, <1>3 DEF Replies
  <2>4. UNCHANGED Places
    BY <1>1, QuietPlaces
       DEF Step, Attempt, Leave, Claim, Construct, MoveOut, Publish, Migrate
  <2> QED
    BY <1>1, <2>2, <2>3, <2>4 DEF Tickets!Return, Tickets!NoReply, Replies
<1> QED
  BY <1>4, <1>5

-----------------------------------------------------------------------------
(* Claims, fillings, resizes and the end.                                  *)

\* A push that claims a position reserves the next place.
LEMMA PushClaims ==
  ASSUME IInv, Ring, ItemsDiffer, alive, NEW t \in Threads, Claim(t), op[t] = "push"
  PROVE  Tickets!Reserve(item[t])
<1>1. TypeOK /\ NoStaleMap /\ Slots /\ Claimable /\ Working
  BY DEF IInv, Ring
<1>2. /\ pc[t] = "claim" /\ pc'[t] = "access" /\ t \in Claimers /\ t \notin Owners
      /\ \A u \in Threads : u # t => pc'[u] = pc[u]
      /\ UNCHANGED <<seq, data, capacity, op, pos, capa, item, alive>>
      /\ pos[t] = tail /\ tail' = tail + 1 /\ head' = head
  BY <1>1 DEF Claim, Goto, TypeOK, Claimers, Owners, In, locals
<1>3. head \in Nat /\ tail \in Nat /\ head <= tail
  BY <1>1, Bounds DEF Slots, Shape
<1>4. SeqAt(tail) = tail
  BY <1>1, <1>2 DEF Claimable
<1>5. \A p : SeqAt(p)' = SeqAt(p) /\ DataAt(p)' = DataAt(p)
  BY <1>2 DEF SeqAt, DataAt
<1>6. \A u \in Owners : op[u] = "push" => pos[u] # tail
  <2>1. \A u \in Owners : op[u] = "push" => pos[u] < tail
    BY <1>1 DEF Slots, PushersFit
  <2> QED
    BY <1>1, <1>3, <2>1, Bounds
<1>7. ASSUME NEW p \in Window
      PROVE  PlaceOf'[p] = PlaceOf[p]
  <2>1. p \in Int /\ p # tail
    BY <1>3 DEF Window
  <2>2. Writers(p)' = Writers(p)
    BY <1>2, <2>1 DEF Writers, Pushing, In
  <2> QED
    BY <1>2, <1>5, <2>1, <2>2, PlaceFrame
<1>8. ASSUME NEW p, p = tail
      PROVE  PlaceOf'[p] = [item |-> item[t], filled |-> FALSE]
  <2>1. Writers(p)' = {t}
    BY <1>2, <1>6, <1>8 DEF Writers, Pushing, Owners, In
  <2>2. ItemAt(p)' = item[t]
    BY <1>2, <2>1 DEF ItemAt, Writers
  <2>3. SeqAt(p)' = SeqAt(p)
    BY <1>5
  <2>4. p \in Int /\ SeqAt(p) = p /\ (p = p + 1) = FALSE
    BY <1>3, <1>4, <1>8
  <2>5. PlaceOf'[p] = [item |-> ItemAt(p)', filled |-> SeqAt(p)' = p + 1]
    BY <2>4 DEF PlaceOf
  <2> QED
    BY <2>2, <2>3, <2>4, <2>5
<1> DEFINE n == tail - head
           S == {PlaceOf[p] : p \in Int} \cup {PlaceOf'[p] : p \in Int}
<1>9. /\ n \in Nat /\ Places = [k \in 1..n |-> PlaceOf[head + k - 1]]
      /\ Places' = [k \in 1..(n + 1) |-> PlaceOf'[head + k - 1]]
  <2>1. tail' - head' = n + 1 /\ tail' \in Nat /\ head' \in Nat /\ alive' /\ n \in Nat
    BY <1>2, <1>3
  <2> QED
    BY <1>2, <1>3, <2>1, PlacesAre, PlacesWillBe
<1>10. Places \in [1..n -> S] /\ Places' \in [1..(n + 1) -> S]
  <2>1. \A k \in 1..(n + 1) : head + k - 1 \in Int
    BY <1>3
  <2> QED
    BY <1>9, <2>1
<1>11. \A k \in 1..n : Places'[k] = Places[k]
  <2>1. \A k \in 1..n : head + k - 1 \in Window /\ k \in 1..(n + 1)
    BY <1>3 DEF Window
  <2> QED
    BY <1>7, <1>9, <2>1
<1>12. Places'[n + 1] = [item |-> item[t], filled |-> FALSE]
  <2>1. head + (n + 1) - 1 = tail /\ n + 1 \in 1..(n + 1)
    BY <1>3
  <2>2. Places'[n + 1] = PlaceOf'[tail]
    BY <1>9, <2>1
  <2> QED
    BY <1>8, <2>2
<1>13. \A i \in DOMAIN Places : Places[i].item # item[t]
  <2> SUFFICES ASSUME NEW i \in 1..n PROVE Places[i].item # item[t]
    BY <1>9
  <2>1. head + i - 1 \in Window /\ head + i - 1 \in Int
    BY <1>3 DEF Window
  <2>2. t \in Carrying
    BY <1>2 DEF Carrying
  <2>3. ItemAt(head + i - 1) # item[t]
    BY <1>1, <1>2, <2>1, <2>2, NotQueued
  <2>4. Places[i].item = ItemAt(head + i - 1)
    BY <1>9, <2>1 DEF PlaceOf
  <2> QED
    BY <2>3, <2>4
<1>14. UNCHANGED Replies
  <2> SUFFICES ASSUME NEW u \in Threads PROVE Reply(u)' = Reply(u)
    BY DEF Replies
  <2>1. CASE u = t
    BY <1>2, <2>1 DEF Reply
  <2>2. CASE u # t
    BY <1>2, <2>2 DEF Reply, Slot
  <2> QED
    BY <2>1, <2>2
<1> HIDE DEF n, S
<1>15. Places' = Append(Places, Places'[n + 1])
  <2>1. n \in Nat
    BY <1>9
  <2> QED
    BY <2>1, <1>10, <1>11, AppendIs
<1> QED
  BY <1>12, <1>13, <1>14, <1>15 DEF Tickets!Reserve, Tickets!Place, Replies

\* A pop that claims a position takes the oldest place, which is filled.
LEMMA PopClaims ==
  ASSUME IInv, Ring, alive, NEW t \in Threads, Claim(t), op[t] = "pop"
  PROVE  Tickets!Take(t)
<1>1. TypeOK /\ NoStaleMap /\ Slots /\ Claimable /\ Working
  BY DEF IInv, Ring
<1>2. /\ pc[t] = "claim" /\ pc'[t] = "access" /\ t \in Claimers /\ t \notin Owners
      /\ \A u \in Threads : u # t => pc'[u] = pc[u]
      /\ UNCHANGED <<seq, data, capacity, op, pos, capa, item, alive>>
      /\ pos[t] = head /\ head' = head + 1 /\ tail' = tail
      /\ Slot(t) = Cell(head, capacity)
  BY <1>1 DEF Claim, Goto, TypeOK, Claimers, Owners, In, locals, NoStaleMap, Holding,
              Slot, Cell
<1>3. SeqAt(head) = head + 1
  BY <1>1, <1>2 DEF Claimable
<1>4. head < tail /\ head \in Nat /\ tail \in Nat
  BY <1>1, <1>3, ItemForPop, Bounds
<1>5. Writers(head) = {}
  BY <1>1, <1>3, UnownedForPop, WritersAre
<1>6. PlaceOf[head] = [item |-> DataAt(head), filled |-> TRUE]
  <2>1. ItemAt(head) = DataAt(head)
    BY <1>5, ItemInSlot
  <2>2. (SeqAt(head) = head + 1) = TRUE /\ head \in Int
    BY <1>3, <1>4
  <2>3. PlaceOf[head] = [item |-> ItemAt(head), filled |-> SeqAt(head) = head + 1]
    BY <2>2 DEF PlaceOf
  <2> QED
    BY <2>1, <2>2, <2>3
<1>7. ASSUME NEW p \in Window
      PROVE  PlaceOf'[p] = PlaceOf[p]
  <2>1. p \in Int
    BY <1>4 DEF Window
  <2>2. Writers(p)' = Writers(p)
    BY <1>2 DEF Writers, Pushing, In
  <2>3. SeqAt(p)' = SeqAt(p) /\ DataAt(p)' = DataAt(p)
    BY <1>2 DEF SeqAt, DataAt
  <2> QED
    BY <1>2, <2>1, <2>2, <2>3, PlaceFrame
<1> DEFINE n == tail - head
           S == {PlaceOf[p] : p \in Int} \cup {PlaceOf'[p] : p \in Int}
<1>8. n \in Nat \ {0} /\ tail' - head' = n - 1 /\ tail' \in Nat /\ head' \in Nat /\ alive'
  BY <1>2, <1>4
<1>9. /\ Places = [k \in 1..n |-> PlaceOf[head + k - 1]]
      /\ Places' = [k \in 1..(n - 1) |-> PlaceOf'[head + 1 + k - 1]]
  BY <1>2, <1>4, <1>8, PlacesAre, PlacesWillBe
<1>10. Places \in [1..n -> S] /\ Places' \in [1..(n - 1) -> S]
  <2>1. \A k \in 1..n : head + k - 1 \in Int /\ head + 1 + k - 1 \in Int
    BY <1>4
  <2>2. 1..(n - 1) \subseteq 1..n
    BY <1>8
  <2> QED
    BY <1>9, <2>1, <2>2
<1>11. \A k \in 1..(n - 1) : Places'[k] = Places[k + 1]
  <2>1. \A k \in 1..(n - 1) :
          /\ head + 1 + k - 1 \in Window /\ k + 1 \in 1..n
          /\ head + (k + 1) - 1 = head + 1 + k - 1
    BY <1>4 DEF Window
  <2> QED
    BY <1>7, <1>9, <2>1
<1>12. Places[1] = PlaceOf[head]
  <2>1. 1 \in 1..n /\ head + 1 - 1 = head
    BY <1>4
  <2> QED
    BY <1>9, <2>1
<1> HIDE DEF n, S
<1>13. Places # << >> /\ Head(Places) = Places[1] /\ Tail(Places) = Places'
  BY <1>8, <1>10, <1>11, TailIs
<1>14. Reply(t) = -1 /\ Reply(t)' = DataAt(head)
  BY <1>2 DEF Reply, Slot, DataAt
<1>15. Replies' = [Replies EXCEPT ![t] = DataAt(head)]
  <2>1. \A u \in Threads : u # t => Reply(u)' = Reply(u)
    BY <1>2 DEF Reply, Slot
  <2> QED
    BY <1>14, <2>1 DEF Replies
<1>16. Head(Places).filled /\ Head(Places).item = DataAt(head)
  BY <1>6, <1>12, <1>13
<1>17. Replies[t] = -1
  BY <1>14 DEF Replies
<1> QED
  BY <1>13, <1>15, <1>16, <1>17 DEF Tickets!Take, Tickets!NoReply, Replies

\* Constructing is invisible: the place showed the item already.
LEMMA ConstructPlaces ==
  ASSUME IInv, Ring, alive, NEW t \in Threads, Construct(t)
  PROVE  Places' = Places /\ Replies' = Replies
<1>1. TypeOK /\ NoStaleMap /\ Slots
  BY DEF IInv, Ring
<1>2. /\ pc[t] = "access" /\ pc'[t] = "publish" /\ op[t] = "push" /\ t \in Owners
      /\ \A u \in Threads : u # t => pc'[u] = pc[u]
      /\ UNCHANGED <<seq, head, tail, capacity, op, pos, capa, item, alive>>
      /\ data' = [data EXCEPT ![Slot(t)] = item[t]]
  BY <1>1 DEF Construct, Goto, TypeOK, Owners, In, locals
<1>3. Slot(t) = Cell(pos[t], capacity) /\ Slot(t) \in DOMAIN data
  BY <1>1, <1>2, OwnSlot
<1>4. ASSUME NEW p \in Window
      PROVE  PlaceOf'[p] = PlaceOf[p]
  <2>1. p \in Int /\ p \in head..(head + capacity - 1)
    BY <1>1, Bounds DEF Window, Slots, Shape
  <2>2. SeqAt(p)' = SeqAt(p)
    BY <1>2 DEF SeqAt
  <2>3. CASE p = pos[t]
    <3>1. Writers(p) = {t}
      BY <1>1, <1>2, <2>3, WriterIs
    <3>2. Writers(p)' = {}
      BY <1>2, <3>1 DEF Writers, Pushing, In
    <3>3. ItemAt(p) = item[t]
      BY <3>1, ItemInHand
    <3>4. ItemAt(p)' = DataAt(p)'
      BY <3>2 DEF ItemAt, Writers, DataAt, Cell
    <3>5. DataAt(p)' = item[t]
      BY <1>2, <1>3, <2>3 DEF DataAt
    <3> QED
      BY <2>1, <2>2, <3>3, <3>4, <3>5 DEF PlaceOf
  <2>4. CASE p # pos[t]
    <3>1. Cell(p, capacity) # Slot(t)
      BY <1>1, <1>2, <1>3, <2>1, <2>4, PushSlot
    <3>2. DataAt(p)' = DataAt(p)
      <4>1. Cell(p, capacity) \in DOMAIN data
        BY <1>1, <2>1, Bounds DEF TypeOK
      <4> QED
        BY <1>2, <3>1, <4>1 DEF DataAt
    <3>3. Writers(p)' = Writers(p)
      BY <1>2, <2>4 DEF Writers, Pushing, In
    <3> QED
      BY <1>2, <2>1, <2>2, <3>2, <3>3, PlaceFrame
  <2> QED
    BY <2>3, <2>4
<1>5. ASSUME NEW u \in Threads
      PROVE  Reply(u)' = Reply(u)
  <2>1. CASE u = t
    BY <1>2, <2>1 DEF Reply
  <2>2. CASE u # t /\ pc[u] = "access"
    <3>1. u \in Owners
      BY <2>2 DEF Owners, In
    <3>2. Slot(u) # Slot(t) /\ Slot(u) \in DOMAIN data
      BY <1>1, <1>2, <1>3, <2>2, <3>1, OwnSlot
    <3>3. Slot(u)' = Slot(u) /\ data'[Slot(u)] = data[Slot(u)]
      BY <1>2, <3>2 DEF Slot
    <3> QED
      BY <1>2, <2>2, <3>3 DEF Reply
  <2>3. CASE u # t /\ pc[u] # "access"
    BY <1>2, <2>3 DEF Reply
  <2> QED
    BY <2>1, <2>2, <2>3
<1> QED
  BY <1>1, <1>2, <1>4, <1>5, SamePlaces DEF Replies

\* Moving out is invisible: the slot left the window when it was claimed.
LEMMA MoveOutPlaces ==
  ASSUME IInv, Ring, alive, NEW t \in Threads, MoveOut(t)
  PROVE  Places' = Places /\ Replies' = Replies
<1>1. TypeOK /\ NoStaleMap /\ Slots
  BY DEF IInv, Ring
<1>2. /\ pc[t] = "access" /\ pc'[t] = "publish" /\ op[t] = "pop" /\ t \in Owners
      /\ \A u \in Threads : u # t => pc'[u] = pc[u] /\ item'[u] = item[u]
      /\ UNCHANGED <<seq, head, tail, capacity, op, pos, capa, alive>>
      /\ item'[t] = data[Slot(t)]
      /\ data' = [data EXCEPT ![Slot(t)] = Raw]
  BY <1>1 DEF MoveOut, Goto, TypeOK, Owners, In
<1>3. Slot(t) = Cell(pos[t], capacity) /\ Slot(t) \in DOMAIN data
  BY <1>1, <1>2, OwnSlot
<1>4. ASSUME NEW p \in Window
      PROVE  PlaceOf'[p] = PlaceOf[p]
  <2>1. p \in Int /\ p \in head..(head + capacity - 1)
    BY <1>1, Bounds DEF Window, Slots, Shape
  <2>2. p # pos[t] + capacity
    <3>1. tail <= pos[t] + capacity /\ pos[t] \in Nat
      BY <1>1, <1>2, Bounds DEF Slots, PoppersFit
    <3> QED
      BY <1>1, <3>1, Bounds DEF Window
  <2>3. Cell(p, capacity) # Slot(t) /\ Cell(p, capacity) \in DOMAIN data
    <3>1. Cell(p, capacity) # Slot(t)
      BY <1>1, <1>2, <1>3, <2>1, <2>2, PopSlot
    <3> QED
      BY <1>1, <2>1, <3>1, Bounds DEF TypeOK
  <2>4. SeqAt(p)' = SeqAt(p) /\ DataAt(p)' = DataAt(p)
    BY <1>2, <2>3 DEF SeqAt, DataAt
  <2>5. Writers(p)' = Writers(p) /\ t \notin Writers(p) /\ Writers(p) \subseteq Threads
    BY <1>2 DEF Writers, Pushing, In
  <2> QED
    BY <1>2, <2>1, <2>4, <2>5, PlaceFrame
<1>5. ASSUME NEW u \in Threads
      PROVE  Reply(u)' = Reply(u)
  <2>1. CASE u = t
    BY <1>2, <2>1 DEF Reply
  <2>2. CASE u # t /\ pc[u] = "access"
    <3>1. u \in Owners
      BY <2>2 DEF Owners, In
    <3>2. Slot(u) # Slot(t) /\ Slot(u) \in DOMAIN data
      BY <1>1, <1>2, <1>3, <2>2, <3>1, OwnSlot
    <3>3. Slot(u)' = Slot(u) /\ data'[Slot(u)] = data[Slot(u)]
      BY <1>2, <3>2 DEF Slot
    <3> QED
      BY <1>2, <2>2, <3>3 DEF Reply
  <2>3. CASE u # t /\ pc[u] # "access"
    BY <1>2, <2>3 DEF Reply
  <2> QED
    BY <2>1, <2>2, <2>3
<1> QED
  BY <1>1, <1>2, <1>4, <1>5, SamePlaces DEF Replies

\* What a publication leaves as it is.
LEMMA PublishFrame ==
  ASSUME IInv, Ring, alive, NEW t \in Threads, Publish(t)
  PROVE  /\ t \in Owners /\ op[t] \in {"push", "pop"}
         /\ pc[t] = "publish" /\ pc'[t] = "leave"
         /\ UNCHANGED <<data, head, tail, capacity, op, pos, capa, item, alive>>
         /\ Slot(t) = Cell(pos[t], capacity) /\ Slot(t) \in DOMAIN seq
         /\ op[t] = "push" => seq' = [seq EXCEPT ![Slot(t)] = pos[t] + 1]
         /\ Replies' = Replies
         /\ \A p \in Window : Cell(p, capacity) # Slot(t) => PlaceOf'[p] = PlaceOf[p]
<1>1. TypeOK /\ NoStaleMap /\ Slots /\ Working
  BY DEF IInv, Ring
<1>2. /\ pc[t] = "publish" /\ pc'[t] = "leave" /\ t \in Owners /\ op[t] \in {"push", "pop"}
      /\ \A u \in Threads : u # t => pc'[u] = pc[u]
      /\ UNCHANGED <<data, head, tail, capacity, op, pos, capa, item, alive>>
      /\ seq' = [seq EXCEPT ![Slot(t)] =
                   IF op[t] = "push" THEN pos[t] + 1 ELSE pos[t] + capa[t]]
  BY <1>1 DEF Publish, Goto, TypeOK, Owners, In, locals, Working
<1>3. Slot(t) = Cell(pos[t], capacity) /\ Slot(t) \in DOMAIN seq
  BY <1>1, <1>2, OwnSlot
<1>4. ASSUME NEW u \in Threads
      PROVE  Reply(u)' = Reply(u)
  <2>1. CASE u = t
    BY <1>2, <2>1 DEF Reply
  <2>2. CASE u # t
    BY <1>2, <2>2 DEF Reply, Slot
  <2> QED
    BY <2>1, <2>2
<1>5. ASSUME NEW p \in Window, Cell(p, capacity) # Slot(t)
      PROVE  PlaceOf'[p] = PlaceOf[p]
  <2>1. p \in Int
    BY <1>1, Bounds DEF Window
  <2>2. Cell(p, capacity) \in DOMAIN seq
    BY <1>1, <2>1, Bounds DEF TypeOK
  <2>3. SeqAt(p)' = SeqAt(p) /\ DataAt(p)' = DataAt(p)
    BY <1>2, <1>5, <2>2 DEF SeqAt, DataAt
  <2>4. Writers(p)' = Writers(p)
    BY <1>2 DEF Writers, Pushing, In
  <2> QED
    BY <1>2, <2>1, <2>3, <2>4, PlaceFrame
<1> QED
  BY <1>2, <1>3, <1>4, <1>5 DEF Replies

\* Filling a place keeps its item.
LEMMA Refilled ==
  ASSUME NEW v, NEW b \in BOOLEAN, NEW c \in BOOLEAN, NEW r, r = [item |-> v, filled |-> b]
  PROVE  [r EXCEPT !.filled = c] = [item |-> v, filled |-> c]
OBVIOUS

\* A thread that publishes has constructed already.
LEMMA PublishWriters ==
  ASSUME TypeOK, NEW t \in Threads, Publish(t), NEW p
  PROVE  Writers(p)' = Writers(p)
BY DEF Publish, Goto, TypeOK, Writers, Pushing, In, locals

\* The publication of a push fills its place.
LEMMA PushPublishes ==
  ASSUME IInv, Ring, alive, NEW t \in Threads, Publish(t), op[t] = "push"
  PROVE  \E i \in DOMAIN Places : Tickets!Fill(i)
<1>1. TypeOK /\ NoStaleMap /\ Slots
  BY DEF IInv, Ring
<1>2. /\ t \in Owners /\ pc[t] = "publish" /\ pc'[t] = "leave"
      /\ UNCHANGED <<data, head, tail, capacity, op, pos, capa, item, alive>>
      /\ Slot(t) = Cell(pos[t], capacity) /\ Slot(t) \in DOMAIN seq
      /\ seq' = [seq EXCEPT ![Slot(t)] = pos[t] + 1]
      /\ Replies' = Replies
  BY PublishFrame
<1>3. /\ head \in Nat /\ tail \in Nat /\ pos[t] \in Nat /\ head <= pos[t] /\ pos[t] < tail
      /\ tail <= head + capacity /\ capacity \in Nat
      /\ SeqAt(pos[t]) = pos[t]
  BY <1>1, <1>2, Bounds DEF Slots, Shape, PushersFit
<1> DEFINE n == tail - head
           i == pos[t] - head + 1
<1>4. n \in Nat /\ i \in 1..n /\ head + i - 1 = pos[t]
  BY <1>3
<1>5. /\ Places = [k \in 1..n |-> PlaceOf[head + k - 1]]
      /\ Places' = [k \in 1..n |-> PlaceOf'[head + k - 1]]
  BY <1>2, <1>3, PlacesAre, PlacesWillBe
<1>6. ASSUME NEW k \in 1..n, k # i
      PROVE  Places'[k] = Places[k]
  <2>1. /\ head + k - 1 \in Window /\ head + k - 1 # pos[t]
        /\ head + k - 1 \in head..(head + capacity - 1)
    BY <1>3, <1>6 DEF Window
  <2>2. Cell(head + k - 1, capacity) # Slot(t)
    BY <1>1, <1>2, <2>1, PushSlot
  <2>3. PlaceOf'[head + k - 1] = PlaceOf[head + k - 1]
    BY <2>1, <2>2, PublishFrame
  <2> QED
    BY <1>5, <2>3
<1>7. ASSUME NEW p, p = pos[t]
      PROVE  PlaceOf'[p] = [PlaceOf[p] EXCEPT !.filled = TRUE] /\ PlaceOf[p].filled = FALSE
  <2>1. p \in Int /\ (SeqAt(p) = p + 1) = FALSE
    BY <1>3, <1>7
  <2>2. SeqAt(p)' = p + 1
    BY <1>2, <1>7 DEF SeqAt
  <2>3. Writers(p)' = Writers(p)
    BY <1>1, PublishWriters
  <2>4. ItemAt(p)' = ItemAt(p)
    <3>1. DataAt(p)' = DataAt(p) /\ item' = item
      BY <1>2 DEF DataAt
    <3> QED
      BY <2>3, <3>1, ItemFrame
  <2>5. /\ PlaceOf[p] = [item |-> ItemAt(p), filled |-> SeqAt(p) = p + 1]
        /\ PlaceOf'[p] = [item |-> ItemAt(p)', filled |-> SeqAt(p)' = p + 1]
    BY <2>1 DEF PlaceOf
  <2>6. (SeqAt(p)' = p + 1) = TRUE
    BY <2>2
  <2>7. PlaceOf[p] = [item |-> ItemAt(p), filled |-> FALSE]
    BY <2>1, <2>5
  <2>8. PlaceOf'[p] = [item |-> ItemAt(p), filled |-> TRUE]
    BY <2>4, <2>5, <2>6
  <2>9. [PlaceOf[p] EXCEPT !.filled = TRUE] = [item |-> ItemAt(p), filled |-> TRUE]
    <3>1. FALSE \in BOOLEAN /\ TRUE \in BOOLEAN
      OBVIOUS
    <3> QED
      BY <2>7, <3>1, Refilled
  <2>10. PlaceOf[p].filled = FALSE
    BY <2>7
  <2> QED
    BY <2>8, <2>9, <2>10
<1>8. Places'[i] = [Places[i] EXCEPT !.filled = TRUE] /\ Places[i].filled = FALSE
  <2>1. Places'[i] = PlaceOf'[pos[t]] /\ Places[i] = PlaceOf[pos[t]]
    BY <1>4, <1>5
  <2> QED
    BY <1>7, <2>1
<1> HIDE DEF n, i
<1>9. Places' = [Places EXCEPT ![i].filled = TRUE]
  <2>1. Places' = [Places EXCEPT ![i] = [Places[i] EXCEPT !.filled = TRUE]]
    BY <1>4, <1>5, <1>6, <1>8
  <2> QED
    BY <2>1
<1>10. i \in DOMAIN Places
  BY <1>4, <1>5
<1> QED
  BY <1>2, <1>8, <1>9, <1>10 DEF Tickets!Fill, Replies

\* That of a pop concerns no place.
LEMMA PopPublishes ==
  ASSUME IInv, Ring, alive, NEW t \in Threads, Publish(t), op[t] = "pop"
  PROVE  Places' = Places /\ Replies' = Replies
<1>1. TypeOK /\ NoStaleMap /\ Slots
  BY DEF IInv, Ring
<1>2. ASSUME NEW p \in Window
      PROVE  PlaceOf'[p] = PlaceOf[p]
  <2>1. t \in Owners /\ Slot(t) = Cell(pos[t], capacity)
    BY PublishFrame
  <2>2. p \in head..(head + capacity - 1) /\ p \in Int
    BY <1>1, Bounds DEF Window, Slots, Shape
  <2>3. p # pos[t] + capacity
    <3>1. tail <= pos[t] + capacity /\ pos[t] \in Nat
      BY <1>1, <2>1, Bounds DEF Slots, PoppersFit
    <3> QED
      BY <1>1, <3>1, Bounds DEF Window
  <2>4. Cell(p, capacity) # Slot(t)
    BY <1>1, <2>1, <2>2, <2>3, PopSlot
  <2> QED
    BY <2>4, PublishFrame
<1>3. UNCHANGED <<head, tail, alive>> /\ Replies' = Replies
  BY PublishFrame
<1> QED
  BY <1>1, <1>2, <1>3, SamePlaces

\* A resize that fits moves the object of a position to the position's new slot.
LEMMA MigratedSlot ==
  ASSUME IInv, Slots, NEW t \in Threads, Migrate(t), MigrationFits,
         NEW p \in head..(tail - 1)
  PROVE  SeqAt(p)' = p + 1 /\ DataAt(p)' = DataAt(p)
<1> DEFINE n == BitCeil(2 * capa[t])
<1>1. TypeOK /\ CapaLoaded
  BY DEF IInv
<1>2. n \in Nat \ {0}
  <2>1. capa[t] \in Nat /\ IsPowerOfTwo(capa[t])
    BY <1>1 DEF Migrate, CapaLoaded, In, TypeOK
  <2> QED
    BY <2>1, BitCeilOfDouble
<1>3. /\ capacity' = n /\ UNCHANGED <<head, tail>>
      /\ \A i \in 0..(n - 1) : seq'[i] = NewSequence(i, n)
      /\ \A i \in 0..(n - 1) :
           data'[i] = IF Youngest(i, n) < head THEN Raw ELSE data[Youngest(i, n) % capacity]
  BY DEF Migrate
<1>4. tail - head <= n
  BY <1>3 DEF MigrationFits
<1> HIDE DEF n
<1>5. p \in Int /\ tail - n <= p /\ p < tail /\ head <= p /\ ~(p < head)
  BY <1>1, <1>2, <1>4, Bounds
<1>6. Youngest(Cell(p, n), n) = p
  BY <1>1, <1>2, <1>5, YoungestOf, Bounds
<1>7. Cell(p, n) \in 0..(n - 1)
  BY <1>2, <1>5, CellType
<1>8. SeqAt(p)' = p + 1
  BY <1>3, <1>5, <1>6, <1>7 DEF SeqAt, NewSequence
<1>9. DataAt(p)' = DataAt(p)
  BY <1>3, <1>5, <1>6, <1>7 DEF DataAt, Cell
<1> QED
  BY <1>8, <1>9

\* A resize that fits is invisible.
LEMMA MigratePlaces ==
  ASSUME IInv, Ring, alive, NEW t \in Threads, Migrate(t), MigrationFits
  PROVE  Places' = Places /\ Replies' = Replies
<1>1. TypeOK /\ NoStaleMap /\ Slots /\ QuiescentResize
  BY DEF IInv, Ring
<1>2. /\ In(Critical) = {} /\ In(Critical)' = {}
      /\ UNCHANGED <<head, tail, op, alive>>
  BY <1>1 DEF Migrate, Goto, QuiescentResize, In, Critical, TypeOK
<1>3. ASSUME NEW p \in Window
      PROVE  PlaceOf'[p] = PlaceOf[p]
  <2>1. p \in Int /\ p \in head..(tail - 1)
    BY <1>1, Bounds DEF Window
  <2>2. Writers(p) = {} /\ Writers(p)' = {}
    BY <1>2 DEF Writers, Pushing, In, Critical
  <2>3. Filled(p)
    BY <1>1, <1>2, <2>1 DEF Slots, WindowFits, Filling, Owners, In, Critical
  <2>4. SeqAt(p)' = p + 1 /\ DataAt(p)' = DataAt(p)
    BY <1>1, <2>1, MigratedSlot
  <2>5. SeqAt(p)' = SeqAt(p)
    BY <2>3, <2>4 DEF Filled
  <2> QED
    BY <2>1, <2>2, <2>4, <2>5, PlaceFrame
<1>4. ASSUME NEW u \in Threads
      PROVE  Reply(u)' = Reply(u)
  BY <1>2 DEF Reply, In, Critical
<1> QED
  BY <1>1, <1>2, <1>3, <1>4, SamePlaces DEF Replies

\* The destructor discards what is queued.
LEMMA DestroyDiscards ==
  ASSUME IInv, Ring, alive, Destroy
  PROVE  Tickets!Discard
<1>1. TypeOK /\ Slots
  BY DEF IInv, Ring
<1>2. /\ \A u \in Threads : pc[u] = "idle" /\ pc'[u] = "idle"
      /\ ~alive' /\ Owners = {}
  BY DEF Destroy, Owners, In
<1>3. head \in Nat /\ tail \in Nat
  BY <1>1, Bounds
<1>4. Places = [k \in 1..(tail - head) |-> PlaceOf[head + k - 1]]
  BY <1>3, PlacesAre
<1>5. ASSUME NEW i \in DOMAIN Places
      PROVE  Places[i].filled
  <2>1. i \in 1..(tail - head)
    BY <1>4
  <2> DEFINE p == head + i - 1
  <2>2. p \in head..(tail - 1) /\ p \in Int
    BY <1>3, <2>1
  <2>3. Filled(p)
    BY <1>1, <1>2, <2>2 DEF Slots, WindowFits, Filling
  <2>4. (SeqAt(p) = p + 1) = TRUE
    BY <2>3 DEF Filled
  <2>5. Places[i] = [item |-> ItemAt(p), filled |-> SeqAt(p) = p + 1]
    BY <1>4, <2>1, <2>2 DEF PlaceOf
  <2> HIDE DEF p
  <2>6. Places[i] = [item |-> ItemAt(p), filled |-> TRUE]
    BY <2>4, <2>5
  <2> QED
    BY <2>6
<1>6. Places' = << >>
  BY <1>2 DEF Places
<1>7. \A u \in Threads : Reply(u) = -1 /\ Reply(u)' = -1
  BY <1>2 DEF Reply
<1> QED
  BY <1>5, <1>6, <1>7 DEF Tickets!Discard, Tickets!NoReply

-----------------------------------------------------------------------------
(* The refinement.                                                         *)

\* A new ring is an empty queue.
LEMMA FifoInit == Init => Tickets!Init
<1> SUFFICES ASSUME Init PROVE Tickets!Init
  OBVIOUS
<1>1. alive /\ head = 0 /\ tail = 0
  BY DEF Init
<1>2. Places = << >>
  BY <1>1, PlacesAre
<1>3. \A t \in Threads : Reply(t) = -1
  BY DEF Init, Reply
<1> QED
  BY <1>2, <1>3 DEF Tickets!Init, Tickets!NoReply

\* Each step of a thread maps to a step of the queue or to none.
LEMMA FifoStep ==
  ASSUME IInv, Ring, FInv, alive, NEW t \in Threads, Step(t), Migrate(t) => MigrationFits
  PROVE  [Tickets!Next]_(Tickets!vars)
<1>1. TypeOK /\ alive'
  BY AliveStep DEF IInv
<1>2. ItemsDiffer /\ Passed /\ Working
  BY DEF FInv, Ring
<1>3. CASE Claim(t)
  <2>1. pc[t] = "claim"
    BY <1>3 DEF Claim
  <2>2. op[t] \in {"push", "pop"}
    BY <1>2, <2>1 DEF Working
  <2>3. CASE op[t] = "push"
    <3>1. item[t] \in Items
      BY <1>1, <1>2, <2>1, <2>3 DEF Working, TypeOK
    <3> QED
      BY <1>2, <1>3, <2>3, <3>1, PushClaims DEF Tickets!Next
  <2>4. CASE op[t] = "pop"
    BY <1>3, <2>4, PopClaims DEF Tickets!Next
  <2> QED
    BY <2>2, <2>3, <2>4
<1>4. CASE Construct(t)
  BY <1>4, ConstructPlaces DEF Tickets!vars, Replies
<1>5. CASE MoveOut(t)
  BY <1>5, MoveOutPlaces DEF Tickets!vars, Replies
<1>6. CASE Publish(t)
  <2>1. op[t] \in {"push", "pop"}
    BY <1>6, PublishFrame
  <2>2. CASE op[t] = "push"
    BY <1>6, <2>2, PushPublishes DEF Tickets!Next
  <2>3. CASE op[t] = "pop"
    BY <1>6, <2>3, PopPublishes DEF Tickets!vars, Replies
  <2> QED
    BY <2>1, <2>2, <2>3
<1>7. CASE Migrate(t)
  BY <1>7, MigratePlaces DEF Tickets!vars, Replies
<1>8. CASE ~Claim(t) /\ ~Construct(t) /\ ~MoveOut(t) /\ ~Publish(t) /\ ~Migrate(t)
  <2>1. Places' = Places
    BY <1>1, <1>8, QuietPlaces
  <2>2. CASE Inspect(t)
    BY <1>2, <2>1, <2>2, InspectReplies DEF Tickets!Next, Tickets!vars, Replies
  <2>3. CASE Leave(t)
    BY <1>1, <2>1, <2>3, LeaveReplies DEF Tickets!Next, Tickets!vars, Replies
  <2>4. CASE ~Inspect(t) /\ ~Leave(t)
    BY <1>1, <1>8, <2>1, <2>4, QuietReplies DEF Tickets!vars, Replies
  <2> QED
    BY <2>2, <2>3, <2>4
<1> QED
  BY <1>3, <1>4, <1>5, <1>6, <1>7, <1>8

\* The steps FittingSpec allows.
LEMMA FittingSteps ==
  ASSUME IInv, [FittingNext]_vars
  PROVE  \/ \E t \in Threads : Step(t) /\ (Migrate(t) => MigrationFits)
         \/ Destroy \/ UNCHANGED vars
<1>1. CASE \E t \in Threads :
             \/ Call(t) \/ Attempt(t) \/ ClaimFails(t) \/ SizeHead(t)
             \/ StartResize(t) \/ Quiesce(t) \/ AllocFails(t) \/ Reopen(t) \/ Notify(t)
             \/ Migrate(t) /\ MigrationFits
  BY <1>1, FittingStep DEF IInv
<1> QED
  BY <1>1 DEF FittingNext, Destroyed

\* The abstract state is a function of the concrete one.
LEMMA SameQueue ==
  ASSUME UNCHANGED vars
  PROVE  Places' = Places /\ [t \in Threads |-> Reply(t)]' = [t \in Threads |-> Reply(t)]
<1> USE DEF vars, shared, locals
<1>1. \A p : ItemAt(p)' = ItemAt(p)
  BY DEF ItemAt, Pushing, In
<1>2. Places' = Places
  BY <1>1 DEF Places
<1>3. \A t \in Threads : Reply(t)' = Reply(t)
  BY DEF Reply, Slot
<1> QED
  BY <1>2, <1>3

\* FInv is inductive relative to the invariants of the ring.
LEMMA FInvNext == IInv /\ RInv /\ FInv /\ [FittingNext]_vars => FInv'
<1> SUFFICES ASSUME IInv, RInv, FInv, [FittingNext]_vars PROVE FInv'
  OBVIOUS
<1>1. CASE Destroy
  <2>1. /\ UNCHANGED <<seq, head, capacity, op, pos, item, pc, pushes>>
        /\ DOMAIN data' = DOMAIN data
        /\ \A i \in DOMAIN data : data'[i] \in {data[i], Raw}
    BY <1>1 DEF Destroy, locals
  <2> QED
    BY <2>1 DEF FInv, ItemsDiffer, Passed, Carrying, Claimers, In, SeqAt
<1>2. CASE UNCHANGED vars
  BY <1>2 DEF vars, shared, locals, FInv, ItemsDiffer, Passed, Carrying, Claimers, In, SeqAt
<1>3. CASE \E t \in Threads : Step(t) /\ (Migrate(t) => MigrationFits)
  <2>1. PICK t \in Threads : Step(t) /\ (Migrate(t) => MigrationFits)
    BY <1>3
  <2>2. alive /\ Ring
    BY <2>1, DeadStep DEF RInv
  <2> QED
    BY <2>1, <2>2, ItemsStep, PassedStep DEF FInv
<1> QED
  BY <1>1, <1>2, <1>3, FittingSteps

\* Every step maps to a step of the queue or to none.
LEMMA FifoNext ==
  IInv /\ RInv /\ FInv /\ [FittingNext]_vars => [Tickets!Next]_(Tickets!vars)
<1> SUFFICES ASSUME IInv, RInv, FInv, [FittingNext]_vars PROVE [Tickets!Next]_(Tickets!vars)
  OBVIOUS
<1>1. CASE Destroy
  <2>1. alive
    BY <1>1 DEF Destroy
  <2> QED
    BY <1>1, <2>1, DestroyDiscards DEF RInv, Tickets!Next
<1>2. CASE UNCHANGED vars
  BY <1>2, SameQueue DEF Tickets!vars
<1>3. CASE \E t \in Threads : Step(t) /\ (Migrate(t) => MigrationFits)
  <2>1. PICK t \in Threads : Step(t) /\ (Migrate(t) => MigrationFits)
    BY <1>3
  <2>2. alive /\ Ring
    BY <2>1, DeadStep DEF RInv
  <2> QED
    BY <2>1, <2>2, FifoStep
<1> QED
  BY <1>1, <1>2, <1>3, FittingSteps

\* The ring is a first-in-first-out queue: items leave in the order in which their
\* positions were claimed, each once, and a pop answers std::nullopt only if the
\* oldest position was not filled when it looked.
THEOREM RingIsFifo ==
  ASSUME InitialCapa >= 2
  PROVE  FittingSpec => FifoQueue
<1>1. Init => FInv /\ Tickets!Init
  BY FInvInit, FifoInit
<1>2. IInv /\ RInv /\ FInv /\ [FittingNext]_vars => FInv' /\ [Tickets!Next]_(Tickets!vars)
  BY FInvNext, FifoNext
<1>3. FittingSpec => [](IInv /\ RInv)
  BY RingInductive
<1> QED
  BY <1>1, <1>2, <1>3, PTL DEF FittingSpec, FifoQueue, Tickets!Spec
==========================================================================
