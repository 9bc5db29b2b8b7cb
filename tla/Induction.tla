------------------------------ MODULE Induction ------------------------------
(* Induction and recursion over the natural numbers, as statements about sets and  *)
(* functions: a property is the set of the numbers that have it, a step of a       *)
(* recursive definition a function.                                                *)
EXTENDS Integers, WellFoundedInduction, TLAPS

\* A set of natural numbers that is not empty has a least element.
LEMMA LeastNumber ==
  ASSUME NEW T, T \subseteq Nat, T # {}
  PROVE  \E m \in T : \A k \in T : m <= k
<1> DEFINE Below == {ss \in Nat \X Nat : ss[1] < ss[2]}
<1>1. IsWellFoundedOn(Below, Nat)
  BY NatLessThanWellFounded, Zenon DEF OpToRel
<1>2. PICK m \in T : \A k \in T : <<k, m>> \notin Below
  <2> HIDE DEF Below
  <2> QED
    BY <1>1, WFMin
<1>3. \A k \in T : ~(k < m)
  BY <1>2
<1> QED
  <2> HIDE DEF Below
  <2> QED
    BY <1>3

\* What holds for zero, and for a number's successor if it holds for the number, holds
\* for all.
LEMMA NaturalInduction ==
  ASSUME NEW T, 0 \in T, \A n \in Nat : n \in T => n + 1 \in T
  PROVE  \A n \in Nat : n \in T
<1> SUFFICES ASSUME NEW n \in Nat, n \notin T PROVE FALSE
  OBVIOUS
<1>1. PICK m \in Nat \ T : \A k \in Nat \ T : m <= k
  BY LeastNumber
<1>2. m # 0 /\ m - 1 \in Nat
  BY <1>1
<1>3. m - 1 \in T
  BY <1>1, <1>2
<1> QED
  BY <1>1, <1>2, <1>3

\* The same up to a bound.
LEMMA BoundedInduction ==
  ASSUME NEW b \in Nat, NEW T, 0 \in T,
         \A n \in Nat : n < b /\ n \in T => n + 1 \in T
  PROVE  \A n \in 0 .. b : n \in T
<1> DEFINE U == {n \in Nat : n <= b => n \in T}
<1>1. 0 \in U
  OBVIOUS
<1>2. \A n \in Nat : n \in U => n + 1 \in U
  OBVIOUS
<1>3. \A n \in Nat : n \in U
  <2> HIDE DEF U
  <2> QED
    BY <1>1, <1>2, NaturalInduction
<1> QED
  BY <1>3

-----------------------------------------------------------------------------
(* A function is determined by its first value and what follows each value: *)
(* step[i] says what comes at i after the value at i - 1.                   *)

IsRun(f, n, S, first, step) ==
  f \in [0 .. n -> S] /\ f[0] = first /\ \A i \in 1 .. n : f[i] = step[i][f[i - 1]]

LEMMA BoundedRecursion ==
  ASSUME NEW n \in Nat, NEW S, NEW first \in S, NEW step \in [1 .. n -> [S -> S]]
  PROVE  \E f : IsRun(f, n, S, first, step)
<1> DEFINE T == {m \in Nat : m <= n => \E f : IsRun(f, m, S, first, step)}
<1>1. 0 \in T
  <2>1. IsRun([i \in 0 .. 0 |-> first], 0, S, first, step)
    BY DEF IsRun
  <2> QED
    BY <2>1
<1>2. ASSUME NEW m \in Nat, m \in T PROVE m + 1 \in T
  <2> SUFFICES ASSUME m + 1 <= n PROVE \E f : IsRun(f, m + 1, S, first, step)
    OBVIOUS
  <2>1. PICK f : IsRun(f, m, S, first, step)
    BY <1>2
  <2>2. f \in [0 .. m -> S] /\ f[m] \in S
    BY <2>1 DEF IsRun
  <2>3. step[m + 1] \in [S -> S]
    OBVIOUS
  <2>4. step[m + 1][f[m]] \in S
    BY <2>2, <2>3
  <2> DEFINE g == [i \in 0 .. m + 1 |-> IF i = m + 1 THEN step[m + 1][f[m]] ELSE f[i]]
  <2>5. g \in [0 .. m + 1 -> S]
    BY <2>2, <2>4
  <2>6. \A i \in 0 .. m : g[i] = f[i]
    OBVIOUS
  <2>7. g[m + 1] = step[m + 1][g[m]]
    BY <2>6
  <2>8. ASSUME NEW i \in 1 .. m PROVE g[i] = step[i][g[i - 1]]
    BY <2>1, <2>6 DEF IsRun
  <2>9. IsRun(g, m + 1, S, first, step)
    <3>1. g[0] = first
      BY <2>1, <2>6 DEF IsRun
    <3> HIDE DEF g
    <3>2. \A i \in 1 .. m + 1 : g[i] = step[i][g[i - 1]]
      BY <2>7, <2>8
    <3> QED
      BY <2>5, <3>1, <3>2 DEF IsRun
  <2> QED
    BY <2>9
<1>3. n \in T
  <2> HIDE DEF T
  <2> QED
    BY <1>1, <1>2, NaturalInduction
<1> QED
  BY <1>3

\* Two runs agree where both are defined.
LEMMA RunsAgree ==
  ASSUME NEW m \in Nat, NEW n \in Nat, m <= n, NEW S, NEW first, NEW step, NEW f, NEW g,
         IsRun(f, m, S, first, step), IsRun(g, n, S, first, step)
  PROVE  \A i \in 0 .. m : f[i] = g[i]
<1> DEFINE T == {i \in Nat : f[i] = g[i]}
<1>1. 0 \in T
  BY DEF IsRun
<1>2. ASSUME NEW i \in Nat, i < m, i \in T PROVE i + 1 \in T
  <2>1. f[i + 1] = step[i + 1][f[i]] /\ g[i + 1] = step[i + 1][g[i]]
    BY <1>2 DEF IsRun
  <2> QED
    BY <1>2, <2>1
<1>3. \A i \in 0 .. m : i \in T
  <2> HIDE DEF T
  <2> QED
    BY <1>1, <1>2, BoundedInduction
<1> QED
  BY <1>3

\* What follows a recursive equation is a run, if it stays in S step by step.
LEMMA RunByStep ==
  ASSUME NEW n \in Nat, NEW S, NEW first \in S, NEW step \in [1 .. n -> [S -> S]], NEW f,
         f = [i \in 0 .. n |-> f[i]], f[0] = first,
         \A i \in 1 .. n : f[i - 1] \in S => f[i] = step[i][f[i - 1]]
  PROVE  IsRun(f, n, S, first, step)
<1> DEFINE T == {i \in Nat : f[i] \in S}
<1>1. 0 \in T
  OBVIOUS
<1>2. ASSUME NEW i \in Nat, i < n, i \in T PROVE i + 1 \in T
  <2>1. i + 1 \in 1 .. n /\ (i + 1) - 1 = i
    BY <1>2
  <2>2. f[i + 1] = step[i + 1][f[i]] /\ step[i + 1] \in [S -> S]
    BY <1>2, <2>1
  <2> QED
    BY <1>2, <2>2
<1>3. \A i \in 0 .. n : i \in T
  <2> HIDE DEF T
  <2> QED
    BY <1>1, <1>2, BoundedInduction
<1>4. \A i \in 0 .. n : f[i] \in S
  BY <1>3
<1>5. f \in [0 .. n -> S]
  BY <1>4
<1>6. \A i \in 1 .. n : f[i] = step[i][f[i - 1]]
  <2> TAKE i \in 1 .. n
  <2>1. i - 1 \in 0 .. n
    OBVIOUS
  <2> QED
    BY <1>4, <2>1
<1> QED
  BY <1>5, <1>6 DEF IsRun

IsEndlessRun(f, S, first, step) ==
  f \in [Nat -> S] /\ f[0] = first /\ \A n \in Nat : f[n + 1] = step[n + 1][f[n]]

\* Recursion without a bound.
LEMMA Recursion ==
  ASSUME NEW S, NEW first \in S, NEW step \in [Nat \ {0} -> [S -> S]]
  PROVE  \E f : IsEndlessRun(f, S, first, step)
<1> DEFINE g(n) == CHOOSE g : IsRun(g, n, S, first, step)
           f == [n \in Nat |-> g(n)[n]]
<1>1. ASSUME NEW n \in Nat PROVE IsRun(g(n), n, S, first, step)
  <2> DEFINE part == [i \in 1 .. n |-> step[i]]
  <2>1. part \in [1 .. n -> [S -> S]]
    OBVIOUS
  <2>2. PICK h : IsRun(h, n, S, first, part)
    BY <2>1, BoundedRecursion
  <2>3. IsRun(h, n, S, first, step)
    BY <2>2 DEF IsRun
  <2> QED
    BY <2>3, Zenon
<1>2. f \in [Nat -> S]
  <2> HIDE DEF g
  <2>1. \A n \in Nat : g(n)[n] \in S
    BY <1>1 DEF IsRun
  <2> QED
    BY <2>1
<1>3. f[0] = first
  <2> HIDE DEF g
  <2> QED
    BY <1>1 DEF IsRun
<1>4. ASSUME NEW n \in Nat PROVE f[n + 1] = step[n + 1][f[n]]
  <2>1. IsRun(g(n), n, S, first, step) /\ IsRun(g(n + 1), n + 1, S, first, step)
    BY <1>1
  <2> HIDE DEF g
  <2>2. g(n)[n] = g(n + 1)[n]
    BY <2>1, RunsAgree
  <2>3. g(n + 1)[n + 1] = step[n + 1][g(n + 1)[n]]
    BY <2>1 DEF IsRun
  <2> QED
    BY <2>2, <2>3
<1> QED
  <2> HIDE DEF f
  <2>1. IsEndlessRun(f, S, first, step)
    BY <1>2, <1>3, <1>4 DEF IsEndlessRun
  <2> QED
    BY <2>1

=============================================================================
