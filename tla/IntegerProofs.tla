--------------------------- MODULE IntegerProofs ----------------------------
(***************************************************************************)
(* Proofs about the integers of BigUint and MoreInt, for every width.      *)
(*                                                                         *)
(* A number of words stands for the sum of word i times 2^(WordBits * i).  *)
(* Each loop of the code over the words of a number is a recursive         *)
(* function of the model; Induction says that there is one, and an         *)
(* induction over the words done says what they are worth: for AddTo, the  *)
(* words of the sum below i and the carry into i are worth the words of    *)
(* the two numbers below i.  Sanitize then takes the whole number modulo   *)
(* 2^bits, which is what ModularInt promises.                              *)
(***************************************************************************)
EXTENDS MCIntegers, Induction

-----------------------------------------------------------------------------
(* Powers of two, and division with a remainder.                           *)

\* Pow2 is what its definition says.
LEMMA Pow2Recursion ==
  Pow2 = [n \in Nat |-> IF n = 0 THEN 1 ELSE 2 * Pow2[n - 1]]
<1> DEFINE step == [n \in Nat \ {0} |-> [v \in Nat |-> 2 * v]]
           Is(p) == p = [n \in Nat |-> IF n = 0 THEN 1 ELSE 2 * p[n - 1]]
<1>1. PICK p : IsEndlessRun(p, Nat, 1, step)
  <2>1. step \in [Nat \ {0} -> [Nat -> Nat]]
    OBVIOUS
  <2> HIDE DEF step
  <2> QED
    BY <2>1, Recursion
<1>5. p \in [Nat -> Nat] /\ p[0] = 1 /\ \A n \in Nat : p[n + 1] = step[n + 1][p[n]]
  BY <1>1 DEF IsEndlessRun
<1>2. \A n \in Nat : p[n] = IF n = 0 THEN 1 ELSE 2 * p[n - 1]
  <2> SUFFICES ASSUME NEW n \in Nat, n # 0 PROVE p[n] = 2 * p[n - 1]
    BY <1>5
  <2>1. n - 1 \in Nat /\ n = (n - 1) + 1
    OBVIOUS
  <2>2. p[n] = step[n][p[n - 1]]
    BY <1>5, <2>1
  <2> QED
    BY <1>5, <2>1, <2>2
<1>3. Is(p)
  BY <1>2, <1>5
<1>4. Is(CHOOSE q : Is(q))
  BY <1>3, Zenon
<1> QED
  BY <1>4, Zenon DEF Pow2

\* The first power, and the next one.
LEMMA Pow2Zero == Pow2[0] = 1
  BY Pow2Recursion

LEMMA Pow2Next == \A n \in Nat : Pow2[n + 1] = 2 * Pow2[n]
<1> SUFFICES ASSUME NEW n \in Nat PROVE Pow2[n + 1] = 2 * Pow2[n]
  OBVIOUS
<1>1. Pow2[n + 1] = 2 * Pow2[(n + 1) - 1]
  BY Pow2Recursion
<1> QED
  BY <1>1

\* Powers of two are positive.
LEMMA Pow2Type == \A n \in Nat : Pow2[n] \in Nat \ {0}
<1> DEFINE T == {n \in Nat : Pow2[n] \in Nat \ {0}}
<1>1. 0 \in T
  BY Pow2Zero
<1>2. \A n \in Nat : n \in T => n + 1 \in T
  BY Pow2Next
<1>3. \A n \in Nat : n \in T
  <2> HIDE DEF T
  <2> QED
    BY <1>1, <1>2, NaturalInduction
<1> QED
  BY <1>3

\* The product of two powers is the power of the sum.
LEMMA Pow2Sum == ASSUME NEW m \in Nat, NEW n \in Nat PROVE Pow2[m + n] = Pow2[m] * Pow2[n]
<1> DEFINE T == {k \in Nat : Pow2[m + k] = Pow2[m] * Pow2[k]}
<1>1. 0 \in T
  BY Pow2Zero, Pow2Type
<1>2. ASSUME NEW k \in Nat, k \in T PROVE k + 1 \in T
  <2>1. Pow2[m + (k + 1)] = 2 * Pow2[m + k]
    BY Pow2Next
  <2>2. Pow2[k + 1] = 2 * Pow2[k]
    BY Pow2Next
  <2> QED
    BY <1>2, <2>1, <2>2, Pow2Type
<1>3. n \in T
  <2> HIDE DEF T
  <2> QED
    BY <1>1, <1>2, NaturalInduction
<1> QED
  BY <1>3

\* Division rounds downwards and leaves a remainder.
LEMMA DivMod ==
  ASSUME NEW a \in Int, NEW b \in Nat \ {0}
  PROVE  a \div b \in Int /\ a % b \in 0 .. b - 1 /\ a = b * (a \div b) + (a % b)
  OBVIOUS

\* There is one quotient with a remainder below the divisor.
LEMMA DivUnique ==
  ASSUME NEW a \in Int, NEW b \in Nat \ {0}, NEW q \in Int, NEW r \in 0 .. b - 1, a = b * q + r
  PROVE a \div b = q /\ a % b = r
<1>1. b * (a \div b) + (a % b) = b * q + r /\ a \div b \in Int /\ a % b \in 0 .. b - 1
  BY DivMod
<1>2. ~(a \div b < q)
  <2> SUFFICES ASSUME a \div b + 1 <= q PROVE FALSE
    BY <1>1
  <2>1. b * (a \div b + 1) <= b * q
    BY <1>1
  <2> QED
    BY <1>1, <2>1
<1>3. ~(a \div b > q)
  <2> SUFFICES ASSUME q + 1 <= a \div b PROVE FALSE
    BY <1>1
  <2>1. b * (q + 1) <= b * (a \div b)
    BY <1>1
  <2> QED
    BY <1>1, <2>1
<1> QED
  BY <1>1, <1>2, <1>3

\* A multiple of the divisor leaves the remainder alone.
LEMMA ModShift ==
  ASSUME NEW a \in Int, NEW b \in Nat \ {0}, NEW k \in Int
  PROVE  (a + k * b) % b = a % b /\ (a + k * b) \div b = (a \div b) + k
<1>1. a + k * b = b * ((a \div b) + k) + (a % b)
  BY DivMod
<1> HIDE DEF WidthsAssumption
<1>2. a + k * b \in Int /\ (a \div b) + k \in Int /\ a % b \in 0 .. b - 1
  BY DivMod
<1> DEFINE c == a + k * b
           q == (a \div b) + k
           r == a % b
<1>3. c \in Int /\ q \in Int /\ r \in 0 .. b - 1 /\ c = b * q + r
  BY <1>1, <1>2
<1> HIDE DEF c, q, r
<1>4. c \div b = q /\ c % b = r
  BY <1>3, DivUnique
<1> QED
  BY <1>4 DEF c, q, r

\* What is below the divisor is its own remainder.
LEMMA RemainderItself ==
  ASSUME NEW b \in Nat \ {0}, NEW a \in 0 .. b - 1
  PROVE  a % b = a /\ a \div b = 0
<1>1. a = b * 0 + a
  OBVIOUS
<1> QED
  BY <1>1, DivUnique

-----
\* A word has two values at least.
LEMMA WordBitsType == WordBits \in Nat \ {0} /\ Base \in Nat /\ Base >= 2
<1>1. WordBits \in Nat \ {0}
  BY WidthsAssumption
<1>2. WordBits - 1 \in Nat /\ WordBits = (WordBits - 1) + 1
  BY <1>1
<1>3. Pow2[WordBits] = 2 * Pow2[WordBits - 1] /\ Pow2[WordBits - 1] \in Nat \ {0}
  BY <1>2, Pow2Next, Pow2Type
<1> QED
  BY <1>1, <1>3 DEF Base

Words(n) == [1 .. n -> 0 .. Base - 1]
P(i) == Pow2[WordBits * i]

\* The weight of the next word is Base times that of this one.
LEMMA PStep == P(0) = 1 /\ \A i \in Nat : P(i) \in Nat \ {0} /\ P(i + 1) = P(i) * Base
<1>1. WordBits * 0 = 0
  BY WordBitsType
<1>2. ASSUME NEW i \in Nat PROVE P(i) \in Nat \ {0} /\ P(i + 1) = P(i) * Base
  <2>1. WordBits * i \in Nat /\ WordBits * (i + 1) = WordBits * i + WordBits
    BY WordBitsType
  <2> QED
    BY <2>1, Pow2Type, Pow2Sum, WordBitsType DEF P, Base
<1> QED
  BY <1>1, <1>2, Pow2Zero DEF P

\* A function on 1 .. n is an array of n words.
LEMMA WordsLen == ASSUME NEW n \in Nat, NEW d \in [1 .. n -> Nat] PROVE Len(d) = n
  OBVIOUS

\* Values sums up the words, each times its weight.
LEMMA ValuesRecursion ==
  ASSUME NEW n \in Nat, NEW d \in [1 .. n -> Nat]
  PROVE  /\ Values(d) \in [0 .. n -> Nat]
         /\ Values(d)[0] = 0
         /\ \A i \in 1 .. n : Values(d)[i] = Values(d)[i - 1] + d[i] * P(i - 1)
<1> DEFINE step == [i \in 1 .. n |-> [v \in Nat |-> v + d[i] * Weight(i)]]
           Is(p) == p = [i \in 0 .. Len(d) |-> IF i = 0 THEN 0 ELSE p[i - 1] + d[i] * Weight(i)]
           F == Values(d)
<1>1. \A i \in 1 .. n : d[i] \in Nat /\ Weight(i) \in Nat /\ Weight(i) = P(i - 1)
  <2> TAKE i \in 1 .. n
  <2>1. i - 1 \in Nat
    OBVIOUS
  <2>2. P(i - 1) \in Nat
    BY <2>1, PStep
  <2> QED
    BY <2>2 DEF Weight, P
<1>2. step \in [1 .. n -> [Nat -> Nat]]
  <2>1. \A i \in 1 .. n, v \in Nat : v + d[i] * Weight(i) \in Nat
    <3> TAKE i \in 1 .. n, v \in Nat
    <3>1. d[i] * Weight(i) \in Nat
      BY <1>1
    <3> QED
      BY <3>1
  <2> QED
    BY <2>1
<1>3. \A i \in 1 .. n, v \in Nat : step[i][v] = v + d[i] * Weight(i)
  OBVIOUS
<1> HIDE DEF step
<1>4. PICK p : IsRun(p, n, Nat, 0, step)
  BY <1>2, BoundedRecursion
<1>5. p \in [0 .. n -> Nat] /\ p[0] = 0 /\ \A i \in 1 .. n : p[i] = step[i][p[i - 1]]
  BY <1>4 DEF IsRun
<1>6. \A i \in 1 .. n : p[i] = p[i - 1] + d[i] * Weight(i)
  <2> TAKE i \in 1 .. n
  <2>1. p[i - 1] \in Nat
    BY <1>5
  <2> QED
    BY <2>1, <1>3, <1>5
<1>7. Is(p)
  BY WordsLen, <1>5, <1>6
<1>8. Is(CHOOSE q : Is(q))
  BY <1>7, Zenon
<1>9. Is(F)
  BY <1>8, Zenon DEF Values
<1>10. F = [i \in 0 .. n |-> IF i = 0 THEN 0 ELSE F[i - 1] + d[i] * Weight(i)]
  BY <1>9, WordsLen
<1> HIDE DEF F, Is
<1>11. F[0] = 0 /\ \A i \in 1 .. n : F[i] = F[i - 1] + d[i] * Weight(i)
  BY <1>10
<1>12. F = [i \in 0 .. n |-> F[i]]
  BY <1>10
<1>13. IsRun(F, n, Nat, 0, step)
  BY <1>2, <1>3, <1>11, <1>12, RunByStep
<1>14. F \in [0 .. n -> Nat]
  BY <1>13 DEF IsRun
<1> QED
  BY <1>1, <1>11, <1>14 DEF F

-----------------------------------------------------------------------------
(* Products, and the value of a sequence of words.                         *)

\* Linear steps that multiply, by name.
LEMMA Products ==
  ASSUME NEW a \in Nat, NEW b \in Nat
  PROVE  a * b \in Nat
  OBVIOUS

LEMMA Distribute ==
  ASSUME NEW a \in Int, NEW b \in Int, NEW c \in Int
  PROVE  (a + b) * c = a * c + b * c /\ (a - b) * c = a * c - b * c
  OBVIOUS

LEMMA Reorder ==
  ASSUME NEW a \in Int, NEW b \in Int, NEW c \in Int
  PROVE  a * (b * c) = (a * c) * b /\ a * (b * c) = (a * b) * c
  OBVIOUS

\* Weights multiply where positions add up.
LEMMA PSum ==
  ASSUME NEW i \in Nat, NEW j \in Nat
  PROVE  P(i + j) = P(i) * P(j)
<1>1. WordBits * (i + j) = WordBits * i + WordBits * j
  BY WordBitsType
<1>2. WordBits * i \in Nat /\ WordBits * j \in Nat
  BY WordBitsType
<1> QED
  BY <1>1, <1>2, Pow2Sum DEF P

\* What an array of words is made of.
LEMMA WordsAreNumbers ==
  ASSUME NEW n \in Nat, NEW d \in Words(n)
  PROVE  d \in [1 .. n -> Nat] /\ Len(d) = n /\ \A i \in 1 .. n : d[i] \in 0 .. Base - 1
<1>1. d \in [1 .. n -> Nat]
  BY WordBitsType DEF Words
<1> QED
  BY <1>1, WordsLen, WordBitsType DEF Words

\* The first words stand for less than what one in the next would count for.
LEMMA ValuesBound ==
  ASSUME NEW n \in Nat, NEW d \in Words(n)
  PROVE  \A i \in 0 .. n : Values(d)[i] \in 0 .. P(i) - 1
<1> DEFINE V == Values(d)
           T == {i \in Nat : V[i] \in 0 .. P(i) - 1}
<1>1. d \in [1 .. n -> Nat] /\ \A i \in 1 .. n : d[i] \in 0 .. Base - 1
  BY WordsAreNumbers
<1>2. V[0] = 0 /\ \A i \in 1 .. n : V[i] = V[i - 1] + d[i] * P(i - 1)
  BY <1>1, ValuesRecursion
<1> HIDE DEF V
<1>3. 0 \in T
  BY <1>2, PStep
<1>4. ASSUME NEW i \in Nat, i < n, i \in T PROVE i + 1 \in T
  <2>1. i + 1 \in 1 .. n /\ (i + 1) - 1 = i
    BY <1>4
  <2>2. V[i + 1] = V[i] + d[i + 1] * P(i) /\ d[i + 1] \in 0 .. Base - 1
    BY <1>1, <1>2, <2>1
  <2>3. P(i) \in Nat \ {0} /\ P(i + 1) = P(i) * Base
    BY PStep
  <2>4. d[i + 1] * P(i) <= (Base - 1) * P(i) /\ d[i + 1] * P(i) \in Nat
    BY <2>2, <2>3, WordBitsType
  <2>5. (Base - 1) * P(i) = P(i + 1) - P(i) /\ P(i + 1) \in Nat
    BY <2>3, WordBitsType
  <2> QED
    BY <1>4, <2>2, <2>3, <2>4, <2>5
<1>5. \A i \in 0 .. n : i \in T
  <2> HIDE DEF T
  <2> QED
    BY <1>3, <1>4, BoundedInduction
<1> QED
  BY <1>5 DEF V

\* Words that are the same stand for the same.
LEMMA ValuesAgree ==
  ASSUME NEW n \in Nat, NEW d \in [1 .. n -> Nat], NEW m \in Nat, NEW e \in [1 .. m -> Nat],
         NEW k \in Nat, k <= m, k <= n, \A i \in 1 .. k : d[i] = e[i]
  PROVE  Values(d)[k] = Values(e)[k]
<1> DEFINE V == Values(d)
           W == Values(e)
           T == {i \in Nat : V[i] = W[i]}
<1>1. V[0] = 0 /\ \A i \in 1 .. n : V[i] = V[i - 1] + d[i] * P(i - 1)
  BY ValuesRecursion
<1>2. W[0] = 0 /\ \A i \in 1 .. m : W[i] = W[i - 1] + e[i] * P(i - 1)
  BY ValuesRecursion
<1> HIDE DEF V, W
<1>3. 0 \in T
  BY <1>1, <1>2
<1>4. ASSUME NEW i \in Nat, i < k, i \in T PROVE i + 1 \in T
  <2>1. i + 1 \in 1 .. n /\ i + 1 \in 1 .. m /\ i + 1 \in 1 .. k /\ (i + 1) - 1 = i
    BY <1>4
  <2>2. V[i + 1] = V[i] + d[i + 1] * P(i) /\ W[i + 1] = W[i] + e[i + 1] * P(i)
    BY <1>1, <1>2, <2>1
  <2> QED
    BY <1>4, <2>1, <2>2
<1>5. \A i \in 0 .. k : i \in T
  <2> HIDE DEF T
  <2> QED
    BY <1>3, <1>4, BoundedInduction
<1> QED
  BY <1>5 DEF V, W

\* What the words above the first k add is a multiple of what one of them counts for,
\* and nothing if they are zero.
LEMMA ValuesSplit ==
  ASSUME NEW n \in Nat, NEW d \in Words(n), NEW k \in 0 .. n
  PROVE  /\ \E q \in Nat : Values(d)[n] = Values(d)[k] + q * P(k)
         /\ (\A i \in k + 1 .. n : d[i] = 0) => Values(d)[n] = Values(d)[k]
<1> DEFINE V == Values(d)
           zero == \A i \in k + 1 .. n : d[i] = 0
           T == {j \in Nat : /\ \E q \in Nat : V[k + j] = V[k] + q * P(k)
                             /\ zero => V[k + j] = V[k]}
<1>1. d \in [1 .. n -> Nat] /\ \A i \in 1 .. n : d[i] \in Nat
  BY WordsAreNumbers
<1>2. V[0] = 0 /\ (\A i \in 1 .. n : V[i] = V[i - 1] + d[i] * P(i - 1)) /\ V \in [0 .. n -> Nat]
  BY <1>1, ValuesRecursion
<1> HIDE DEF V, zero
<1>3. 0 \in T
  <2>1. k + 0 = k /\ V[k] = V[k] + 0 * P(k)
    BY <1>2, PStep
  <2> QED
    BY <2>1
<1>4. ASSUME NEW j \in Nat, j < n - k, j \in T PROVE j + 1 \in T
  <2> DEFINE i == k + j
  <2>1. i + 1 \in 1 .. n /\ (i + 1) - 1 = i /\ k + (j + 1) = i + 1 /\ i + 1 \in k + 1 .. n
    BY <1>4
  <2>2. V[i + 1] = V[i] + d[i + 1] * P(i) /\ d[i + 1] \in Nat
    BY <1>1, <1>2, <2>1
  <2>3. PICK q \in Nat : V[i] = V[k] + q * P(k)
    BY <1>4
  <2>4. P(i) = P(k) * P(j) /\ P(k) \in Nat /\ P(j) \in Nat
    <3>1. k \in Nat
      OBVIOUS
    <3> QED
      BY <3>1, PSum, PStep
  <2> DEFINE c == d[i + 1] * P(j)
  <2>5. d[i + 1] * P(i) = c * P(k) /\ c \in Nat
    <3>0. d[i + 1] \in Int /\ P(k) \in Int /\ P(j) \in Int
      BY <2>2, <2>4
    <3>1. d[i + 1] * (P(k) * P(j)) = (d[i + 1] * P(j)) * P(k)
      BY <3>0, Reorder, ZenonT(30)
    <3>2. d[i + 1] * P(j) \in Nat
      BY <2>2, <2>4, Products
    <3> QED
      BY <2>4, <3>1, <3>2
  <2> HIDE DEF c
  <2>6. V[i + 1] = V[k] + (q + c) * P(k) /\ q + c \in Nat
    <3>1. (q + c) * P(k) = q * P(k) + c * P(k)
      BY <2>4, <2>5, Distribute
    <3>2. V[k] \in Nat /\ q * P(k) \in Nat /\ c * P(k) \in Nat
      BY <1>2, <2>4, <2>5
    <3> QED
      BY <2>2, <2>3, <2>5, <3>1, <3>2
  <2>7. zero => V[i + 1] = V[k]
    <3> SUFFICES ASSUME zero PROVE V[i + 1] = V[k]
      OBVIOUS
    <3>1. d[i + 1] = 0
      BY <2>1 DEF zero
    <3>2. V[i] = V[k] /\ V[k] \in Nat
      BY <1>2, <1>4
    <3>3. P(i) \in Nat
      BY <2>4
    <3> QED
      BY <2>2, <3>1, <3>2, <3>3
  <2> QED
    BY <2>1, <2>6, <2>7
<1>5. \A j \in 0 .. n - k : j \in T
  <2> HIDE DEF T
  <2> QED
    BY <1>3, <1>4, BoundedInduction
<1>6. n - k \in T /\ k + (n - k) = n
  BY <1>5
<1> QED
  BY <1>6 DEF V, zero

\* n words are worth less than the weight of word n + 1.
LEMMA ValueType ==
  ASSUME NEW n \in Nat, NEW d \in Words(n)
  PROVE  Value(d) = Values(d)[n] /\ Value(d) \in 0 .. P(n) - 1
<1>1. Value(d) = Values(d)[n]
  BY WordsAreNumbers DEF Value
<1> QED
  BY <1>1, ValuesBound

-----------------------------------------------------------------------------
(* Widths: the last word of a number keeps the bits of the width that it holds. *)

\* The words of a width: the last one is full or holds the bits that remain.
LEMMA BlockSize ==
  ASSUME NEW w \in Nat \ {0}
  PROVE  /\ block_size(w) \in Nat \ {0}
         /\ IF w % WordBits = 0 THEN w = WordBits * block_size(w)
            ELSE w = WordBits * (block_size(w) - 1) + (w % WordBits)
<1> DEFINE n == block_size(w)
           q == w \div WordBits
           r == w % WordBits
<1>1. w = WordBits * q + r /\ q \in Int /\ r \in 0 .. WordBits - 1
  BY WordBitsType, DivMod
<1>2. WordBits \in Nat \ {0} /\ w + WordBits - 1 \in Int
  BY WordBitsType
<1>3. q >= 0
  <2> SUFFICES ASSUME q <= -1 PROVE FALSE
    BY <1>1
  <2> HIDE DEF q, r
  <2>1. WordBits * (q + 1) <= 0
    BY <1>1, <1>2
  <2>2. WordBits * (q + 1) = WordBits * q + WordBits
    BY <1>1, <1>2
  <2> QED
    BY <1>1, <1>2, <2>1, <2>2
<1>4. CASE r = 0
  <2>1. q # 0
    <3> HIDE DEF q, r
    <3> QED
      BY <1>1, <1>2, <1>4
  <2>2. n = q
    <3> HIDE DEF q, r
    <3>1. w + WordBits - 1 = WordBits * q + (WordBits - 1) /\ WordBits - 1 \in 0 .. WordBits - 1
      BY <1>1, <1>2, <1>4
    <3>2. (w + WordBits - 1) \div WordBits = q
      BY <3>1, <1>1, <1>2, DivUnique
    <3> QED
      BY <3>2 DEF block_size
  <2> HIDE DEF n, q
  <2>3. n \in Nat \ {0} /\ w = WordBits * n
    BY <1>1, <1>2, <1>3, <1>4, <2>1, <2>2
  <2> QED
    BY <1>4, <2>3 DEF n
<1>5. CASE r # 0
  <2>1. n = q + 1
    <3> HIDE DEF q, r
    <3>1. WordBits * (q + 1) = WordBits * q + WordBits
      BY <1>1, <1>2
    <3>2. w + WordBits - 1 = WordBits * (q + 1) + (r - 1) /\ r - 1 \in 0 .. WordBits - 1
      BY <1>1, <1>2, <1>5, <3>1
    <3>3. (w + WordBits - 1) \div WordBits = q + 1
      BY <3>2, <1>1, <1>2, DivUnique
    <3> QED
      BY <3>3 DEF block_size
  <2> HIDE DEF n, q
  <2>2. n \in Nat \ {0} /\ w = WordBits * (n - 1) + r
    BY <1>1, <1>2, <1>3, <2>1
  <2> QED
    BY <1>5, <2>2 DEF n
<1> QED
  BY <1>4, <1>5

\* Every width is positive, takes a word at least and has a modulus.
LEMMA WidthType ==
  \A w \in Widths : w \in Nat \ {0} /\ block_size(w) \in Nat \ {0} /\ Pow2[w] \in Nat \ {0}
  BY BlockSize, WidthsAssumption, Pow2Type

\* Neither quotient nor remainder exceeds the number.
LEMMA RemainderBound ==
  ASSUME NEW a \in Nat, NEW b \in Nat \ {0}
  PROVE  a % b \in Nat /\ a % b <= a /\ a \div b \in Nat
<1>1. a \div b \in Int /\ a % b \in 0 .. b - 1 /\ a = b * (a \div b) + (a % b)
  BY DivMod
<1> DEFINE q == a \div b
           r == a % b
<1> HIDE DEF q, r
<1>2. q >= 0
  <2> SUFFICES ASSUME q + 1 <= 0 PROVE FALSE
    BY <1>1 DEF q
  <2>1. b * (q + 1) <= 0 /\ b * (q + 1) = b * q + b
    BY <1>1 DEF q
  <2> QED
    BY <1>1, <2>1 DEF q, r
<1>3. b * q \in Nat
  BY <1>1, <1>2 DEF q
<1> QED
  BY <1>1, <1>2, <1>3 DEF q, r

\* sanitize() leaves what the width can hold, and words.
LEMMA SanitizeValue ==
  ASSUME NEW w \in Widths, NEW d \in Words(block_size(w))
  PROVE  /\ Sanitize(w, d) \in Words(block_size(w))
         /\ Value(Sanitize(w, d)) = Value(d) % Pow2[w]
<1> DEFINE n == block_size(w)
           r == w % WordBits
           e == Sanitize(w, d)
<1>1. w \in Nat \ {0} /\ n \in Nat \ {0} /\ Pow2[w] \in Nat \ {0} /\ n - 1 \in Nat
  BY WidthType
<1>2. Len(d) = n /\ \A i \in 1 .. n : d[i] \in 0 .. Base - 1
  BY WordsAreNumbers, <1>1
<1>3. Value(d) = Values(d)[n] /\ Value(d) \in 0 .. P(n) - 1
  BY ValueType, <1>1
<1>4. CASE r = 0
  <2>1. e = d
    BY <1>4, <1>2 DEF Sanitize, Words
  <2>2. P(n) = Pow2[w]
    BY <1>1, <1>4, BlockSize DEF P
  <2> HIDE DEF e, n
  <2> QED
    BY <1>1, <1>3, <2>1, <2>2, RemainderItself DEF e, n
<1>5. CASE r # 0
  <2> DEFINE R == Pow2[r]
  <2>1. r \in Nat /\ w = WordBits * (n - 1) + r /\ WordBits * (n - 1) \in Nat
    BY <1>1, <1>5, BlockSize, WordBitsType
  <2>2. R \in Nat \ {0} /\ P(n - 1) \in Nat \ {0} /\ Pow2[w] = P(n - 1) * R
    BY <2>1, <1>1, Pow2Type, Pow2Sum DEF P
  <2>3. e = [d EXCEPT ![n] = d[n] % R]
    BY <1>2, <1>5 DEF Sanitize
  <2>4. d[n] \in Nat /\ d[n] % R \in 0 .. R - 1 /\ d[n] % R \in 0 .. Base - 1
    <3>1. d[n] \in 0 .. Base - 1
      BY <1>1, <1>2
    <3>2. d[n] \in Nat
      BY <3>1, WordBitsType
    <3> HIDE DEF n, R
    <3>3. d[n] % R \in 0 .. R - 1
      BY <2>2, <3>2
    <3>4. d[n] % R \in Nat /\ d[n] % R <= d[n]
      BY <2>2, <3>2, RemainderBound
    <3> QED
      BY <3>1, <3>2, <3>3, <3>4, WordBitsType
  <2>5. e \in Words(n)
    BY <2>3, <2>4 DEF Words
  <2>6. Values(e)[n] = Values(e)[n - 1] + e[n] * P(n - 1)
          /\ Values(d)[n] = Values(d)[n - 1] + d[n] * P(n - 1)
    <3>1. e \in [1 .. n -> Nat] /\ d \in [1 .. n -> Nat]
      BY <1>1, <2>5, WordsAreNumbers
    <3>2. n \in 1 .. n
      BY <1>1
    <3> HIDE DEF n, e
    <3> QED
      BY <1>1, <3>1, <3>2, ValuesRecursion
  <2>7. Values(e)[n - 1] = Values(d)[n - 1]
    <3>1. e \in [1 .. n -> Nat] /\ d \in [1 .. n -> Nat]
      BY <1>1, <2>5, WordsAreNumbers
    <3>2. \A i \in 1 .. n - 1 : e[i] = d[i]
      BY <2>3, <1>1 DEF Words
    <3>3. n - 1 <= n /\ n \in Nat /\ n - 1 \in Nat
      BY <1>1
    <3> HIDE DEF n, e
    <3> QED
      BY <3>1, <3>2, <3>3, ValuesAgree, Zenon
  <2>8. e[n] = d[n] % R
    BY <2>3, <1>1 DEF Words
  <2>9. Values(d)[n - 1] \in 0 .. P(n - 1) - 1
    BY <1>1, ValuesBound
  <2>10. Value(e) = Values(e)[n]
    BY <1>1, <2>5, ValueType
  <2> DEFINE v == Values(d)[n - 1]
             p == P(n - 1)
             low == d[n] % R
             high == d[n] \div R
  <2>11. d[n] = R * high + low /\ high \in Int /\ low \in 0 .. R - 1
    <3>1. \A t \in Nat : t = R * (t \div R) + (t % R) /\ t \div R \in Int /\ t % R \in 0 .. R - 1
      <4> HIDE DEF R
      <4> QED
        BY <2>2
    <3> QED
      BY <2>4, <3>1
  <2>12. Value(e) = v + low * p /\ Value(d) = v + d[n] * p /\ Pow2[w] = p * R
    BY <1>3, <2>2, <2>6, <2>7, <2>8, <2>10
  <2>13. v \in 0 .. p - 1 /\ p \in Nat \ {0} /\ R \in Nat \ {0} /\ d[n] \in Nat
    BY <2>2, <2>4, <2>9
  <2> DEFINE top == d[n]
  <2> HIDE DEF v, p, low, high, R, e, top
  <2>14. v + low * p \in 0 .. (p * R) - 1
    <3>1. low * p \in Nat /\ low * p <= (R - 1) * p /\ (R - 1) * p = p * R - p
      BY <2>11, <2>13
    <3> QED
      BY <3>1, <2>13
  <2>15. v + top * p = (p * R) * high + (v + low * p)
    BY <2>11, <2>13 DEF top
  <2>16. v + top * p \in Int /\ p * R \in Nat \ {0}
    BY <2>13 DEF top
  <2>17. (v + top * p) % (p * R) = v + low * p
    BY <2>11, <2>14, <2>15, <2>16, DivUnique
  <2> QED
    BY <2>5, <2>12, <2>17 DEF e, top
<1> QED
  BY <1>4, <1>5

\* sanitize: a number is worth the words it was made from, modulo the width.
LEMMA NumberValue ==
  ASSUME NEW w \in Widths, NEW d \in Words(block_size(w))
  PROVE  /\ Number(w, d).bits = w
         /\ Number(w, d).data \in Words(block_size(w))
         /\ Value(Number(w, d).data) = Value(d) % Pow2[w]
  BY SanitizeValue DEF Number

-----------------------------------------------------------------------------
(* Numbers of a width, and copies of them.                                 *)

\* Division by a product is division by one factor after the other.
LEMMA ProductRemainder ==
  ASSUME NEW v \in Nat, NEW a \in Nat \ {0}, NEW b \in Nat \ {0}
  PROVE  /\ v % (a * b) = (v % a) + ((v \div a) % b) * a
         /\ v \div (a * b) = (v \div a) \div b
<1> DEFINE q == v \div a
           r == v % a
           q2 == q \div b
           r2 == q % b
<1>1. v = a * q + r /\ q \in Nat /\ r \in 0 .. a - 1
  <2>1. v = a * q + r /\ r \in 0 .. a - 1
    OBVIOUS
  <2>2. q \in Nat
    BY RemainderBound
  <2> QED
    BY <2>1, <2>2
<1> HIDE DEF q, r
<1>2. q = b * q2 + r2 /\ q2 \in Int /\ r2 \in 0 .. b - 1
  BY <1>1, DivMod
<1> HIDE DEF q2, r2
<1>3. v = (a * b) * q2 + (r + r2 * a)
  BY <1>1, <1>2
<1>4. r + r2 * a \in 0 .. (a * b) - 1
  <2>1. r2 * a \in Nat /\ r2 * a <= (b - 1) * a /\ (b - 1) * a = a * b - a
    BY <1>2
  <2> QED
    BY <1>1, <2>1
<1>5. a * b \in Nat \ {0}
  OBVIOUS
<1> DEFINE m == a * b
           rest == r + r2 * a
<1>6. v = m * q2 + rest /\ rest \in 0 .. m - 1 /\ m \in Nat \ {0}
  BY <1>3, <1>4, <1>5
<1> HIDE DEF m, rest
<1>7. v \div m = q2 /\ v % m = rest
  BY <1>2, <1>6, DivUnique
<1> QED
  BY <1>7 DEF m, rest, q, r, q2, r2

\* The modulus of a width divides what the words of its array can hold.
LEMMA WidthDivides ==
  ASSUME NEW w \in Widths
  PROVE  \E k \in Nat \ {0} : P(block_size(w)) = k * Pow2[w]
<1> DEFINE n == block_size(w)
<1>1. w \in Nat \ {0} /\ n \in Nat \ {0} /\ w <= WordBits * n
  <2>1. w \in Nat \ {0} /\ n \in Nat \ {0}
    BY WidthType
  <2>2. CASE w % WordBits = 0
    BY <2>1, <2>2, BlockSize
  <2>3. CASE w % WordBits # 0
    <3>1. w = WordBits * (n - 1) + (w % WordBits) /\ w % WordBits \in 0 .. WordBits - 1
      BY <2>1, <2>3, BlockSize, WordBitsType
    <3>2. WordBits * (n - 1) = WordBits * n - WordBits /\ WordBits * n \in Nat
      BY <2>1, WordBitsType
    <3> QED
      BY <2>1, <3>1, <3>2, WordBitsType
  <2> QED
    BY <2>2, <2>3
<1> DEFINE s == WordBits * n - w
<1> HIDE DEF n
<1>2. s \in Nat /\ WordBits * n = s + w
  BY <1>1, WordBitsType
<1> HIDE DEF s
<1>3. P(n) = Pow2[s] * Pow2[w] /\ Pow2[s] \in Nat \ {0}
  BY <1>1, <1>2, Pow2Sum, Pow2Type DEF P
<1> QED
  BY <1>3 DEF n

\* What a word array cannot hold, the width cannot hold either.
LEMMA WrapSame ==
  ASSUME NEW w \in Widths, NEW u \in Int, NEW v \in Int, NEW k \in Int,
         u = v + k * P(block_size(w))
  PROVE  u % Pow2[w] = v % Pow2[w]
<1>1. PICK j \in Nat \ {0} : P(block_size(w)) = j * Pow2[w]
  BY WidthDivides
<1>2. Pow2[w] \in Nat \ {0}
  BY WidthType
<1> DEFINE m == Pow2[w]
<1> HIDE DEF m
<1>3. m \in Nat \ {0} /\ u = v + k * (j * m)
  BY <1>1, <1>2 DEF m
<1> DEFINE l == k * j
<1>4. u = v + l * m /\ l \in Int
  BY <1>3
<1> HIDE DEF l
<1>5. u % m = v % m
  <2>1. (v + l * m) % m = v % m
    BY <1>3, <1>4, ModShift, Zenon
  <2> QED
    BY <1>4, <2>1
<1> QED
  BY <1>5 DEF m

\* The numbers of the model are numbers of their width.
LEMMA NumbersType ==
  ASSUME NEW y \in Numbers
  PROVE  /\ y.bits \in Widths
         /\ y.data \in Words(block_size(y.bits))
         /\ Value(y.data) \in 0 .. Pow2[y.bits] - 1
<1>0. PICK w \in Widths : \E v \in 0 .. Pow2[w] - 1 :
        y = [bits |-> w, data |-> [i \in 1 .. block_size(w) |-> (v \div Weight(i)) % Base]]
  BY DEF Numbers
<1>1. PICK v \in 0 .. Pow2[w] - 1 :
        y = [bits |-> w, data |-> [i \in 1 .. block_size(w) |-> (v \div Weight(i)) % Base]]
  BY <1>0
<1> DEFINE n == block_size(w)
           d == [i \in 1 .. n |-> (v \div Weight(i)) % Base]
           V == Values(d)
<1>2. w \in Nat \ {0} /\ n \in Nat \ {0} /\ Pow2[w] \in Nat \ {0} /\ v \in Nat
  BY WidthType
<1>3. \A i \in 1 .. n : i - 1 \in Nat /\ Weight(i) = P(i - 1) /\ P(i - 1) \in Nat \ {0}
  <2> TAKE i \in 1 .. n
  <2>1. i - 1 \in Nat
    BY <1>2
  <2> QED
    BY <2>1, PStep DEF P, Weight
<1>4. d \in Words(n)
  <2>1. ASSUME NEW i \in 1 .. n PROVE (v \div Weight(i)) % Base \in 0 .. Base - 1
    <3>1. Weight(i) \in Nat \ {0}
      BY <1>3
    <3>2. v \div Weight(i) \in Int
      BY <1>2, <3>1
    <3> QED
      BY <3>2, WordBitsType
  <2> HIDE DEF n
  <2> QED
    BY <2>1 DEF Words
<1>5. \A i \in 1 .. n : d[i] = (v \div P(i - 1)) % Base
  BY <1>3
<1> HIDE DEF n, d, V
<1>6. V[0] = 0 /\ \A i \in 1 .. n : V[i] = V[i - 1] + d[i] * P(i - 1)
  BY <1>2, <1>4, WordsAreNumbers, ValuesRecursion DEF V
<1> DEFINE T == {i \in Nat : V[i] = v % P(i)}
<1>7. 0 \in T
  BY <1>2, <1>6, PStep
<1>8. ASSUME NEW i \in Nat, i < n, i \in T PROVE i + 1 \in T
  <2>1. i + 1 \in 1 .. n /\ (i + 1) - 1 = i
    BY <1>8, <1>2
  <2>2. V[i + 1] = V[i] + d[i + 1] * P(i) /\ d[i + 1] = (v \div P(i)) % Base
    BY <1>5, <1>6, <2>1
  <2>3. P(i) \in Nat \ {0} /\ Base \in Nat \ {0} /\ P(i + 1) = P(i) * Base
    BY PStep, WordBitsType
  <2>4. v % (P(i) * Base) = (v % P(i)) + ((v \div P(i)) % Base) * P(i)
    BY <1>2, <2>3, ProductRemainder
  <2> QED
    BY <1>8, <2>2, <2>3, <2>4
<1>9. \A i \in 0 .. n : i \in T
  <2> HIDE DEF T
  <2> QED
    BY <1>2, <1>7, <1>8, BoundedInduction
<1>10. Value(d) = v % P(n)
  BY <1>2, <1>4, <1>9, ValueType DEF V
<1>11. v % P(n) \in Nat /\ v % P(n) <= v
  BY <1>2, PStep, RemainderBound
<1>12. Value(d) \in 0 .. Pow2[w] - 1
  BY <1>2, <1>10, <1>11
<1>13. y.bits = w /\ y.data = d
  BY <1>1 DEF d, n
<1> QED
  BY <1>4, <1>12, <1>13 DEF n

\* Copying drops words that do not fit, a multiple of what the array can hold.
LEMMA CopyValue ==
  ASSUME NEW n \in Nat, NEW m \in Nat, NEW d \in Words(m)
  PROVE  /\ Copy(n, d) \in Words(n)
         /\ \E k \in Int : Value(Copy(n, d)) = Value(d) + k * P(n)
<1> DEFINE c == Copy(n, d)
<1>1. d \in [1 .. m -> Nat] /\ Len(d) = m /\ \A i \in 1 .. m : d[i] \in 0 .. Base - 1
  BY WordsAreNumbers
<1>2. c = [i \in 1 .. n |-> IF i <= m THEN d[i] ELSE 0]
  BY <1>1 DEF Copy
<1> HIDE DEF c
<1>3. c \in Words(n)
  BY <1>1, <1>2, WordBitsType DEF Words
<1>4. c \in [1 .. n -> Nat]
  BY <1>3, WordsAreNumbers
<1>5. Value(c) = Values(c)[n] /\ Value(d) = Values(d)[m] /\ Value(c) \in Nat /\ Value(d) \in Nat
  BY <1>3, ValueType
<1>6. CASE n <= m
  <2>1. Values(c)[n] = Values(d)[n]
    <3>1. \A i \in 1 .. n : c[i] = d[i]
      BY <1>2, <1>6
    <3>2. n <= n
      OBVIOUS
    <3> QED
      BY <1>1, <1>4, <1>6, <3>1, <3>2, ValuesAgree
  <2>2. n \in 0 .. m
    BY <1>6
  <2>3. PICK q \in Nat : Values(d)[m] = Values(d)[n] + q * P(n)
    BY <2>2, ValuesSplit
  <2>4. P(n) \in Nat
    BY PStep
  <2>5. (-q) * P(n) = -(q * P(n)) /\ -q \in Int
    BY <2>4
  <2>6. Value(c) = Value(d) + (-q) * P(n)
    BY <1>5, <2>1, <2>3, <2>4, <2>5
  <2> QED
    BY <1>3, <2>5, <2>6 DEF c
<1>7. CASE n > m
  <2>1. \A i \in 1 .. m : c[i] = d[i]
    BY <1>2, <1>7
  <2>2. Values(c)[m] = Values(d)[m]
    BY <1>1, <1>4, <1>7, <2>1, ValuesAgree
  <2>3. m \in 0 .. n /\ \A i \in m + 1 .. n : c[i] = 0
    BY <1>2, <1>7
  <2>4. Values(c)[n] = Values(c)[m]
    BY <1>3, <2>3, ValuesSplit
  <2>5. P(n) \in Nat
    BY PStep
  <2>6. Value(c) = Value(d) + 0 * P(n)
    BY <1>5, <2>2, <2>4, <2>5
  <2> QED
    BY <1>3, <2>6 DEF c
<1> QED
  BY <1>6, <1>7

-----------------------------------------------------------------------------
(* FromWord, and AddTo carries from word to word.                          *)

\* A word with zeros, or ones, above it.
LEMMA FromWordValue ==
  ASSUME NEW n \in Nat \ {0}, NEW word \in 0 .. Base - 1, NEW negative \in BOOLEAN
  PROVE  /\ FromWord(n, word, negative) \in Words(n)
         /\ Value(FromWord(n, word, negative)) =
              IF negative THEN word - Base + P(n) ELSE word
<1> DEFINE d == FromWord(n, word, negative)
           V == Values(d)
           top == IF negative THEN Base - 1 ELSE 0
<1>1. d = [i \in 1 .. n |-> IF i = 1 THEN word ELSE top]
  BY DEF FromWord
<1>2. top \in 0 .. Base - 1 /\ Base \in Nat \ {0}
  BY WordBitsType
<1> HIDE DEF d, V, top
<1>3. d \in Words(n)
  BY <1>1, <1>2 DEF Words
<1>4. V[0] = 0 /\ \A i \in 1 .. n : V[i] = V[i - 1] + d[i] * P(i - 1)
  BY <1>3, WordsAreNumbers, ValuesRecursion DEF V
<1>5. V[1] = word
  <2>1. 1 \in 1 .. n /\ 1 - 1 = 0 /\ word * 1 = word
    BY WordBitsType
  <2>2. V[1] = V[0] + d[1] * P(0)
    BY <1>4, <2>1
  <2> QED
    BY <1>1, <1>4, <2>1, <2>2, PStep
<1>6. ~negative => V[n] = word
  <2> SUFFICES ASSUME ~negative PROVE V[n] = word
    OBVIOUS
  <2>1. 1 \in 0 .. n /\ \A i \in 1 + 1 .. n : d[i] = 0
    BY <1>1 DEF top
  <2>2. V[n] = V[1]
    BY <1>3, <2>1, ValuesSplit DEF V
  <2> QED
    BY <1>5, <2>2
<1>7. negative => V[n] = word - Base + P(n)
  <2> SUFFICES ASSUME negative PROVE V[n] = word - Base + P(n)
    OBVIOUS
  <2> DEFINE T == {i \in Nat : V[i + 1] = word - Base + P(i + 1)}
  <2>1. 0 \in T
    <3>1. P(0 + 1) = P(0) * Base /\ P(0) = 1 /\ 0 + 1 = 1
      BY PStep
    <3> QED
      BY <1>2, <1>5, <3>1
  <2>2. ASSUME NEW i \in Nat, i < n - 1, i \in T PROVE i + 1 \in T
    <3>1. i + 1 + 1 \in 1 .. n /\ (i + 1 + 1) - 1 = i + 1 /\ i + 1 \in Nat /\ i + 1 + 1 # 1
      BY <2>2
    <3>2. V[i + 1 + 1] = V[i + 1] + d[i + 1 + 1] * P(i + 1)
      BY <1>4, <3>1
    <3>3. d[i + 1 + 1] = Base - 1
      BY <1>1, <3>1 DEF top
    <3>4. P(i + 1) \in Nat /\ P(i + 1 + 1) = P(i + 1) * Base
      BY <3>1, PStep
    <3>5. (Base - 1) * P(i + 1) = P(i + 1 + 1) - P(i + 1) /\ P(i + 1 + 1) \in Nat
      BY <1>2, <3>4
    <3> QED
      BY <1>2, <2>2, <3>2, <3>3, <3>4, <3>5
  <2>3. \A i \in 0 .. n - 1 : i \in T
    <3> HIDE DEF T
    <3>1. n - 1 \in Nat
      OBVIOUS
    <3> QED
      BY <2>1, <2>2, <3>1, BoundedInduction
  <2>4. n - 1 \in T /\ (n - 1) + 1 = n
    BY <2>3
  <2> QED
    BY <2>4
<1>8. Value(d) = V[n]
  BY <1>3, ValueType DEF V
<1> QED
  BY <1>3, <1>6, <1>7, <1>8 DEF d

\* The carries of add_to are those of its loop; each is zero or one.
LEMMA CarriesRecursion ==
  ASSUME NEW n \in Nat, NEW a, NEW b,
         \A i \in 1 .. n : a[i] \in 0 .. Base - 1 /\ b[i] \in 0 .. Base - 1
  PROVE  /\ Carries(a, b, n) \in [0 .. n -> {0, 1}]
         /\ Carries(a, b, n)[0] = 0
         /\ \A i \in 1 .. n :
              Carries(a, b, n)[i] = (a[i] + b[i] + Carries(a, b, n)[i - 1]) \div Base
<1> DEFINE step == [i \in 1 .. n |-> [v \in {0, 1} |-> (a[i] + b[i] + v) \div Base]]
           Is(p) == p = [i \in 0 .. n |-> IF i = 0 THEN 0 ELSE (a[i] + b[i] + p[i - 1]) \div Base]
           F == Carries(a, b, n)
<1>1. \A i \in 1 .. n, v \in {0, 1} : (a[i] + b[i] + v) \div Base \in {0, 1}
  <2> TAKE i \in 1 .. n, v \in {0, 1}
  <2> DEFINE s == a[i] + b[i] + v
             q == s \div Base
  <2>1. s \in 0 .. 2 * Base - 1
    BY WordBitsType
  <2> HIDE DEF s
  <2>2. s = Base * q + (s % Base) /\ q \in Nat /\ s % Base \in 0 .. Base - 1
    <3>1. s \in Nat /\ Base \in Nat \ {0}
      BY <2>1, WordBitsType
    <3>2. s \div Base \in Nat
      BY <3>1, RemainderBound
    <3>3. s = Base * (s \div Base) + (s % Base) /\ s % Base \in 0 .. Base - 1
      BY <3>1
    <3> QED
      BY <3>2, <3>3
  <2> HIDE DEF q
  <2>3. ~(q >= 2)
    <3> SUFFICES ASSUME q >= 2 PROVE FALSE
      OBVIOUS
    <3>1. Base * q >= Base * 2
      BY <2>2, WordBitsType
    <3> QED
      BY <2>1, <2>2, <3>1, WordBitsType
  <2> QED
    BY <2>2, <2>3 DEF s, q
<1>2. step \in [1 .. n -> [{0, 1} -> {0, 1}]]
  BY <1>1
<1>3. \A i \in 1 .. n, v \in {0, 1} : step[i][v] = (a[i] + b[i] + v) \div Base
  OBVIOUS
<1> HIDE DEF step
<1>4. PICK p : IsRun(p, n, {0, 1}, 0, step)
  BY <1>2, BoundedRecursion
<1>5. p \in [0 .. n -> {0, 1}] /\ p[0] = 0 /\ \A i \in 1 .. n : p[i] = step[i][p[i - 1]]
  BY <1>4 DEF IsRun
<1>6. \A i \in 1 .. n : p[i] = (a[i] + b[i] + p[i - 1]) \div Base
  <2> TAKE i \in 1 .. n
  <2>1. p[i - 1] \in {0, 1}
    BY <1>5
  <2> QED
    BY <2>1, <1>3, <1>5
<1>7. Is(p)
  BY <1>5, <1>6
<1>8. Is(CHOOSE q : Is(q))
  BY <1>7, Zenon
<1>9. Is(F)
  BY <1>8, Zenon DEF Carries
<1>10. F = [i \in 0 .. n |-> IF i = 0 THEN 0 ELSE (a[i] + b[i] + F[i - 1]) \div Base]
  BY <1>9
<1> HIDE DEF F, Is
<1>11. F[0] = 0 /\ \A i \in 1 .. n : F[i] = (a[i] + b[i] + F[i - 1]) \div Base
  BY <1>10
<1>12. F = [i \in 0 .. n |-> F[i]]
  BY <1>10
<1>13. IsRun(F, n, {0, 1}, 0, step)
  BY <1>2, <1>3, <1>11, <1>12, RunByStep
<1>14. F \in [0 .. n -> {0, 1}]
  BY <1>13 DEF IsRun
<1> QED
  BY <1>11, <1>14 DEF F

\* add_to: the words and the last carry make up the sum of the words added.
LEMMA AddToValue ==
  ASSUME NEW n \in Nat, NEW la \in Nat, NEW a \in Words(la), NEW lb \in Nat, NEW b \in Words(lb)
  PROVE  /\ AddTo(n, a, b) \in Words(n)
         /\ n <= la /\ n <= lb =>
              \E k \in Int : Value(AddTo(n, a, b)) = Value(a) + Value(b) + k * P(n)
<1> DEFINE common == Smaller(n, Smaller(la, lb))
           carry == Carries(a, b, common)
           d == AddTo(n, a, b)
<1>1. Len(a) = la /\ Len(b) = lb
  BY WordsAreNumbers
<1>2. common \in Nat /\ common <= n /\ common <= la /\ common <= lb
  BY DEF Smaller
<1>3. \A i \in 1 .. common : a[i] \in 0 .. Base - 1 /\ b[i] \in 0 .. Base - 1
  <2>1. \A i \in 1 .. common : i \in 1 .. la /\ i \in 1 .. lb
    BY <1>2
  <2> QED
    BY <2>1, WordsAreNumbers
<1>4. d = [i \in 1 .. n |-> IF i <= common THEN (a[i] + b[i] + carry[i - 1]) % Base
                            ELSE IF i = common + 1 THEN carry[common] ELSE 0]
  BY <1>1 DEF AddTo
<1> HIDE DEF common, d
<1>5. /\ carry \in [0 .. common -> {0, 1}] /\ carry[0] = 0
      /\ \A i \in 1 .. common : carry[i] = (a[i] + b[i] + carry[i - 1]) \div Base
  BY <1>2, <1>3, CarriesRecursion
<1> HIDE DEF carry
<1>6. ASSUME NEW i \in 1 .. common
      PROVE  /\ (a[i] + b[i] + carry[i - 1]) % Base \in 0 .. Base - 1
             /\ a[i] + b[i] + carry[i - 1] = Base * carry[i] + ((a[i] + b[i] + carry[i - 1]) % Base)
             /\ carry[i] \in {0, 1}
  <2> DEFINE s == a[i] + b[i] + carry[i - 1]
  <2>1. carry[i - 1] \in {0, 1} /\ carry[i] \in {0, 1}
    BY <1>2, <1>5
  <2>2. s \in Int
    BY <1>3, <2>1, WordBitsType
  <2>3. carry[i] = s \div Base
    BY <1>5
  <2> HIDE DEF s
  <2>4. s = Base * (s \div Base) + (s % Base) /\ s % Base \in 0 .. Base - 1
    BY <2>2, WordBitsType
  <2> QED
    BY <2>1, <2>3, <2>4 DEF s
<1>7. d \in Words(n)
  <2>1. ASSUME NEW i \in 1 .. n PROVE d[i] \in 0 .. Base - 1
    <3>1. CASE i <= common
      <4>1. i \in 1 .. common
        BY <1>2, <3>1
      <4> QED
        BY <1>4, <1>6, <3>1, <4>1
    <3>2. CASE i > common
      <4>1. carry[common] \in {0, 1}
        BY <1>2, <1>5
      <4>2. d[i] \in {0, carry[common]}
        BY <1>2, <1>4, <3>2
      <4> QED
        BY <4>1, <4>2, WordBitsType
    <3> QED
      BY <1>2, <3>1, <3>2
  <2> QED
    BY <1>4, <2>1 DEF Words
<1>8. ASSUME n <= la, n <= lb
      PROVE  \E k \in Int : Value(d) = Value(a) + Value(b) + k * P(n)
  <2>1. common = n
    BY <1>8 DEF common, Smaller
  <2> DEFINE D == Values(d)
             A == Values(a)
             B == Values(b)
             T == {i \in Nat : D[i] + carry[i] * P(i) = A[i] + B[i]}
  <2>2. /\ D \in [0 .. n -> Nat] /\ D[0] = 0 /\ \A i \in 1 .. n : D[i] = D[i - 1] + d[i] * P(i - 1)
        /\ A \in [0 .. la -> Nat] /\ A[0] = 0 /\ \A i \in 1 .. la : A[i] = A[i - 1] + a[i] * P(i - 1)
        /\ B \in [0 .. lb -> Nat] /\ B[0] = 0 /\ \A i \in 1 .. lb : B[i] = B[i - 1] + b[i] * P(i - 1)
    BY <1>7, WordsAreNumbers, ValuesRecursion
  <2>3. PICK qa \in Nat : A[la] = A[n] + qa * P(n)
    BY <1>8, ValuesSplit
  <2>4. PICK qb \in Nat : B[lb] = B[n] + qb * P(n)
    BY <1>8, ValuesSplit
  <2>5. Value(d) = D[n] /\ Value(a) = A[la] /\ Value(b) = B[lb]
    BY <1>7, ValueType
  <2> HIDE DEF D, A, B
  <2>6. 0 \in T
    <3>1. D[0] = 0 /\ A[0] = 0 /\ B[0] = 0 /\ carry[0] = 0 /\ P(0) = 1
      BY <1>5, <2>2, PStep
    <3>2. D[0] + carry[0] * P(0) = A[0] + B[0]
      BY <3>1
    <3> QED
      BY <3>2
  <2>7. ASSUME NEW i \in Nat, i < n, i \in T PROVE i + 1 \in T
    <3>1. /\ i + 1 \in 1 .. common /\ i + 1 \in 1 .. n /\ i + 1 \in 1 .. la /\ i + 1 \in 1 .. lb
          /\ (i + 1) - 1 = i
      BY <1>8, <2>1, <2>7
    <3>2. d[i + 1] = (a[i + 1] + b[i + 1] + carry[i]) % Base
      BY <1>4, <2>1, <3>1
    <3>3. a[i + 1] + b[i + 1] + carry[i] = Base * carry[i + 1] + d[i + 1]
      BY <1>6, <3>1, <3>2
    <3>4. D[i + 1] = D[i] + d[i + 1] * P(i) /\ A[i + 1] = A[i] + a[i + 1] * P(i)
            /\ B[i + 1] = B[i] + b[i + 1] * P(i)
      BY <2>2, <3>1
    <3>5. P(i) \in Nat /\ P(i + 1) = P(i) * Base
      BY PStep
    <3>6. D[i] \in Nat /\ A[i] \in Nat /\ B[i] \in Nat
      <4>1. i \in 0 .. n /\ i \in 0 .. la /\ i \in 0 .. lb
        BY <3>1
      <4> QED
        BY <2>2, <4>1
    <3>7. carry[i] \in Int /\ carry[i + 1] \in Int /\ a[i + 1] \in Int /\ b[i + 1] \in Int
            /\ d[i + 1] \in Int
      <4>0. i \in 0 .. common /\ i + 1 \in 0 .. common
        BY <1>2, <2>1, <2>7
      <4>1. carry[i] \in {0, 1} /\ carry[i + 1] \in {0, 1}
        BY <1>5, <4>0
      <4> QED
        BY SMTT(30), <4>1, <1>3, <1>7, <3>1, WordBitsType DEF Words
    <3>8. D[i] + carry[i] * P(i) = A[i] + B[i]
      BY <2>7
    <3> DEFINE p == P(i)
               ci == carry[i]
               cj == carry[i + 1]
               dj == d[i + 1]
               aj == a[i + 1]
               bj == b[i + 1]
    <3>9. p \in Int /\ ci \in Int /\ cj \in Int /\ dj \in Int /\ aj \in Int /\ bj \in Int
            /\ Base \in Int
      BY <3>5, <3>7, WordBitsType
    <3>10. aj + bj + ci = Base * cj + dj
      BY <3>3
    <3> HIDE DEF p, ci, cj, dj, aj, bj
    <3>11. dj * p + cj * (p * Base) = aj * p + bj * p + ci * p
      <4>1. (Base * cj + dj) * p = dj * p + cj * (p * Base)
        BY <3>9
      <4>2. (aj + bj + ci) * p = aj * p + bj * p + ci * p
        BY <3>9
      <4> QED
        BY <3>10, <4>1, <4>2
    <3>12. /\ d[i + 1] * P(i) + carry[i + 1] * P(i + 1) = a[i + 1] * P(i) + b[i + 1] * P(i) + carry[i] * P(i)
           /\ d[i + 1] * P(i) \in Int /\ carry[i + 1] * P(i + 1) \in Int /\ a[i + 1] * P(i) \in Int
           /\ b[i + 1] * P(i) \in Int /\ carry[i] * P(i) \in Int
      BY <3>5, <3>9, <3>11 DEF p, ci, cj, dj, aj, bj
    <3> QED
      BY <3>4, <3>6, <3>8, <3>12
  <2>8. \A i \in 0 .. n : i \in T
    <3> HIDE DEF T
    <3> QED
      BY <2>6, <2>7, BoundedInduction
  <2>9. D[n] + carry[n] * P(n) = A[n] + B[n]
    BY <2>8
  <2>10. D[n] \in Nat /\ A[n] \in Nat /\ B[n] \in Nat /\ carry[n] \in Int /\ P(n) \in Nat
    <3>1. n \in 0 .. n /\ n \in 0 .. la /\ n \in 0 .. lb /\ n \in 0 .. common
      BY <1>8, <2>1
    <3>2. carry[n] \in {0, 1}
      BY <1>5, <3>1
    <3>3. P(n) \in Nat
      BY PStep
    <3>4. D[n] \in Nat /\ A[n] \in Nat /\ B[n] \in Nat
      BY <2>2, <3>1
    <3> QED
      BY <3>2, <3>3, <3>4
  <2> DEFINE k == -carry[n] - qa - qb
             p == P(n)
             c == carry[n]
  <2>11. k \in Int /\ k * p = -(c * p) - qa * p - qb * p /\ c * p \in Int /\ qa * p \in Int
           /\ qb * p \in Int
    <3>1. c \in Int /\ p \in Nat /\ k = -c - qa - qb
      BY <2>10
    <3> HIDE DEF c, p, k
    <3> QED
      BY <3>1
  <2>12. Value(d) = Value(a) + Value(b) + k * P(n)
    <3>1. /\ Value(d) = D[n] /\ Value(a) = A[n] + qa * p /\ Value(b) = B[n] + qb * p
          /\ D[n] + c * p = A[n] + B[n] /\ D[n] \in Nat /\ A[n] \in Nat /\ B[n] \in Nat
      BY <2>3, <2>4, <2>5, <2>9, <2>10
    <3> HIDE DEF k, p, c
    <3>2. Value(d) = Value(a) + Value(b) + k * p
      BY <2>11, <3>1
    <3> QED
      BY <3>2 DEF p
  <2> QED
    BY <2>11, <2>12
<1> QED
  BY <1>7, <1>8 DEF d

-----------------------------------------------------------------------------
(* SubTo borrows from word to word.                                        *)

\* The borrows of sub_to are those of its loop.
LEMMA BorrowsRecursion ==
  ASSUME NEW n \in Nat, NEW a, NEW b
  PROVE  /\ Borrows(a, b, n) \in [0 .. n -> {0, 1}]
         /\ Borrows(a, b, n)[0] = 0
         /\ \A i \in 1 .. n :
              Borrows(a, b, n)[i] = IF a[i] < b[i] + Borrows(a, b, n)[i - 1] THEN 1 ELSE 0
<1> DEFINE step == [i \in 1 .. n |-> [v \in {0, 1} |-> IF a[i] < b[i] + v THEN 1 ELSE 0]]
           Is(p) == p = [i \in 0 .. n |->
                           IF i = 0 THEN 0 ELSE IF a[i] < b[i] + p[i - 1] THEN 1 ELSE 0]
           F == Borrows(a, b, n)
<1>2. step \in [1 .. n -> [{0, 1} -> {0, 1}]]
  OBVIOUS
<1>3. \A i \in 1 .. n, v \in {0, 1} : step[i][v] = IF a[i] < b[i] + v THEN 1 ELSE 0
  OBVIOUS
<1> HIDE DEF step
<1>4. PICK p : IsRun(p, n, {0, 1}, 0, step)
  BY <1>2, BoundedRecursion
<1>5. p \in [0 .. n -> {0, 1}] /\ p[0] = 0 /\ \A i \in 1 .. n : p[i] = step[i][p[i - 1]]
  BY <1>4 DEF IsRun
<1>6. \A i \in 1 .. n : p[i] = IF a[i] < b[i] + p[i - 1] THEN 1 ELSE 0
  <2> TAKE i \in 1 .. n
  <2>1. p[i - 1] \in {0, 1}
    BY <1>5
  <2> QED
    BY <2>1, <1>3, <1>5
<1>7. Is(p)
  BY <1>5, <1>6
<1>8. Is(CHOOSE q : Is(q))
  BY <1>7, Zenon
<1>9. Is(F)
  BY <1>8, Zenon DEF Borrows
<1>10. F = [i \in 0 .. n |-> IF i = 0 THEN 0 ELSE IF a[i] < b[i] + F[i - 1] THEN 1 ELSE 0]
  BY <1>9
<1> HIDE DEF F, Is
<1>11. F[0] = 0 /\ \A i \in 1 .. n : F[i] = IF a[i] < b[i] + F[i - 1] THEN 1 ELSE 0
  BY <1>10
<1>12. F = [i \in 0 .. n |-> F[i]]
  BY <1>10
<1>13. IsRun(F, n, {0, 1}, 0, step)
  BY <1>2, <1>3, <1>11, <1>12, RunByStep
<1>14. F \in [0 .. n -> {0, 1}]
  BY <1>13 DEF IsRun
<1> QED
  BY <1>11, <1>14 DEF F

\* sub_to: the words are the difference and what the last borrow is worth.
LEMMA SubToValue ==
  ASSUME NEW n \in Nat, NEW la \in Nat, NEW a \in Words(la), NEW lb \in Nat, NEW b \in Words(lb)
  PROVE  /\ SubTo(n, a, b) \in Words(n)
         /\ n <= la => \E k \in Int : Value(SubTo(n, a, b)) = Value(a) - Value(b) + k * P(n)
<1> DEFINE last == Smaller(n, la)
           s == Copy(last, b)
           borrow == Borrows(a, s, last)
           d == SubTo(n, a, b)
<1>1. Len(a) = la /\ Len(b) = lb
  BY WordsAreNumbers
<1>2. last \in Nat /\ last <= n /\ last <= la
  BY DEF Smaller
<1>3. s \in Words(last)
  <2> HIDE DEF last
  <2> QED
    BY <1>2, CopyValue
<1>4. \A i \in 1 .. last : a[i] \in 0 .. Base - 1 /\ s[i] \in 0 .. Base - 1
  <2>1. \A i \in 1 .. last : i \in 1 .. la
    BY <1>2
  <2> HIDE DEF last, s
  <2> QED
    BY <1>2, <1>3, <2>1, WordsAreNumbers
<1>5. d = [i \in 1 .. n |-> IF i <= last THEN (a[i] - s[i] - borrow[i - 1]) % Base
                            ELSE IF borrow[last] = 0 THEN 0 ELSE Base - 1]
  BY <1>1 DEF SubTo
<1> HIDE DEF last, s, d
<1>6. /\ borrow \in [0 .. last -> {0, 1}] /\ borrow[0] = 0
      /\ \A i \in 1 .. last : borrow[i] = IF a[i] < s[i] + borrow[i - 1] THEN 1 ELSE 0
  BY <1>2, BorrowsRecursion
<1> HIDE DEF borrow
<1>7. ASSUME NEW i \in 1 .. last
      PROVE  /\ (a[i] - s[i] - borrow[i - 1]) % Base \in 0 .. Base - 1
             /\ a[i] - s[i] - borrow[i - 1] = ((a[i] - s[i] - borrow[i - 1]) % Base) - Base * borrow[i]
             /\ borrow[i] \in {0, 1}
  <2> DEFINE t == a[i] - s[i] - borrow[i - 1]
  <2>1. borrow[i - 1] \in {0, 1} /\ borrow[i] \in {0, 1}
    BY <1>2, <1>6
  <2>2. t \in Int /\ t >= -Base /\ t <= Base - 1 /\ (t < 0 <=> borrow[i] = 1)
    BY SMTT(30), <1>4, <1>6, <2>1, WordBitsType
  <2> HIDE DEF t
  <2>3. t < 0 => t % Base = t + Base
    <3> SUFFICES ASSUME t < 0 PROVE t % Base = t + Base
      OBVIOUS
    <3>1. t + Base \in 0 .. Base - 1 /\ t = Base * (-1) + (t + Base) /\ Base \in Nat \ {0} /\ -1 \in Int
      BY <2>2, WordBitsType
    <3> QED
      BY <2>2, <3>1, DivUnique
  <2>4. t >= 0 => t % Base = t
    <3> SUFFICES ASSUME t >= 0 PROVE t % Base = t
      OBVIOUS
    <3>1. t \in 0 .. Base - 1 /\ Base \in Nat \ {0}
      BY <2>2, WordBitsType
    <3> QED
      BY <3>1, RemainderItself
  <2>5. t % Base \in 0 .. Base - 1 /\ t = (t % Base) - Base * borrow[i]
    BY <2>1, <2>2, <2>3, <2>4, WordBitsType
  <2> QED
    BY <2>1, <2>5 DEF t
<1>8. d \in Words(n)
  <2>1. ASSUME NEW i \in 1 .. n PROVE d[i] \in 0 .. Base - 1
    <3>1. CASE i <= last
      <4>1. i \in 1 .. last
        BY <1>2, <3>1
      <4> QED
        BY <1>5, <1>7, <3>1, <4>1
    <3>2. CASE i > last
      <4>1. d[i] \in {0, Base - 1}
        BY <1>2, <1>5, <3>2
      <4> QED
        BY <4>1, WordBitsType
    <3> QED
      BY <1>2, <3>1, <3>2
  <2> QED
    BY <1>5, <2>1 DEF Words
<1>9. ASSUME n <= la
      PROVE  \E k \in Int : Value(d) = Value(a) - Value(b) + k * P(n)
  <2>1. last = n
    BY <1>9 DEF last, Smaller
  <2> DEFINE D == Values(d)
             A == Values(a)
             S == Values(s)
             T == {i \in Nat : D[i] = A[i] - S[i] + borrow[i] * P(i)}
  <2>2. /\ D \in [0 .. n -> Nat] /\ D[0] = 0 /\ \A i \in 1 .. n : D[i] = D[i - 1] + d[i] * P(i - 1)
        /\ A \in [0 .. la -> Nat] /\ A[0] = 0 /\ \A i \in 1 .. la : A[i] = A[i - 1] + a[i] * P(i - 1)
        /\ S \in [0 .. n -> Nat] /\ S[0] = 0 /\ \A i \in 1 .. n : S[i] = S[i - 1] + s[i] * P(i - 1)
    <3>1. d \in [1 .. n -> Nat] /\ a \in [1 .. la -> Nat] /\ s \in [1 .. n -> Nat] /\ la \in Nat
      BY <1>3, <1>8, <2>1, WordsAreNumbers
    <3> HIDE DEF D, A, S
    <3>2. D \in [0 .. n -> Nat] /\ D[0] = 0 /\ \A i \in 1 .. n : D[i] = D[i - 1] + d[i] * P(i - 1)
      BY <3>1, ValuesRecursion DEF D
    <3>3. A \in [0 .. la -> Nat] /\ A[0] = 0 /\ \A i \in 1 .. la : A[i] = A[i - 1] + a[i] * P(i - 1)
      BY <3>1, ValuesRecursion DEF A
    <3>4. S \in [0 .. n -> Nat] /\ S[0] = 0 /\ \A i \in 1 .. n : S[i] = S[i - 1] + s[i] * P(i - 1)
      BY <3>1, ValuesRecursion DEF S
    <3> QED
      BY <3>2, <3>3, <3>4
  <2>3. PICK qa \in Nat : A[la] = A[n] + qa * P(n)
    BY <1>9, ValuesSplit
  <2>4. PICK qb \in Int : Value(s) = Value(b) + qb * P(n)
    BY <2>1, CopyValue DEF s
  <2>5. Value(d) = D[n] /\ Value(a) = A[la] /\ Value(s) = S[n]
    BY <1>3, <1>8, <2>1, ValueType
  <2>6. Value(b) \in Nat
    BY ValueType
  <2> HIDE DEF D, A, S
  <2>7. 0 \in T
    <3>1. D[0] = 0 /\ A[0] = 0 /\ S[0] = 0 /\ borrow[0] = 0 /\ P(0) = 1
      BY <1>6, <2>2, PStep
    <3>2. D[0] = A[0] - S[0] + borrow[0] * P(0)
      BY <3>1
    <3> QED
      BY <3>2
  <2>8. ASSUME NEW i \in Nat, i < n, i \in T PROVE i + 1 \in T
    <3>1. /\ i + 1 \in 1 .. last /\ i + 1 \in 1 .. n /\ i + 1 \in 1 .. la /\ (i + 1) - 1 = i
          /\ i \in 0 .. last /\ i + 1 \in 0 .. last
      BY <1>9, <2>1, <2>8
    <3>2. d[i + 1] = (a[i + 1] - s[i + 1] - borrow[i]) % Base
      BY <1>5, <2>1, <3>1
    <3>3. a[i + 1] - s[i + 1] - borrow[i] = d[i + 1] - Base * borrow[i + 1]
      BY <1>7, <3>1, <3>2
    <3>4. D[i + 1] = D[i] + d[i + 1] * P(i) /\ A[i + 1] = A[i] + a[i + 1] * P(i)
            /\ S[i + 1] = S[i] + s[i + 1] * P(i)
      BY <2>2, <3>1
    <3>5. P(i) \in Nat /\ P(i + 1) = P(i) * Base
      BY PStep
    <3>6. D[i] \in Nat /\ A[i] \in Nat /\ S[i] \in Nat
      <4>1. i \in 0 .. n /\ i \in 0 .. la
        BY <3>1
      <4> QED
        BY <2>2, <4>1
    <3>7. borrow[i] \in Int /\ borrow[i + 1] \in Int /\ a[i + 1] \in Int /\ s[i + 1] \in Int
            /\ d[i + 1] \in Int
      <4>1. borrow[i] \in {0, 1} /\ borrow[i + 1] \in {0, 1}
        BY <1>6, <3>1
      <4> QED
        BY SMTT(30), <4>1, <1>4, <1>8, <3>1, WordBitsType DEF Words
    <3>8. D[i] = A[i] - S[i] + borrow[i] * P(i)
      BY <2>8
    <3> DEFINE p == P(i)
               ci == borrow[i]
               cj == borrow[i + 1]
               dj == d[i + 1]
               aj == a[i + 1]
               bj == s[i + 1]
    <3>9. p \in Int /\ ci \in Int /\ cj \in Int /\ dj \in Int /\ aj \in Int /\ bj \in Int
            /\ Base \in Int
      BY <3>5, <3>7, WordBitsType
    <3>10. aj - bj - ci = dj - Base * cj
      BY <3>3
    <3> HIDE DEF p, ci, cj, dj, aj, bj
    <3>11. dj * p - cj * (p * Base) = aj * p - bj * p - ci * p
      <4>1. (dj - Base * cj) * p = dj * p - cj * (p * Base)
        BY <3>9
      <4>2. (aj - bj - ci) * p = aj * p - bj * p - ci * p
        BY <3>9
      <4> QED
        BY <3>10, <4>1, <4>2
    <3>12. /\ d[i + 1] * P(i) - borrow[i + 1] * P(i + 1) = a[i + 1] * P(i) - s[i + 1] * P(i) - borrow[i] * P(i)
           /\ d[i + 1] * P(i) \in Int /\ borrow[i + 1] * P(i + 1) \in Int /\ a[i + 1] * P(i) \in Int
           /\ s[i + 1] * P(i) \in Int /\ borrow[i] * P(i) \in Int
      BY <3>5, <3>9, <3>11 DEF p, ci, cj, dj, aj, bj
    <3> DEFINE dp == d[i + 1] * P(i)
               ap == a[i + 1] * P(i)
               sp == s[i + 1] * P(i)
               cp == borrow[i] * P(i)
               cq == borrow[i + 1] * P(i + 1)
    <3>13. /\ D[i + 1] = D[i] + dp /\ A[i + 1] = A[i] + ap /\ S[i + 1] = S[i] + sp
           /\ D[i] = A[i] - S[i] + cp /\ dp - cq = ap - sp - cp
           /\ dp \in Int /\ ap \in Int /\ sp \in Int /\ cp \in Int /\ cq \in Int
      BY <3>4, <3>8, <3>12
    <3>14. D[i + 1] = A[i + 1] - S[i + 1] + cq
      <4> HIDE DEF dp, ap, sp, cp, cq
      <4> QED
        BY <3>6, <3>13
    <3> QED
      BY <3>14
  <2>9. \A i \in 0 .. n : i \in T
    <3> HIDE DEF T
    <3> QED
      BY <2>7, <2>8, BoundedInduction
  <2>10. D[n] = A[n] - S[n] + borrow[n] * P(n)
    BY <2>9
  <2>11. A[n] \in Nat /\ S[n] \in Nat /\ borrow[n] \in Int /\ P(n) \in Nat
    <3>1. n \in 0 .. n /\ n \in 0 .. la /\ n \in 0 .. last
      BY <1>9, <2>1
    <3>2. borrow[n] \in {0, 1}
      BY <1>6, <3>1
    <3>3. P(n) \in Nat
      BY PStep
    <3>4. A[n] \in Nat /\ S[n] \in Nat
      BY <2>2, <3>1
    <3> QED
      BY <3>2, <3>3, <3>4
  <2> DEFINE k == borrow[n] - qa - qb
             p == P(n)
             c == borrow[n]
  <2>12. k \in Int /\ k * p = c * p - qa * p - qb * p /\ c * p \in Int /\ qa * p \in Int
           /\ qb * p \in Int
    <3>1. c \in Int /\ p \in Nat /\ k = c - qa - qb
      BY <2>11
    <3> HIDE DEF c, p, k
    <3> QED
      BY <3>1
  <2>13. Value(d) = Value(a) - Value(b) + k * P(n)
    <3>1. /\ Value(d) = D[n] /\ Value(a) = A[n] + qa * p /\ S[n] = Value(b) + qb * p
          /\ D[n] = A[n] - S[n] + c * p /\ S[n] \in Nat /\ A[n] \in Nat
      BY <2>3, <2>4, <2>5, <2>10, <2>11
    <3> HIDE DEF k, p, c
    <3>2. Value(d) = Value(a) - Value(b) + k * p
      BY <2>6, <2>12, <3>1
    <3> QED
      BY <3>2 DEF p
  <2> QED
    BY <2>12, <2>13
<1> QED
  BY <1>8, <1>9 DEF d

-----------------------------------------------------------------------------
(* A word that the loops do not reach stands for a zero, and where it is one the  *)
(* result is that of the numbers written out in all the words of the result.     *)

\* The words of a number written out.
LEMMA CopyWords ==
  ASSUME NEW n \in Nat, NEW m \in Nat, NEW d \in Words(m)
  PROVE  /\ Copy(n, d) \in Words(n) /\ Len(Copy(n, d)) = n /\ Len(d) = m
         /\ \A i \in 1 .. n : Copy(n, d)[i] = IF i <= m THEN d[i] ELSE 0
<1> DEFINE c == Copy(n, d)
<1>1. Len(d) = m
  BY WordsAreNumbers
<1>2. c = [i \in 1 .. n |-> IF i <= m THEN d[i] ELSE 0]
  BY <1>1 DEF Copy
<1>3. c \in Words(n)
  BY CopyValue
<1> HIDE DEF c
<1>4. Len(c) = n
  BY <1>3, WordsAreNumbers
<1> QED
  BY <1>1, <1>2, <1>3, <1>4 DEF c

\* Words of zero above a number leave its value alone.
LEMMA CopyLonger ==
  ASSUME NEW n \in Nat, NEW m \in Nat, m <= n, NEW d \in Words(m)
  PROVE  /\ Copy(n, d) \in Words(n) /\ Value(Copy(n, d)) = Value(d)
         /\ \A i \in 1 .. n : Copy(n, d)[i] = IF i <= m THEN d[i] ELSE 0
<1> DEFINE c == Copy(n, d)
<1>1. d \in [1 .. m -> Nat] /\ Len(d) = m
  BY WordsAreNumbers
<1>2. c = [i \in 1 .. n |-> IF i <= m THEN d[i] ELSE 0]
  BY <1>1 DEF Copy
<1>3. c \in Words(n)
  BY CopyValue
<1> HIDE DEF c
<1>4. c \in [1 .. n -> Nat]
  BY <1>3, WordsAreNumbers
<1>5. Value(c) = Values(c)[n] /\ Value(d) = Values(d)[m]
  BY <1>3, ValueType
<1>6. Values(c)[m] = Values(d)[m]
  <2>1. \A i \in 1 .. m : c[i] = d[i]
    BY <1>2
  <2>2. m <= m
    OBVIOUS
  <2> QED
    BY <1>1, <1>4, <2>1, <2>2, ValuesAgree
<1>7. Values(c)[n] = Values(c)[m]
  <2>1. m \in 0 .. n /\ \A i \in m + 1 .. n : c[i] = 0
    BY <1>2
  <2> QED
    BY <1>3, <2>1, ValuesSplit
<1> QED
  BY <1>2, <1>3, <1>5, <1>6, <1>7 DEF c

\* add_to: the carry goes into the first word that it does not add, and no further.
LEMMA AddToPadded ==
  ASSUME NEW n \in Nat, NEW la \in Nat, NEW a \in Words(la), NEW lb \in Nat, NEW b \in Words(lb),
         SumFits(n, a, b)
  PROVE  AddTo(n, a, b) = AddTo(n, Copy(n, a), Copy(n, b))
<1> DEFINE c == Copy(n, a)
           e == Copy(n, b)
           common == Smaller(n, Smaller(la, lb))
           short == Carries(a, b, common)
           long == Carries(c, e, n)
<1>1. c \in Words(n) /\ Len(c) = n /\ Len(a) = la /\ \A i \in 1 .. n : c[i] = IF i <= la THEN a[i] ELSE 0
  BY CopyWords
<1>2. e \in Words(n) /\ Len(e) = n /\ Len(b) = lb /\ \A i \in 1 .. n : e[i] = IF i <= lb THEN b[i] ELSE 0
  BY CopyWords
<1> HIDE DEF c, e
<1>3. common \in Nat /\ common <= n /\ common <= la /\ common <= lb
  BY DEF Smaller
<1>4. \A i \in 1 .. common : a[i] = c[i] /\ b[i] = e[i]
  BY <1>1, <1>2, <1>3
<1>5. \A i \in 1 .. n : c[i] \in 0 .. Base - 1 /\ e[i] \in 0 .. Base - 1
  BY <1>1, <1>2, WordsAreNumbers
<1>6. ASSUME NEW i \in common + 1 .. n PROVE c[i] = 0 /\ e[i] = 0
  <2>1. /\ \A j \in lb + 1 .. Smaller(n, la) : a[j] = 0
        /\ \A j \in la + 1 .. Smaller(n, lb) : b[j] = 0
    BY <1>1, <1>2 DEF SumFits, ZeroFrom
  <2>2. i \in 1 .. n /\ (i > la \/ i > lb)
    BY <1>3 DEF Smaller
  <2>3. CASE i > la
    <3>1. c[i] = 0
      BY <1>1, <2>2, <2>3
    <3>2. i <= lb => i \in la + 1 .. Smaller(n, lb)
      BY <2>2, <2>3 DEF Smaller
    <3> QED
      BY <1>2, <2>1, <2>2, <3>1, <3>2
  <2>4. CASE i > lb
    <3>1. e[i] = 0
      BY <1>2, <2>2, <2>4
    <3>2. i <= la => i \in lb + 1 .. Smaller(n, la)
      BY <2>2, <2>4 DEF Smaller
    <3> QED
      BY <1>1, <2>1, <2>2, <3>1, <3>2
  <2> QED
    BY <2>2, <2>3, <2>4
<1>7. AddTo(n, a, b) = [i \in 1 .. n |-> IF i <= common THEN (a[i] + b[i] + short[i - 1]) % Base
                                         ELSE IF i = common + 1 THEN short[common] ELSE 0]
  BY <1>1, <1>2 DEF AddTo
<1>8. AddTo(n, c, e) = [i \in 1 .. n |-> (c[i] + e[i] + long[i - 1]) % Base]
  <2>1. Smaller(n, Smaller(n, n)) = n
    BY DEF Smaller
  <2>2. AddTo(n, c, e) = [i \in 1 .. n |-> IF i <= n THEN (c[i] + e[i] + long[i - 1]) % Base
                                           ELSE IF i = n + 1 THEN long[n] ELSE 0]
    BY <1>1, <1>2, <2>1 DEF AddTo
  <2> QED
    BY <2>2
<1> HIDE DEF common
<1>9. /\ short \in [0 .. common -> {0, 1}] /\ short[0] = 0
      /\ \A i \in 1 .. common : short[i] = (a[i] + b[i] + short[i - 1]) \div Base
  <2>1. \A i \in 1 .. common : a[i] \in 0 .. Base - 1 /\ b[i] \in 0 .. Base - 1
    BY <1>3, <1>4, <1>5
  <2> QED
    BY <1>3, <2>1, CarriesRecursion
<1>10. /\ long \in [0 .. n -> {0, 1}] /\ long[0] = 0
       /\ \A i \in 1 .. n : long[i] = (c[i] + e[i] + long[i - 1]) \div Base
  BY <1>5, CarriesRecursion
<1> HIDE DEF short, long
<1>11. \A i \in 0 .. common : short[i] = long[i]
  <2> DEFINE T == {i \in Nat : short[i] = long[i]}
  <2>1. 0 \in T
    BY <1>9, <1>10
  <2>2. ASSUME NEW i \in Nat, i < common, i \in T PROVE i + 1 \in T
    <3>1. i + 1 \in 1 .. common /\ i + 1 \in 1 .. n /\ (i + 1) - 1 = i
      BY <1>3, <2>2
    <3>2. short[i + 1] = (a[i + 1] + b[i + 1] + short[i]) \div Base
      BY <1>9, <3>1
    <3>3. long[i + 1] = (c[i + 1] + e[i + 1] + long[i]) \div Base
      BY <1>10, <3>1
    <3>4. a[i + 1] = c[i + 1] /\ b[i + 1] = e[i + 1] /\ short[i] = long[i]
      BY <1>4, <2>2, <3>1
    <3> QED
      BY <3>2, <3>3, <3>4
  <2>3. \A i \in 0 .. common : i \in T
    <3> HIDE DEF T
    <3> QED
      BY <1>3, <2>1, <2>2, BoundedInduction
  <2> QED
    BY <2>3
<1>12. \A v \in {0, 1} : v \div Base = 0 /\ v % Base = v
  BY WordBitsType, RemainderItself
<1>13. ASSUME NEW i \in common + 1 .. n PROVE long[i] = 0
  <2>1. i \in 1 .. n /\ i - 1 \in 0 .. n
    BY <1>3
  <2>2. long[i] = (0 + 0 + long[i - 1]) \div Base /\ long[i - 1] \in {0, 1}
    BY <1>6, <1>10, <2>1
  <2> QED
    BY <1>12, <2>2
<1>14. ASSUME NEW i \in 1 .. n
       PROVE  (c[i] + e[i] + long[i - 1]) % Base =
                IF i <= common THEN (a[i] + b[i] + short[i - 1]) % Base
                ELSE IF i = common + 1 THEN short[common] ELSE 0
  <2>1. CASE i <= common
    <3>1. i \in 1 .. common /\ i - 1 \in 0 .. common
      BY <1>3, <2>1
    <3>2. a[i] = c[i] /\ b[i] = e[i] /\ short[i - 1] = long[i - 1]
      BY <1>4, <1>11, <3>1
    <3> QED
      BY <2>1, <3>2
  <2>2. CASE i > common
    <3>1. i \in common + 1 .. n /\ i - 1 \in 0 .. n
      BY <1>3, <2>2
    <3>2. c[i] = 0 /\ e[i] = 0 /\ long[i - 1] \in {0, 1}
      BY <1>6, <1>10, <3>1
    <3>3. (c[i] + e[i] + long[i - 1]) % Base = long[i - 1]
      BY <1>12, <3>2
    <3>4. CASE i = common + 1
      <4>1. i - 1 = common /\ common \in 0 .. common
        BY <1>3, <3>4
      <4> QED
        BY <1>11, <2>2, <3>3, <3>4, <4>1
    <3>5. CASE i # common + 1
      <4>1. i - 1 \in common + 1 .. n
        BY <1>3, <3>1, <3>5
      <4> QED
        BY <1>3, <1>13, <2>2, <3>3, <3>5, <4>1
    <3> QED
      BY <3>4, <3>5
  <2> QED
    BY <1>3, <2>1, <2>2
<1> QED
  BY <1>7, <1>8, <1>14 DEF c, e

\* add_to is right where no word is lost: the sum modulo what the result can hold.
LEMMA FittingSum ==
  ASSUME NEW n \in Nat, NEW la \in Nat, NEW a \in Words(la), NEW lb \in Nat, NEW b \in Words(lb),
         SumFits(n, a, b)
  PROVE  \E k \in Int : Value(AddTo(n, a, b)) = Value(a) + Value(b) + k * P(n)
<1> DEFINE c == Copy(n, a)
           e == Copy(n, b)
           p == P(n)
<1>1. AddTo(n, a, b) = AddTo(n, c, e)
  BY AddToPadded
<1>2. PICK ka \in Int : Value(c) = Value(a) + ka * p
  BY CopyValue
<1>3. PICK kb \in Int : Value(e) = Value(b) + kb * p
  BY CopyValue
<1>4. c \in Words(n) /\ e \in Words(n)
  BY CopyValue
<1> HIDE DEF c, e
<1>5. PICK k \in Int : Value(AddTo(n, c, e)) = Value(c) + Value(e) + k * p
  <2>1. n <= n
    OBVIOUS
  <2> QED
    BY <1>4, <2>1, AddToValue
<1>6. Value(a) \in Int /\ Value(b) \in Int /\ p \in Int
  BY ValueType, PStep
<1> HIDE DEF p
<1>7. ka + kb + k \in Int /\ (ka + kb + k) * p = ka * p + kb * p + k * p
        /\ ka * p \in Int /\ kb * p \in Int /\ k * p \in Int
  BY <1>6
<1>8. Value(AddTo(n, a, b)) = Value(a) + Value(b) + (ka + kb + k) * p
  BY <1>1, <1>2, <1>3, <1>5, <1>6, <1>7
<1> QED
  BY <1>7, <1>8 DEF p

\* sub_to: the borrow goes through the words that a does not have.
LEMMA SubToPadded ==
  ASSUME NEW n \in Nat, NEW la \in Nat, NEW a \in Words(la), NEW lb \in Nat, NEW b \in Words(lb),
         la <= n, DifferenceFits(n, a, b)
  PROVE  SubTo(n, a, b) = SubTo(n, Copy(n, a), b)
<1> DEFINE c == Copy(n, a)
           s == Copy(la, b)
           t == Copy(n, b)
           short == Borrows(a, s, la)
           long == Borrows(c, t, n)
<1>1. c \in Words(n) /\ Len(c) = n /\ Len(a) = la /\ \A i \in 1 .. n : c[i] = IF i <= la THEN a[i] ELSE 0
  BY CopyWords
<1>2. Len(b) = lb /\ \A i \in 1 .. n : t[i] = IF i <= lb THEN b[i] ELSE 0
  BY CopyWords
<1>3. \A i \in 1 .. la : s[i] = IF i <= lb THEN b[i] ELSE 0
  BY CopyWords
<1>4. ASSUME NEW i \in la + 1 .. n PROVE c[i] = 0 /\ t[i] = 0
  <2>1. \A j \in la + 1 .. Smaller(n, lb) : b[j] = 0
    BY <1>1, <1>2 DEF DifferenceFits, ZeroFrom
  <2>2. i \in 1 .. n /\ ~(i <= la) /\ (i <= lb => i \in la + 1 .. Smaller(n, lb))
    BY DEF Smaller
  <2> QED
    BY <1>1, <1>2, <2>1, <2>2
<1>5. SubTo(n, a, b) = [i \in 1 .. n |-> IF i <= la THEN (a[i] - s[i] - short[i - 1]) % Base
                                         ELSE IF short[la] = 0 THEN 0 ELSE Base - 1]
  <2>1. Smaller(n, Len(a)) = la
    BY <1>1 DEF Smaller
  <2> QED
    BY <2>1 DEF SubTo
<1>6. SubTo(n, c, b) = [i \in 1 .. n |-> (c[i] - t[i] - long[i - 1]) % Base]
  <2>1. Smaller(n, Len(c)) = n
    BY <1>1 DEF Smaller
  <2>2. SubTo(n, c, b) = [i \in 1 .. n |-> IF i <= n THEN (c[i] - t[i] - long[i - 1]) % Base
                                           ELSE IF long[n] = 0 THEN 0 ELSE Base - 1]
    BY <2>1 DEF SubTo
  <2> QED
    BY <2>2
<1> HIDE DEF c, s, t
<1>7. /\ short \in [0 .. la -> {0, 1}] /\ short[0] = 0
      /\ \A i \in 1 .. la : short[i] = IF a[i] < s[i] + short[i - 1] THEN 1 ELSE 0
  BY BorrowsRecursion
<1>8. /\ long \in [0 .. n -> {0, 1}] /\ long[0] = 0
      /\ \A i \in 1 .. n : long[i] = IF c[i] < t[i] + long[i - 1] THEN 1 ELSE 0
  BY BorrowsRecursion
<1> HIDE DEF short, long
<1>9. \A i \in 1 .. la : a[i] = c[i] /\ s[i] = t[i]
  BY <1>1, <1>2, <1>3
<1>10. \A i \in 0 .. la : short[i] = long[i]
  <2> DEFINE T == {i \in Nat : short[i] = long[i]}
  <2>1. 0 \in T
    BY <1>7, <1>8
  <2>2. ASSUME NEW i \in Nat, i < la, i \in T PROVE i + 1 \in T
    <3>1. i + 1 \in 1 .. la /\ i + 1 \in 1 .. n /\ (i + 1) - 1 = i
      BY <2>2
    <3>2. short[i + 1] = IF a[i + 1] < s[i + 1] + short[i] THEN 1 ELSE 0
      BY <1>7, <3>1
    <3>3. long[i + 1] = IF c[i + 1] < t[i + 1] + long[i] THEN 1 ELSE 0
      BY <1>8, <3>1
    <3>4. a[i + 1] = c[i + 1] /\ s[i + 1] = t[i + 1] /\ short[i] = long[i]
      BY <1>9, <2>2, <3>1
    <3> QED
      BY <3>2, <3>3, <3>4
  <2>3. \A i \in 0 .. la : i \in T
    <3> HIDE DEF T
    <3> QED
      BY <2>1, <2>2, BoundedInduction
  <2> QED
    BY <2>3
<1>11. \A i \in 0 .. n - la : long[la + i] = short[la]
  <2> DEFINE T == {i \in Nat : long[la + i] = short[la]}
  <2>1. 0 \in T
    BY <1>10
  <2>2. ASSUME NEW i \in Nat, i < n - la, i \in T PROVE i + 1 \in T
    <3>1. /\ la + (i + 1) \in la + 1 .. n /\ la + (i + 1) \in 1 .. n /\ (la + (i + 1)) - 1 = la + i
          /\ la \in 0 .. la
      BY <2>2
    <3>2. long[la + (i + 1)] = IF 0 < 0 + long[la + i] THEN 1 ELSE 0
      BY <1>4, <1>8, <3>1
    <3>3. long[la + i] = short[la] /\ short[la] \in {0, 1}
      BY <1>7, <2>2, <3>1
    <3> QED
      BY <3>2, <3>3
  <2>3. \A i \in 0 .. n - la : i \in T
    <3>1. n - la \in Nat
      OBVIOUS
    <3> HIDE DEF T
    <3> QED
      BY <2>1, <2>2, <3>1, BoundedInduction
  <2> QED
    BY <2>3
<1>12. (0 - 0 - 0) % Base = 0 /\ (0 - 0 - 1) % Base = Base - 1
  <2>1. 0 \in 0 .. Base - 1 /\ Base - 1 \in 0 .. Base - 1 /\ Base \in Nat \ {0}
    BY WordBitsType
  <2>2. 0 % Base = 0 /\ (Base - 1) % Base = Base - 1
    BY <2>1, RemainderItself
  <2>3. 0 - 0 - 1 = Base * (0 - 1) + (Base - 1) /\ 0 - 1 \in Int /\ 0 - 0 - 1 \in Int
    BY <2>1
  <2>4. (0 - 0 - 1) % Base = Base - 1
    BY <2>1, <2>3, DivUnique
  <2> QED
    BY <2>2, <2>4
<1>13. ASSUME NEW i \in 1 .. n
       PROVE  (c[i] - t[i] - long[i - 1]) % Base =
                IF i <= la THEN (a[i] - s[i] - short[i - 1]) % Base
                ELSE IF short[la] = 0 THEN 0 ELSE Base - 1
  <2>1. CASE i <= la
    <3>1. i \in 1 .. la /\ i - 1 \in 0 .. la
      BY <2>1
    <3>2. a[i] = c[i] /\ s[i] = t[i] /\ short[i - 1] = long[i - 1]
      BY <1>9, <1>10, <3>1
    <3> QED
      BY <2>1, <3>2
  <2>2. CASE i > la
    <3>1. i \in la + 1 .. n /\ (i - 1) - la \in 0 .. n - la /\ la + ((i - 1) - la) = i - 1 /\ la \in 0 .. la
      BY <2>2
    <3>2. c[i] = 0 /\ t[i] = 0
      BY <1>4, <3>1
    <3>3. long[i - 1] = short[la] /\ short[la] \in {0, 1}
      BY <1>7, <1>11, <3>1
    <3>4. (c[i] - t[i] - long[i - 1]) % Base = IF short[la] = 0 THEN 0 ELSE Base - 1
      BY <1>12, <3>2, <3>3
    <3> QED
      BY <2>2, <3>4
  <2> QED
    BY <2>1, <2>2
<1> QED
  BY <1>5, <1>6, <1>13 DEF c

\* sub_to is right where no word is lost: the difference modulo what the result can hold.
LEMMA FittingDifference ==
  ASSUME NEW n \in Nat, NEW la \in Nat, NEW a \in Words(la), NEW lb \in Nat, NEW b \in Words(lb),
         DifferenceFits(n, a, b)
  PROVE  \E k \in Int : Value(SubTo(n, a, b)) = Value(a) - Value(b) + k * P(n)
<1>1. CASE n <= la
  BY <1>1, SubToValue
<1>2. CASE la <= n
  <2> DEFINE c == Copy(n, a)
  <2>1. SubTo(n, a, b) = SubTo(n, c, b)
    BY <1>2, SubToPadded
  <2>2. c \in Words(n) /\ Value(c) = Value(a)
    BY <1>2, CopyLonger
  <2> HIDE DEF c
  <2>3. n <= n
    OBVIOUS
  <2>4. \E k \in Int : Value(SubTo(n, c, b)) = Value(c) - Value(b) + k * P(n)
    BY <2>2, <2>3, SubToValue
  <2> QED
    BY <2>1, <2>2, <2>4
<1> QED
  BY <1>1, <1>2

-----------------------------------------------------------------------------
(* A shift by bits: each word is moved up by the distance within a word and takes *)
(* the high bits of the word below.                                        *)

\* A word falls into k bits and the others.
LEMMA BaseParts ==
  ASSUME NEW k \in 0 .. WordBits
  PROVE  /\ Base = Pow2[k] * Pow2[WordBits - k]
         /\ Pow2[k] \in Nat \ {0} /\ Pow2[WordBits - k] \in Nat \ {0}
<1>1. k \in Nat /\ WordBits - k \in Nat /\ WordBits = k + (WordBits - k)
  BY WordBitsType
<1> QED
  BY <1>1, Pow2Sum, Pow2Type DEF Base

\* A word moved up by k bits is what leaves it at its top and what stays.
LEMMA HighLow ==
  ASSUME NEW k \in 0 .. WordBits, NEW word \in 0 .. Base - 1
  PROVE  /\ High(word, k) \in 0 .. Pow2[k] - 1
         /\ Low(word, k) = (word % Pow2[WordBits - k]) * Pow2[k]
         /\ word % Pow2[WordBits - k] \in 0 .. Pow2[WordBits - k] - 1
         /\ word * Pow2[k] = High(word, k) * Base + Low(word, k)
<1> DEFINE K == Pow2[k]
           L == Pow2[WordBits - k]
           h == word \div L
           r == word % L
<1>1. Base = K * L /\ K \in Nat \ {0} /\ L \in Nat \ {0}
  BY BaseParts
<1>2. word \in Nat /\ Base \in Nat \ {0}
  BY WordBitsType
<1> HIDE DEF K, L
<1>3. word = L * h + r /\ r \in 0 .. L - 1 /\ h \in Nat
  <2>1. word = L * h + r /\ r \in 0 .. L - 1
    BY <1>1, <1>2
  <2>2. h \in Nat
    BY <1>1, <1>2, RemainderBound
  <2> QED
    BY <2>1, <2>2
<1> HIDE DEF h, r
<1>4. h < K
  <2> SUFFICES ASSUME h >= K PROVE FALSE
    BY <1>1, <1>3
  <2>1. L * h >= L * K
    BY <1>1, <1>3
  <2> QED
    BY <1>1, <1>2, <1>3, <2>1
<1>5. word * K = Base * h + r * K
  BY <1>1, <1>3
<1>6. r * K \in 0 .. Base - 1
  <2>1. r * K \in Nat /\ r * K <= (L - 1) * K /\ (L - 1) * K = L * K - K
    BY <1>1, <1>3
  <2> QED
    BY <1>1, <2>1
<1> DEFINE wk == word * K
           rk == r * K
<1>7. wk = Base * h + rk /\ rk \in 0 .. Base - 1 /\ wk \in Int /\ h \in Int
  BY <1>1, <1>2, <1>3, <1>5, <1>6
<1> HIDE DEF wk, rk
<1>8. wk % Base = rk
  BY <1>2, <1>7, DivUnique
<1>9. High(word, k) = h /\ Low(word, k) = rk
  BY <1>8 DEF High, Low, K, L, h, wk
<1>10. wk = h * Base + rk
  BY <1>2, <1>7
<1> QED
  BY <1>1, <1>3, <1>4, <1>9, <1>10 DEF wk, rk, K, L, r

\* A shift by less than the width is one by words and one by less than a word.
LEMMA ShiftParts ==
  ASSUME NEW w \in Widths, NEW s \in Nat, s < w
  PROVE  /\ s \div WordBits \in 0 .. block_size(w) - 1
         /\ s % WordBits \in 0 .. WordBits - 1
         /\ Pow2[s] = P(s \div WordBits) * Pow2[s % WordBits]
<1> DEFINE up == s \div WordBits
           k == s % WordBits
           n == block_size(w)
<1>1. s = WordBits * up + k /\ k \in 0 .. WordBits - 1
  BY WordBitsType
<1>2. up \in Nat
  BY WordBitsType, RemainderBound
<1>3. n \in Nat \ {0} /\ w \in Nat \ {0} /\ w <= WordBits * n
  <2>1. n \in Nat \ {0} /\ w \in Nat \ {0}
    BY WidthType
  <2>2. CASE w % WordBits = 0
    BY <2>1, <2>2, BlockSize, WordBitsType
  <2>3. CASE w % WordBits # 0
    <3>1. w = WordBits * (n - 1) + (w % WordBits) /\ w % WordBits \in 0 .. WordBits - 1
      BY <2>1, <2>3, BlockSize, WordBitsType
    <3>2. WordBits * (n - 1) = WordBits * n - WordBits /\ WordBits * n \in Nat
      BY <2>1, WordBitsType
    <3> QED
      BY <2>1, <3>1, <3>2, WordBitsType
  <2> QED
    BY <2>1, <2>2, <2>3
<1> HIDE DEF up, k, n
<1>4. up < n
  <2> SUFFICES ASSUME up >= n PROVE FALSE
    BY <1>2, <1>3
  <2>1. WordBits * up >= WordBits * n
    BY <1>2, <1>3, WordBitsType
  <2>2. WordBits * up \in Nat /\ WordBits * n \in Nat
    BY <1>2, <1>3, WordBitsType
  <2> QED
    BY <1>1, <1>3, <2>1, <2>2
<1>5. Pow2[s] = P(up) * Pow2[k]
  <2>1. WordBits * up \in Nat /\ k \in Nat
    BY <1>1, <1>2, WordBitsType
  <2> QED
    BY <1>1, <2>1, Pow2Sum DEF P
<1> QED
  BY <1>1, <1>2, <1>3, <1>4, <1>5 DEF up, k, n

\* What left_shift_to computes from the words d, whether it goes to another number
\* or not: the word that ends up at i.
Raised(d, i, up, k) == Low(d[i - up], k) + IF i - up > 1 THEN High(d[i - up - 1], k) ELSE 0

\* In place, the words d after j moves.
HalfRaised(d, n, j, up, k) == [i \in 1 .. n |-> IF i > n - j THEN Raised(d, i, up, k) ELSE d[i]]

\* The array of left_shift_to after j turns of its loop.
LEMMA MovedUpRecursion ==
  ASSUME NEW n \in Nat, NEW d \in [1 .. n -> Nat], NEW up \in 0 .. n, NEW k \in 0 .. WordBits
  PROVE  /\ MovedUp(d, up, k)[0] = d
         /\ \A j \in 1 .. n - up :
              MovedUp(d, up, k)[j] = MoveUp(MovedUp(d, up, k)[j - 1], n - up - j + 1, up, k)
<1> DEFINE S == [1 .. n -> Nat]
           last == n - up
           step == [j \in 1 .. last |-> [m \in S |-> MoveUp(m, n - up - j + 1, up, k)]]
           Is(p) == p = [j \in 0 .. Len(d) - up |->
                           IF j = 0 THEN d ELSE MoveUp(p[j - 1], Len(d) - up - j + 1, up, k)]
           F == MovedUp(d, up, k)
<1>1. \A j \in 1 .. last, m \in S : MoveUp(m, n - up - j + 1, up, k) \in S
  <2> TAKE j \in 1 .. last, m \in S
  <2> DEFINE i == n - up - j + 1
  <2>1. i \in 1 .. n /\ (i > 1 => i - 1 \in 1 .. n)
    OBVIOUS
  <2>2. m[i] \in Nat /\ (i > 1 => m[i - 1] \in Nat)
    BY <2>1
  <2>3. Base \in Nat \ {0} /\ Pow2[k] \in Nat \ {0} /\ Pow2[WordBits - k] \in Nat \ {0}
    BY BaseParts, WordBitsType
  <2>4. Low(m[i], k) \in Nat
    BY <2>2, <2>3, RemainderBound DEF Low
  <2>5. i > 1 => High(m[i - 1], k) \in Nat
    BY <2>2, <2>3, RemainderBound DEF High
  <2>6. Low(m[i], k) + (IF i > 1 THEN High(m[i - 1], k) ELSE 0) \in Nat
    BY <2>4, <2>5
  <2> QED
    BY <2>6 DEF MoveUp
<1>2. step \in [1 .. last -> [S -> S]]
  BY <1>1
<1>3. \A j \in 1 .. last, m \in S : step[j][m] = MoveUp(m, n - up - j + 1, up, k)
  OBVIOUS
<1>4. last \in Nat /\ d \in S /\ Len(d) = n
  BY WordsLen
<1> HIDE DEF step, S, last
<1>5. PICK p : IsRun(p, last, S, d, step)
  BY <1>2, <1>4, BoundedRecursion
<1>6. p \in [0 .. last -> S] /\ p[0] = d /\ \A j \in 1 .. last : p[j] = step[j][p[j - 1]]
  BY <1>5 DEF IsRun
<1>7. \A j \in 1 .. last : p[j] = MoveUp(p[j - 1], n - up - j + 1, up, k)
  <2> TAKE j \in 1 .. last
  <2>1. p[j - 1] \in S
    BY <1>4, <1>6
  <2> QED
    BY <2>1, <1>3, <1>6
<1>8. Is(p)
  BY <1>4, <1>6, <1>7 DEF last
<1>9. Is(CHOOSE q : Is(q))
  BY <1>8, Zenon
<1>10. Is(F)
  BY <1>9, Zenon DEF MovedUp
<1>11. F = [j \in 0 .. last |-> IF j = 0 THEN d ELSE MoveUp(F[j - 1], n - up - j + 1, up, k)]
  BY <1>4, <1>10 DEF last
<1> HIDE DEF F, Is
<1>12. F[0] = d
  BY <1>4, <1>11
<1>13. \A j \in 1 .. last : F[j] = MoveUp(F[j - 1], n - up - j + 1, up, k)
  BY <1>4, <1>11
<1> QED
  BY <1>12, <1>13 DEF F, last

\* In place, from the highest word down, every word is read before it is overwritten.
LEMMA MovedUpWords ==
  ASSUME NEW n \in Nat, NEW d \in [1 .. n -> Nat], NEW up \in 0 .. n, NEW k \in 0 .. WordBits
  PROVE  \A j \in 0 .. n - up :
           MovedUp(d, up, k)[j] = HalfRaised(d, n, j, up, k)
<1> DEFINE F == MovedUp(d, up, k)
           Moved(j) == [i \in 1 .. n |-> IF i > n - j THEN Raised(d, i, up, k) ELSE d[i]]
           T == {j \in Nat : F[j] = Moved(j)}
<1>1. F[0] = d /\ \A j \in 1 .. n - up : F[j] = MoveUp(F[j - 1], n - up - j + 1, up, k)
  BY MovedUpRecursion
<1> HIDE DEF F
<1>2. 0 \in T
  BY <1>1
<1>3. ASSUME NEW j \in Nat, j < n - up, j \in T PROVE j + 1 \in T
  <2> DEFINE m == Moved(j)
             i == n - up - j
             new == Low(m[i], k) + IF i > 1 THEN High(m[i - 1], k) ELSE 0
  <2>1. j + 1 \in 1 .. n - up /\ n - up - (j + 1) + 1 = i /\ (j + 1) - 1 = j /\ i + up = n - j
    BY <1>3
  <2>2. F[j] = m
    BY <1>3
  <2>3. F[j + 1] = MoveUp(m, i, up, k)
    BY <1>1, <2>1, <2>2
  <2>4. MoveUp(m, i, up, k) = [m EXCEPT ![n - j] = new]
    BY <2>1 DEF MoveUp
  <2>5. i \in 1 .. n /\ i <= n - j /\ (i > 1 => i - 1 \in 1 .. n) /\ n - j \in 1 .. n
    BY <1>3
  <2>6. m[i] = d[i] /\ (i > 1 => m[i - 1] = d[i - 1])
    BY <2>5
  <2>7. new = Raised(d, n - j, up, k)
    <3>1. (n - j) - up = i
      BY <2>1
    <3> QED
      BY <2>6, <3>1 DEF Raised
  <2> HIDE DEF new, i
  <2>8. [m EXCEPT ![n - j] = new] = Moved(j + 1)
    <3>1. \A l \in 1 .. n : l > n - (j + 1) <=> l = n - j \/ l > n - j
      BY <2>5
    <3>2. \A l \in 1 .. n : [m EXCEPT ![n - j] = new][l] = IF l = n - j THEN new ELSE m[l]
      OBVIOUS
    <3> QED
      BY <2>5, <2>7, <3>1, <3>2
  <2>9. F[j + 1] = Moved(j + 1)
    BY <2>3, <2>4, <2>8
  <2> QED
    BY <2>9
<1>4. \A j \in 0 .. n - up : j \in T
  <2>1. n - up \in Nat
    OBVIOUS
  <2> HIDE DEF T
  <2> QED
    BY <1>2, <1>3, <2>1, BoundedInduction
<1> QED
  BY <1>4 DEF F, HalfRaised

-----------------------------------------------------------------------------
(* ShiftLeft in place.                                                     *)

\* In place or apart, left_shift_to computes the same.
LEMMA ShiftLeftWords ==
  ASSUME NEW n \in Nat, NEW d \in [1 .. n -> Nat], NEW s \in Nat, s \div WordBits \in 0 .. n
  PROVE  \A e \in {ShiftLeft(d, s), ShiftLeftApart(d, s)} :
           e = [i \in 1 .. n |-> IF i <= s \div WordBits THEN 0
                                 ELSE Raised(d, i, s \div WordBits, s % WordBits)]
<1> DEFINE up == s \div WordBits
           k == s % WordBits
           e == [i \in 1 .. n |-> IF i <= up THEN 0 ELSE Raised(d, i, up, k)]
           m == [i \in 1 .. n |-> IF i > n - (n - up) THEN Raised(d, i, up, k) ELSE d[i]]
<1>1. Len(d) = n /\ DOMAIN d = 1 .. n
  BY WordsLen
<1>2. up \in 0 .. n /\ k \in 0 .. WordBits /\ n - up \in 0 .. n - up /\ n - (n - up) = up
  BY WordBitsType
<1>3. MovedUp(d, up, k)[n - up] = m
  <2>1. \A j \in 0 .. n - up :
          MovedUp(d, up, k)[j] = HalfRaised(d, n, j, up, k)
    <3> HIDE DEF up, k
    <3> QED
      BY <1>2, MovedUpWords
  <2> HIDE DEF up, k
  <2> QED
    BY <1>2, <2>1 DEF HalfRaised
<1>4. ShiftLeft(d, s) = ClearLow(m, up)
  BY <1>1, <1>3 DEF ShiftLeft
<1>5. ClearLow(m, up) = e
  <2>1. ClearLow(m, up) = [i \in 1 .. n |-> IF i <= up THEN 0 ELSE m[i]]
    BY DEF ClearLow
  <2>2. \A i \in 1 .. n : i > up => m[i] = Raised(d, i, up, k)
    BY <1>2
  <2> HIDE DEF m
  <2>3. \A i \in 1 .. n : (IF i <= up THEN 0 ELSE m[i]) = IF i <= up THEN 0 ELSE Raised(d, i, up, k)
    BY <1>2, <2>2
  <2> QED
    BY <2>1, <2>3
<1>6. ShiftLeftApart(d, s) = e
  BY <1>1 DEF ShiftLeftApart, Raised
<1> QED
  BY <1>4, <1>5, <1>6

\* A shift to the left multiplies, apart from what leaves the array, whether it works in
\* place or not.
LEMMA ShiftLeftValue ==
  ASSUME NEW w \in Widths, NEW d \in Words(block_size(w)), NEW s \in Nat, s < w,
         NEW e \in {ShiftLeft(d, s), ShiftLeftApart(d, s)}
  PROVE  /\ e \in Words(block_size(w))
         /\ \E q \in Int : Value(e) = Value(d) * Pow2[s] + q * P(block_size(w))
<1> DEFINE n == block_size(w)
           up == s \div WordBits
           k == s % WordBits
           K == Pow2[k]
           L == Pow2[WordBits - k]
           H(j) == IF j > 0 THEN High(d[j], k) ELSE 0
           D == Values(d)
           E == Values(e)
<1>1. n \in Nat \ {0}
  BY WidthType
<1>2. up \in 0 .. n - 1 /\ k \in 0 .. WordBits - 1 /\ Pow2[s] = P(up) * K
  BY ShiftParts
<1>3. d \in [1 .. n -> Nat] /\ \A i \in 1 .. n : d[i] \in 0 .. Base - 1
  BY <1>1, WordsAreNumbers
<1>4. e = [i \in 1 .. n |-> IF i <= up THEN 0 ELSE Raised(d, i, up, k)]
  <2>1. up \in 0 .. n
    BY <1>1, <1>2
  <2> QED
    BY <1>1, <1>3, <2>1, ShiftLeftWords
<1>5. k \in 0 .. WordBits
  BY <1>2, WordBitsType
<1> HIDE DEF n, up, k
<1>6. Base = K * L /\ K \in Nat \ {0} /\ L \in Nat \ {0}
  BY <1>5, BaseParts
<1>7. ASSUME NEW i \in 1 .. n
      PROVE  /\ High(d[i], k) \in 0 .. K - 1
             /\ Low(d[i], k) = (d[i] % L) * K /\ d[i] % L \in 0 .. L - 1
             /\ d[i] * K = High(d[i], k) * Base + Low(d[i], k)
  BY <1>3, <1>5, HighLow
<1>8. \A j \in 0 .. n : H(j) \in 0 .. K - 1
  BY <1>6, <1>7
<1>9. ASSUME NEW i \in 1 .. n, i > up
      PROVE  e[i] = Low(d[i - up], k) + H(i - up - 1) /\ i - up \in 1 .. n
               /\ i - up - 1 \in 0 .. n
  <2>1. i - up \in 1 .. n /\ i - up - 1 \in 0 .. n /\ (i - up > 1 <=> i - up - 1 > 0)
    BY <1>1, <1>2, <1>9
  <2>2. e[i] = Raised(d, i, up, k)
    BY <1>2, <1>4, <1>9
  <2> QED
    BY <2>1, <2>2 DEF Raised
<1> HIDE DEF K, L, H
<1>10. e \in Words(n)
  <2>1. ASSUME NEW i \in 1 .. n, i > up PROVE e[i] \in 0 .. Base - 1
    <3> DEFINE r == d[i - up] % L
               h == H(i - up - 1)
    <3>1. e[i] = r * K + h /\ r \in 0 .. L - 1 /\ h \in 0 .. K - 1
      BY <1>7, <1>8, <1>9, <2>1
    <3> HIDE DEF r, h
    <3>2. r * K \in Nat /\ r * K <= (L - 1) * K /\ (L - 1) * K = K * L - K
      BY <1>6, <3>1
    <3> QED
      BY <1>6, <3>1, <3>2
  <2>2. ASSUME NEW i \in 1 .. n PROVE e[i] \in 0 .. Base - 1
    <3>1. CASE i > up
      BY <2>1, <3>1
    <3>2. CASE i <= up
      BY <1>4, <3>2, WordBitsType
    <3> QED
      BY <1>2, <3>1, <3>2
  <2> QED
    BY <1>4, <2>2 DEF Words
<1>11. /\ E \in [0 .. n -> Nat] /\ E[0] = 0 /\ \A i \in 1 .. n : E[i] = E[i - 1] + e[i] * P(i - 1)
       /\ D \in [0 .. n -> Nat] /\ D[0] = 0 /\ \A i \in 1 .. n : D[i] = D[i - 1] + d[i] * P(i - 1)
  BY <1>1, <1>3, <1>10, WordsAreNumbers, ValuesRecursion
<1>12. Value(e) = E[n] /\ Value(d) = D[n]
  BY <1>1, <1>10, ValueType DEF n
<1> HIDE DEF D, E
<1>13. E[up] = 0
  <2> DEFINE T == {i \in Nat : E[i] = 0}
  <2>1. 0 \in T
    BY <1>11
  <2>2. ASSUME NEW i \in Nat, i < up, i \in T PROVE i + 1 \in T
    <3>1. i + 1 \in 1 .. n /\ (i + 1) - 1 = i /\ i + 1 <= up
      BY <1>1, <1>2, <2>2
    <3>2. E[i + 1] = E[i] + e[i + 1] * P(i) /\ e[i + 1] = 0 /\ P(i) \in Nat
      BY <1>4, <1>11, <3>1, PStep
    <3> QED
      BY <2>2, <3>2
  <2>3. up \in Nat
    BY <1>2
  <2>4. \A i \in 0 .. up : i \in T
    <3> HIDE DEF T
    <3> QED
      BY <2>1, <2>2, <2>3, BoundedInduction
  <2> QED
    BY <2>3, <2>4
<1> DEFINE Q == Pow2[s]
           T == {j \in Nat : E[up + j] + H(j) * P(up + j) = D[j] * Q}
<1>14. Q = P(up) * K /\ Q \in Nat
  BY <1>2, Pow2Type DEF K
<1> HIDE DEF Q
<1>15. 0 \in T
  <2>1. up + 0 = up /\ H(0) = 0 /\ P(up) \in Nat
    BY <1>2, PStep DEF H
  <2>2. E[up + 0] + H(0) * P(up + 0) = D[0] * Q
    BY <1>11, <1>13, <1>14, <2>1
  <2> QED
    BY <2>2
<1>16. ASSUME NEW j \in Nat, j < n - up, j \in T PROVE j + 1 \in T
  <2> DEFINE i == up + j
  <2>1. /\ i \in Nat /\ i + 1 \in 1 .. n /\ i \in 0 .. n /\ (i + 1) - 1 = i /\ i + 1 > up
          /\ (i + 1) - up = j + 1
        /\ up + (j + 1) = i + 1 /\ j \in 0 .. n /\ j + 1 \in 1 .. n /\ j + 1 \in 0 .. n
        /\ (i + 1) - up - 1 = j /\ (j + 1) - 1 = j /\ j + 1 > 0 /\ up \in Nat
    BY <1>1, <1>2, <1>16
  <2>2. e[i + 1] = Low(d[j + 1], k) + H(j)
    BY <1>9, <2>1
  <2>3. d[j + 1] * K = H(j + 1) * Base + Low(d[j + 1], k)
    BY <1>7, <2>1 DEF H
  <2>4. E[i + 1] = E[i] + e[i + 1] * P(i) /\ D[j + 1] = D[j] + d[j + 1] * P(j)
    BY <1>11, <2>1
  <2>5. P(i) = P(up) * P(j) /\ P(i + 1) = P(i) * Base /\ P(up) \in Nat /\ P(j) \in Nat
    BY <2>1, PSum, PStep
  <2>6. E[i] + H(j) * P(i) = D[j] * Q
    BY <1>16
  <2> DEFINE a == d[j + 1]
             low == Low(d[j + 1], k)
             h == H(j)
             g == H(j + 1)
             p == P(j)
             u == P(up)
             Di == D[j]
             Ei == E[i]
  <2>7. /\ a \in Int /\ h \in Int /\ g \in Int /\ p \in Int /\ u \in Int /\ Di \in Int
          /\ Ei \in Int
        /\ K \in Int /\ Base \in Int
    <3>1. h \in 0 .. K - 1 /\ g \in 0 .. K - 1
      BY <1>8, <2>1
    <3>2. a \in Nat
      BY <1>3, <2>1
    <3>3. Di \in Nat /\ Ei \in Nat
      BY <1>11, <2>1
    <3> QED
      BY <1>6, <2>5, <3>1, <3>2, <3>3, WordBitsType
  <2>8. low \in Int
    <3>1. low = (d[j + 1] % L) * K /\ d[j + 1] % L \in 0 .. L - 1
      BY <1>7, <2>1
    <3> QED
      BY <1>6, <3>1
  <2>9. a * K = g * Base + low /\ E[i + 1] = Ei + (low + h) * (u * p) /\ D[j + 1] = Di + a * p
        /\ Ei + h * (u * p) = Di * (u * K) /\ P(i + 1) = (u * p) * Base /\ Q = u * K
    BY <1>14, <2>2, <2>3, <2>4, <2>5, <2>6
  <2>10. E[i + 1] + g * P(i + 1) = D[j + 1] * Q
    <3> HIDE DEF a, low, h, g, p, u, Di, Ei
    <3>1. (Di + a * p) * (u * K) = Di * (u * K) + (a * K) * (u * p)
      BY <2>7
    <3>2. (g * Base + low) * (u * p) = g * ((u * p) * Base) + low * (u * p)
      BY <2>7, <2>8
    <3>3. (low + h) * (u * p) = low * (u * p) + h * (u * p)
      BY <2>7, <2>8
    <3> DEFINE lp == low * (u * p)
               hp == h * (u * p)
               gp == g * ((u * p) * Base)
               dq == Di * (u * K)
    <3>4. lp \in Int /\ hp \in Int /\ gp \in Int /\ dq \in Int
      BY <2>7, <2>8
    <3>5. /\ E[i + 1] = Ei + (lp + hp) /\ g * P(i + 1) = gp /\ D[j + 1] * Q = dq + (gp + lp)
          /\ Ei + hp = dq
      BY <2>9, <3>1, <3>2, <3>3
    <3> HIDE DEF lp, hp, gp, dq
    <3> QED
      BY <2>7, <3>4, <3>5
  <2> QED
    BY <2>1, <2>10
<1>17. \A j \in 0 .. n - up : j \in T
  <2>1. n - up \in Nat
    BY <1>1, <1>2
  <2> HIDE DEF T
  <2> QED
    BY <1>15, <1>16, <2>1, BoundedInduction
<1> DEFINE j == n - up
<1>18. E[n] + H(j) * P(n) = D[j] * Q
  <2>1. j \in 0 .. n - up /\ up + j = n
    BY <1>1, <1>2
  <2> QED
    BY <1>17, <2>1
<1>19. PICK q \in Nat : D[n] = D[j] + q * P(j)
  <2>1. j \in 0 .. n
    BY <1>1, <1>2
  <2> QED
    BY <1>1, <2>1, ValuesSplit DEF n, D
<1>20. /\ P(n) = P(up) * P(j) /\ P(up) \in Nat /\ P(j) \in Nat /\ D[j] \in Nat /\ E[n] \in Nat
         /\ H(j) \in Int
  <2>1. up \in Nat /\ j \in Nat /\ up + j = n /\ j \in 0 .. n /\ n \in 0 .. n
    BY <1>1, <1>2
  <2>2. D[j] \in Nat /\ E[n] \in Nat
    BY <1>11, <2>1
  <2>3. H(j) \in 0 .. K - 1
    BY <1>8, <2>1
  <2>4. P(up + j) = P(up) * P(j) /\ P(up) \in Nat /\ P(j) \in Nat
    BY <2>1, PSum, PStep
  <2> QED
    BY <1>6, <2>1, <2>2, <2>3, <2>4
<1> DEFINE h == H(j)
           u == P(up)
           p == P(j)
           Dj == D[j]
           c == -(h + q * K)
<1>21. E[n] = D[n] * Q + c * P(n) /\ c \in Int
  <2>1. /\ E[n] + h * (u * p) = Dj * (u * K) /\ D[n] = Dj + q * p /\ Q = u * K /\ P(n) = u * p
        /\ h \in Int /\ u \in Int /\ p \in Int /\ Dj \in Int /\ E[n] \in Int /\ K \in Int
    BY <1>6, <1>14, <1>18, <1>19, <1>20
  <2> HIDE DEF h, u, p, Dj, j
  <2>2. (Dj + q * p) * (u * K) = Dj * (u * K) + (q * K) * (u * p)
    BY <2>1
  <2>3. c * (u * p) = -(h * (u * p)) - (q * K) * (u * p) /\ c \in Int
    BY <2>1
  <2> DEFINE hp == h * (u * p)
             dq == Dj * (u * K)
             qp == (q * K) * (u * p)
  <2>4. hp \in Int /\ dq \in Int /\ qp \in Int
    BY <2>1
  <2>5. E[n] + hp = dq /\ D[n] * Q = dq + qp /\ c * P(n) = -hp - qp
    BY <2>1, <2>2, <2>3
  <2>6. E[n] \in Int
    BY <2>1
  <2> HIDE DEF hp, dq, qp, c
  <2> QED
    BY <2>3, <2>4, <2>5, <2>6
<1> HIDE DEF c
<1> QED
  BY <1>10, <1>12, <1>21 DEF n, Q

-----------------------------------------------------------------------------
(* A shift down: each word takes the low bits of the word above.           *)

\* The word that right_shift_to puts at i.
Lowered(d, n, i, down, k) ==
  d[i + down] \div Pow2[k] + IF i + down < n THEN Low(d[i + down + 1], WordBits - k) ELSE 0

\* In place, the words d after j moves.
HalfLowered(d, n, j, down, k) == [i \in 1 .. n |-> IF i <= j THEN Lowered(d, n, i, down, k) ELSE d[i]]

\* The array of right_shift_to after j turns of its loop.
LEMMA MovedDownRecursion ==
  ASSUME NEW n \in Nat, NEW d \in [1 .. n -> Nat], NEW down \in 0 .. n, NEW k \in 0 .. WordBits
  PROVE  /\ MovedDown(d, down, k)[0] = d
         /\ \A j \in 1 .. n - down :
              MovedDown(d, down, k)[j] = MoveDown(MovedDown(d, down, k)[j - 1], j, down, k)
<1> DEFINE S == [1 .. n -> Nat]
           last == n - down
           step == [j \in 1 .. last |-> [m \in S |-> MoveDown(m, j, down, k)]]
           Is(p) == p = [j \in 0 .. Len(d) - down |->
                           IF j = 0 THEN d ELSE MoveDown(p[j - 1], j, down, k)]
           F == MovedDown(d, down, k)
<1>1. \A j \in 1 .. last, m \in S : MoveDown(m, j, down, k) \in S
  <2> TAKE j \in 1 .. last, m \in S
  <2> DEFINE i == j + down
  <2>1. i \in 1 .. n /\ (i < n => i + 1 \in 1 .. n) /\ Len(m) = n
    BY WordsLen
  <2>2. m[i] \in Nat /\ (i < n => m[i + 1] \in Nat)
    BY <2>1
  <2>3. /\ WordBits - k \in 0 .. WordBits /\ Base \in Nat \ {0}
        /\ Pow2[k] \in Nat \ {0} /\ Pow2[WordBits - k] \in Nat \ {0}
    BY BaseParts, WordBitsType
  <2>4. m[i] \div Pow2[k] \in Nat
    BY <2>2, <2>3, RemainderBound
  <2>5. i < n => Low(m[i + 1], WordBits - k) \in Nat
    <3> SUFFICES ASSUME i < n PROVE Low(m[i + 1], WordBits - k) \in Nat
      OBVIOUS
    <3>1. m[i + 1] \in Nat /\ Pow2[WordBits - k] \in Nat \ {0} /\ Base \in Nat \ {0}
      BY <2>2, <2>3
    <3>2. m[i + 1] * Pow2[WordBits - k] \in Nat
      BY <3>1, Products
    <3> QED
      BY <3>1, <3>2, RemainderBound DEF Low
  <2>6. m[i] \div Pow2[k] + (IF i < Len(m) THEN Low(m[i + 1], WordBits - k) ELSE 0) \in Nat
    BY <2>1, <2>4, <2>5
  <2> QED
    BY <2>6 DEF MoveDown
<1>2. step \in [1 .. last -> [S -> S]]
  BY <1>1
<1>3. \A j \in 1 .. last, m \in S : step[j][m] = MoveDown(m, j, down, k)
  OBVIOUS
<1>4. last \in Nat /\ d \in S /\ Len(d) = n
  BY WordsLen
<1> HIDE DEF step, S, last
<1>5. PICK p : IsRun(p, last, S, d, step)
  BY <1>2, <1>4, BoundedRecursion
<1>6. p \in [0 .. last -> S] /\ p[0] = d /\ \A j \in 1 .. last : p[j] = step[j][p[j - 1]]
  BY <1>5 DEF IsRun
<1>7. \A j \in 1 .. last : p[j] = MoveDown(p[j - 1], j, down, k)
  <2> TAKE j \in 1 .. last
  <2>1. p[j - 1] \in S
    BY <1>4, <1>6
  <2> QED
    BY <2>1, <1>3, <1>6
<1>8. Is(p)
  BY <1>4, <1>6, <1>7 DEF last
<1>9. Is(CHOOSE q : Is(q))
  BY <1>8, Zenon
<1>10. Is(F)
  BY <1>9, Zenon DEF MovedDown
<1>11. F = [j \in 0 .. last |-> IF j = 0 THEN d ELSE MoveDown(F[j - 1], j, down, k)]
  BY <1>4, <1>10 DEF last
<1> HIDE DEF F, Is
<1>12. F[0] = d
  BY <1>4, <1>11
<1>13. \A j \in 1 .. last : F[j] = MoveDown(F[j - 1], j, down, k)
  BY <1>4, <1>11
<1> QED
  BY <1>12, <1>13 DEF F, last

\* In place, from the lowest word up, every word is read before it is overwritten.
LEMMA MovedDownWords ==
  ASSUME NEW n \in Nat, NEW d \in [1 .. n -> Nat], NEW down \in 0 .. n, NEW k \in 0 .. WordBits
  PROVE  \A j \in 0 .. n - down : MovedDown(d, down, k)[j] = HalfLowered(d, n, j, down, k)
<1> DEFINE F == MovedDown(d, down, k)
           Moved(j) == HalfLowered(d, n, j, down, k)
           T == {j \in Nat : F[j] = Moved(j)}
<1>1. F[0] = d /\ \A j \in 1 .. n - down : F[j] = MoveDown(F[j - 1], j, down, k)
  BY MovedDownRecursion
<1> HIDE DEF F
<1>2. 0 \in T
  BY <1>1 DEF HalfLowered
<1>3. ASSUME NEW j \in Nat, j < n - down, j \in T PROVE j + 1 \in T
  <2> DEFINE m == Moved(j)
             i == j + 1
             new == m[i + down] \div Pow2[k] + IF i + down < n THEN Low(m[i + down + 1], WordBits - k) ELSE 0
  <2>1. i \in 1 .. n - down /\ i \in 1 .. n /\ i - 1 = j /\ i > j /\ i + down \in 1 .. n
        /\ (i + down < n => i + down + 1 \in 1 .. n) /\ i + down > j /\ i + down + 1 > j
    BY <1>3
  <2>2. F[j] = m
    BY <1>3
  <2>3. F[i] = MoveDown(m, i, down, k)
    BY <1>1, <2>1, <2>2
  <2>4. Len(m) = n
    BY DEF HalfLowered
  <2>5. MoveDown(m, i, down, k) = [m EXCEPT ![i] = new]
    BY <2>4 DEF MoveDown
  <2>6. m[i + down] = d[i + down] /\ (i + down < n => m[i + down + 1] = d[i + down + 1])
    BY <2>1 DEF HalfLowered
  <2>7. new = Lowered(d, n, i, down, k)
    BY <2>6 DEF Lowered
  <2> HIDE DEF new
  <2>8. [m EXCEPT ![i] = new] = Moved(i)
    <3>1. \A l \in 1 .. n : l <= i <=> l = i \/ l <= j
      BY <2>1
    <3>2. \A l \in 1 .. n : [m EXCEPT ![i] = new][l] = IF l = i THEN new ELSE m[l]
      BY DEF HalfLowered
    <3> QED
      BY <2>1, <2>7, <3>1, <3>2 DEF HalfLowered
  <2>9. F[i] = Moved(i)
    BY <2>3, <2>5, <2>8
  <2> QED
    BY <2>9
<1>4. \A j \in 0 .. n - down : j \in T
  <2>1. n - down \in Nat
    OBVIOUS
  <2> HIDE DEF T
  <2> QED
    BY <1>2, <1>3, <2>1, BoundedInduction
<1> QED
  BY <1>4 DEF F

\* right_shift_to reads no word that it has already written.
LEMMA ShiftRightWords ==
  ASSUME NEW n \in Nat, NEW d \in [1 .. n -> Nat], NEW s \in Nat, s \div WordBits \in 0 .. n
  PROVE  ShiftRight(d, s) =
           [i \in 1 .. n |-> IF i > n - s \div WordBits THEN 0
                             ELSE Lowered(d, n, i, s \div WordBits, s % WordBits)]
<1> DEFINE down == s \div WordBits
           k == s % WordBits
           m == MovedDown(d, down, k)[n - down]
<1>1. Len(d) = n /\ DOMAIN d = 1 .. n
  BY WordsLen
<1>2. down \in 0 .. n /\ k \in 0 .. WordBits /\ n - down \in 0 .. n - down
  BY WordBitsType
<1>3. m = HalfLowered(d, n, n - down, down, k)
  <2>1. \A j \in 0 .. n - down : MovedDown(d, down, k)[j] = HalfLowered(d, n, j, down, k)
    <3> HIDE DEF down, k
    <3> QED
      BY <1>2, MovedDownWords
  <2> HIDE DEF down, k
  <2> QED
    BY <1>2, <2>1
<1>4. ShiftRight(d, s) = [i \in 1 .. n |-> IF i > n - down THEN 0 ELSE m[i]]
  BY <1>1 DEF ShiftRight
<1> HIDE DEF m
<1>5. \A i \in 1 .. n : ~(i > n - down) => m[i] = Lowered(d, n, i, down, k)
  BY <1>2, <1>3 DEF HalfLowered
<1>6. \A i \in 1 .. n :
        (IF i > n - down THEN 0 ELSE m[i]) = IF i > n - down THEN 0 ELSE Lowered(d, n, i, down, k)
  BY <1>5
<1> QED
  BY <1>4, <1>6

-----------------------------------------------------------------------------
(* ShiftRight in place.                                                    *)

\* A word moved down by k bits, and what leaves it at its bottom.
LEMMA LowerParts ==
  ASSUME NEW k \in 0 .. WordBits, NEW word \in 0 .. Base - 1
  PROVE  /\ word \div Pow2[k] \in 0 .. Pow2[WordBits - k] - 1
         /\ word % Pow2[k] \in 0 .. Pow2[k] - 1
         /\ word = Pow2[k] * (word \div Pow2[k]) + (word % Pow2[k])
         /\ Low(word, WordBits - k) = (word % Pow2[k]) * Pow2[WordBits - k]
<1> DEFINE l == WordBits - k
<1>1. l \in 0 .. WordBits /\ WordBits - l = k
  BY WordBitsType
<1> HIDE DEF l
<1>2. /\ High(word, l) \in 0 .. Pow2[l] - 1
      /\ Low(word, l) = (word % Pow2[WordBits - l]) * Pow2[l]
      /\ word % Pow2[WordBits - l] \in 0 .. Pow2[WordBits - l] - 1
  BY <1>1, HighLow
<1>3. High(word, l) = word \div Pow2[WordBits - l]
  BY DEF High
<1>4. Pow2[k] \in Nat \ {0} /\ word \in Int
  BY BaseParts, WordBitsType
<1>5. word = Pow2[k] * (word \div Pow2[k]) + (word % Pow2[k])
  <2> DEFINE K == Pow2[k]
  <2> HIDE DEF K
  <2>1. K \in Nat \ {0} /\ word \in Int
    BY <1>4 DEF K
  <2>2. word = K * (word \div K) + (word % K)
    BY <2>1, DivMod
  <2> QED
    BY <2>2 DEF K
<1> QED
  BY <1>1, <1>2, <1>3, <1>5 DEF l

\* A shift to the right divides.
LEMMA ShiftRightValue ==
  ASSUME NEW w \in Widths, NEW d \in Words(block_size(w)), NEW s \in Nat, s < w
  PROVE  /\ ShiftRight(d, s) \in Words(block_size(w))
         /\ Value(ShiftRight(d, s)) = Value(d) \div Pow2[s]
<1> DEFINE n == block_size(w)
           e == ShiftRight(d, s)
           down == s \div WordBits
           k == s % WordBits
           K == Pow2[k]
           L == Pow2[WordBits - k]
           r(i) == IF i <= n THEN d[i] % K ELSE 0
           D == Values(d)
           E == Values(e)
<1>1. n \in Nat \ {0}
  BY WidthType
<1>2. down \in 0 .. n - 1 /\ k \in 0 .. WordBits - 1 /\ Pow2[s] = P(down) * K
  BY ShiftParts
<1>3. d \in [1 .. n -> Nat] /\ \A i \in 1 .. n : d[i] \in 0 .. Base - 1
  BY <1>1, WordsAreNumbers
<1>4. e = [i \in 1 .. n |-> IF i > n - down THEN 0 ELSE Lowered(d, n, i, down, k)]
  <2>1. down \in 0 .. n
    BY <1>1, <1>2
  <2> QED
    BY <1>1, <1>3, <2>1, ShiftRightWords
<1>5. k \in 0 .. WordBits
  BY <1>2, WordBitsType
<1> HIDE DEF n, down, k, e
<1>6. Base = K * L /\ K \in Nat \ {0} /\ L \in Nat \ {0}
  BY <1>5, BaseParts
<1>7. ASSUME NEW i \in 1 .. n
      PROVE  /\ d[i] \div K \in 0 .. L - 1 /\ d[i] % K \in 0 .. K - 1
             /\ d[i] = K * (d[i] \div K) + (d[i] % K)
             /\ Low(d[i], WordBits - k) = (d[i] % K) * L
  BY <1>3, <1>5, LowerParts
<1>8. \A i \in Nat \ {0} : r(i) \in 0 .. K - 1
  BY <1>1, <1>6, <1>7
<1>9. ASSUME NEW j \in Nat, j + 1 <= n - down
      PROVE  /\ e[j + 1] = d[down + j + 1] \div K + r(down + j + 2) * L
             /\ down + j + 1 \in 1 .. n /\ down + j + 2 \in Nat \ {0} /\ j + 1 \in 1 .. n
  <2>1. /\ down + j + 1 \in 1 .. n /\ down + j + 2 \in Nat \ {0} /\ j + 1 \in 1 .. n
        /\ (j + 1) + down = down + j + 1 /\ (j + 1) + down + 1 = down + j + 2
        /\ ~(j + 1 > n - down)
    BY <1>1, <1>2, <1>9
  <2>2. e[j + 1] = Lowered(d, n, j + 1, down, k)
    BY <1>4, <2>1
  <2>3. Lowered(d, n, j + 1, down, k) =
          d[down + j + 1] \div K + IF down + j + 1 < n THEN Low(d[down + j + 2], WordBits - k) ELSE 0
    BY <2>1 DEF Lowered
  <2>4. CASE down + j + 1 < n
    <3>1. down + j + 2 \in 1 .. n /\ down + j + 2 <= n
      BY <1>1, <1>2, <2>1, <2>4
    <3>2. Low(d[down + j + 2], WordBits - k) = r(down + j + 2) * L
      BY <1>7, <3>1
    <3> QED
      BY <2>1, <2>2, <2>3, <2>4, <3>2
  <2>5. CASE ~(down + j + 1 < n)
    <3>1. r(down + j + 2) = 0
      BY <1>1, <1>2, <2>1, <2>5
    <3>2. r(down + j + 2) * L = 0
      BY <1>6, <3>1
    <3> QED
      BY <2>1, <2>2, <2>3, <2>5, <3>2
  <2> QED
    BY <2>4, <2>5
<1> HIDE DEF K, L, r
<1>10. e \in Words(n)
  <2>1. ASSUME NEW i \in 1 .. n, i <= n - down PROVE e[i] \in 0 .. Base - 1
    <3> DEFINE j == i - 1
               q == d[down + j + 1] \div K
               h == r(down + j + 2)
    <3>1. j \in Nat /\ j + 1 = i /\ j + 1 <= n - down
      BY <1>1, <1>2, <2>1
    <3>2. e[i] = q + h * L /\ q \in 0 .. L - 1 /\ h \in 0 .. K - 1
      BY <1>7, <1>8, <1>9, <3>1
    <3> HIDE DEF q, h
    <3>3. h * L \in Nat /\ h * L <= (K - 1) * L /\ (K - 1) * L = K * L - L
      BY <1>6, <3>2
    <3> QED
      BY <1>6, <3>2, <3>3
  <2>2. ASSUME NEW i \in 1 .. n PROVE e[i] \in 0 .. Base - 1
    <3>1. CASE i <= n - down
      BY <2>1, <3>1
    <3>2. CASE i > n - down
      BY <1>4, <3>2, WordBitsType
    <3> QED
      BY <1>1, <1>2, <3>1, <3>2
  <2> QED
    BY <1>4, <2>2 DEF Words
<1>11. /\ E \in [0 .. n -> Nat] /\ E[0] = 0 /\ \A i \in 1 .. n : E[i] = E[i - 1] + e[i] * P(i - 1)
       /\ D \in [0 .. n -> Nat] /\ D[0] = 0 /\ \A i \in 1 .. n : D[i] = D[i - 1] + d[i] * P(i - 1)
  BY <1>1, <1>3, <1>10, WordsAreNumbers, ValuesRecursion
<1>12. Value(e) = E[n] /\ Value(d) = D[n]
  BY <1>1, <1>10, ValueType DEF n
<1>13. D[down] \in 0 .. P(down) - 1
  <2>1. down \in 0 .. n /\ n \in Nat
    BY <1>1, <1>2
  <2> QED
    BY <2>1, ValuesBound DEF n
<1>14. E[n] = E[n - down]
  <2>1. n - down \in 0 .. n /\ \A i \in n - down + 1 .. n : e[i] = 0
    BY <1>1, <1>2, <1>4
  <2> QED
    BY <1>1, <1>10, <2>1, ValuesSplit
<1> HIDE DEF D, E
<1> DEFINE u == P(down)
           r1 == r(down + 1)
           T == {j \in Nat : (K * E[j] + r1) * u = D[down + j] - D[down] + r(down + j + 1) * P(down + j)}
<1>15. u \in Nat \ {0} /\ r1 \in 0 .. K - 1 /\ D[down] \in Nat /\ down \in Nat
  <2>1. down \in Nat /\ down + 1 \in Nat \ {0} /\ down \in 0 .. n
    BY <1>1, <1>2
  <2> QED
    BY <1>8, <1>11, <2>1, PStep
<1>16. 0 \in T
  <2>1. down + 0 = down /\ down + 0 + 1 = down + 1 /\ K * E[0] = 0
    BY <1>6, <1>11, <1>15
  <2>2. (K * E[0] + r1) * u = r1 * u /\ r1 * u \in Int
    BY <1>6, <1>15, <2>1
  <2> HIDE DEF u, r1
  <2>3. (K * E[0] + r1) * u = D[down] - D[down] + r1 * u
    BY <1>15, <2>2
  <2> QED
    BY <2>1, <2>3 DEF u, r1
<1>17. ASSUME NEW j \in Nat, j < n - down, j \in T PROVE j + 1 \in T
  <2> DEFINE i == down + j
  <2>1. /\ i \in Nat /\ i + 1 \in 1 .. n /\ i \in 0 .. n /\ (i + 1) - 1 = i /\ j + 1 <= n - down
        /\ down + (j + 1) = i + 1 /\ j \in 0 .. n /\ j + 1 \in 1 .. n /\ (j + 1) - 1 = j
        /\ i + 1 + 1 = i + 2 /\ down + j + 1 = i + 1 /\ down + j + 2 = i + 2 /\ down + (j + 1) + 1 = i + 2
        /\ i + 1 \in Nat \ {0} /\ i + 2 \in Nat \ {0} /\ i + 1 <= n
    BY <1>1, <1>2, <1>17
  <2>2. e[j + 1] = d[i + 1] \div K + r(i + 2) * L
    BY <1>9, <2>1
  <2>3. d[i + 1] = K * (d[i + 1] \div K) + r(i + 1) /\ d[i + 1] \div K \in Nat
    <3>1. r(i + 1) = d[i + 1] % K
      BY <2>1 DEF r
    <3>2. d[i + 1] \div K \in 0 .. L - 1
      BY <1>7, <2>1
    <3>3. d[i + 1] = K * (d[i + 1] \div K) + (d[i + 1] % K)
      BY <1>7, <2>1
    <3> QED
      BY <3>1, <3>2, <3>3
  <2>4. E[j + 1] = E[j] + e[j + 1] * P(j) /\ D[i + 1] = D[i] + d[i + 1] * P(i)
    BY <1>11, <2>1
  <2>5. P(i) = u * P(j) /\ P(i + 1) = P(i) * Base /\ P(j) \in Nat
    BY <1>15, <2>1, PSum, PStep
  <2>6. (K * E[j] + r1) * u = D[i] - D[down] + r(i + 1) * P(i)
    BY <1>17
  <2> DEFINE q == d[i + 1] \div K
             p == P(j)
             ra == r(i + 1)
             rb == r(i + 2)
             Ej == E[j]
             Di == D[i]
             Dd == D[down]
  <2>7. /\ q \in Int /\ p \in Int /\ u \in Int /\ ra \in Int /\ rb \in Int /\ Ej \in Int
          /\ Di \in Int
        /\ Dd \in Int /\ r1 \in Int /\ K \in Int /\ L \in Int
    <3>1. ra \in 0 .. K - 1 /\ rb \in 0 .. K - 1
      BY <1>8, <2>1
    <3>2. Ej \in Nat /\ Di \in Nat
      BY <1>11, <2>1
    <3>3. q \in Nat
      BY <2>3
    <3> QED
      BY <1>6, <1>15, <2>5, <3>1, <3>2, <3>3
  <2>8. /\ E[j + 1] = Ej + (q + rb * L) * p /\ D[i + 1] = Di + (K * q + ra) * (u * p)
        /\ (K * Ej + r1) * u = Di - Dd + ra * (u * p) /\ P(i + 1) = (u * p) * (K * L)
    BY <1>6, <2>2, <2>3, <2>4, <2>5, <2>6
  <2>9. (K * E[j + 1] + r1) * u = D[i + 1] - Dd + rb * P(i + 1)
    <3> HIDE DEF q, p, u, ra, rb, Ej, Di, Dd, r1
    <3>1. (K * (Ej + (q + rb * L) * p) + r1) * u =
            (K * Ej + r1) * u + (K * q) * (u * p) + rb * ((u * p) * (K * L))
      BY <2>7
    <3>2. (K * q + ra) * (u * p) = (K * q) * (u * p) + ra * (u * p)
      BY <2>7
    <3> DEFINE A == (K * Ej + r1) * u
               B == (K * q) * (u * p)
               C == rb * ((u * p) * (K * L))
               R == ra * (u * p)
    <3>3. A \in Int /\ B \in Int /\ C \in Int /\ R \in Int
      BY <2>7
    <3>4. /\ (K * E[j + 1] + r1) * u = A + B + C /\ D[i + 1] = Di + (B + R)
          /\ A = Di - Dd + R /\ rb * P(i + 1) = C
      BY <2>8, <3>1, <3>2
    <3>5. Di \in Int /\ Dd \in Int
      BY <2>7
    <3> HIDE DEF A, B, C, R
    <3> QED
      BY <3>3, <3>4, <3>5
  <2> QED
    BY <2>1, <2>9
<1>18. \A j \in 0 .. n - down : j \in T
  <2>1. n - down \in Nat
    BY <1>1, <1>2
  <2> HIDE DEF T
  <2> QED
    BY <1>16, <1>17, <2>1, BoundedInduction
<1> DEFINE En == E[n - down]
           Dd == D[down]
<1>19. (K * En + r1) * u = D[n] - Dd /\ En \in Nat /\ D[n] \in Nat
  <2>1. /\ n - down \in 0 .. n - down /\ n - down \in 0 .. n /\ down + (n - down) = n
          /\ n \in 0 .. n
        /\ n \in Nat /\ ~(n + 1 <= n)
    BY <1>1, <1>2
  <2>2. r(n + 1) = 0 /\ P(n) \in Nat
    BY <2>1, PStep DEF r
  <2>3. (K * En + r1) * u = D[n] - Dd + r(n + 1) * P(n)
    <3>1. n - down \in T
      BY <1>18, <2>1
    <3> QED
      BY <2>1, <3>1
  <2>4. r(n + 1) * P(n) = 0
    BY <2>2
  <2>5. En \in Nat /\ D[n] \in Nat
    BY <1>11, <2>1
  <2> HIDE DEF En, u, r1
  <2> QED
    BY <1>15, <2>3, <2>4, <2>5
<1>20. D[n] = (u * K) * En + (Dd + r1 * u) /\ Dd + r1 * u \in 0 .. (u * K) - 1 /\ u * K \in Nat \ {0}
  <2>1. u \in Nat \ {0} /\ r1 \in 0 .. K - 1 /\ Dd \in 0 .. u - 1
    BY <1>13, <1>15
  <2> HIDE DEF u, r1, Dd, En
  <2>2. (K * En + r1) * u = (u * K) * En + r1 * u
    BY <1>6, <1>19, <2>1
  <2>3. r1 * u \in Nat /\ r1 * u <= (K - 1) * u /\ (K - 1) * u = u * K - u
    BY <1>6, <2>1
  <2>4. u * K \in Nat \ {0} /\ (u * K) * En \in Int
    BY <1>6, <1>19, <2>1
  <2> DEFINE m == u * K
             ru == r1 * u
             me == m * En
             x0 == (K * En + r1) * u
  <2>5. x0 = me + ru /\ x0 = D[n] - Dd /\ ru \in Nat /\ ru <= m - u /\ m \in Nat \ {0} /\ me \in Int
    BY <1>19, <2>2, <2>3, <2>4
  <2> HIDE DEF m, ru, x0
  <2>6. D[n] = me + (Dd + ru) /\ Dd + ru \in 0 .. m - 1
    <3> HIDE DEF me
    <3> QED
      BY <1>19, <2>1, <2>5
  <2> QED
    BY <2>5, <2>6 DEF m, ru
<1>21. D[n] \div (u * K) = En
  <2> DEFINE m == u * K
             rest == Dd + r1 * u
  <2>1. D[n] = m * En + rest /\ rest \in 0 .. m - 1 /\ m \in Nat \ {0} /\ D[n] \in Int /\ En \in Int
    BY <1>19, <1>20
  <2> HIDE DEF m, rest, En
  <2>2. D[n] \div m = En
    BY <2>1, DivUnique
  <2> QED
    BY <2>2 DEF m
<1> QED
  BY <1>2, <1>10, <1>12, <1>14, <1>21 DEF n, e

-----------------------------------------------------------------------------
(* The operations keep numbers numbers.                                    *)

\* The instances use the same powers of two.
LEMMA SamePow2 == Register!Pow2 = Pow2 /\ M!Pow2 = Pow2 /\ M!Word!Pow2 = Pow2
  BY Zenon DEF Register!Pow2, M!Pow2, M!Word!Pow2, Pow2

-----------------------------------------------------------------------------
\* There is a largest width.
LEMMA MaxWidthType == MaxWidth \in Nat
  BY WidthsAssumption DEF MaxWidth

\* Any array of the right length, made a number, is one.
LEMMA BecomesNumber ==
  ASSUME NEW w \in Widths, NEW d \in Words(block_size(w)), NEW op, NEW arg, Becomes(w, d, op, arg)
  PROVE  /\ TypeOK'
         /\ x'.bits = w /\ Value(x'.data) = Value(d) % Pow2[w]
         /\ call' = [op |-> op, arg |-> arg, bits |-> w]
<1>1. /\ x'.bits = w /\ x'.data \in Words(block_size(w)) /\ Value(x'.data) = Value(d) % Pow2[w]
      /\ call' = [op |-> op, arg |-> arg, bits |-> w]
  BY NumberValue DEF Becomes
<1>2. Value(d) \in Int /\ Pow2[w] \in Nat \ {0}
  <2>1. block_size(w) \in Nat
    BY WidthType
  <2> QED
    BY <2>1, ValueType, WidthType
<1>3. Value(d) % Pow2[w] < Pow2[w]
  BY <1>2
<1> QED
  BY <1>1, <1>3 DEF TypeOK, Words

\* What TypeOK says about x.
LEMMA CurrentNumber ==
  ASSUME TypeOK
  PROVE  /\ x.bits \in Widths /\ block_size(x.bits) \in Nat \ {0}
         /\ x.data \in Words(block_size(x.bits)) /\ Len(x.data) = block_size(x.bits)
         /\ Value(x.data) \in 0 .. Pow2[x.bits] - 1
<1>1. x.bits \in Widths /\ block_size(x.bits) \in Nat \ {0}
  BY WidthType DEF TypeOK
<1>2. x.data \in Words(block_size(x.bits))
  BY DEF TypeOK, Words
<1>3. Len(x.data) = block_size(x.bits) /\ Value(x.data) \in Nat
  <2> DEFINE n == block_size(x.bits)
  <2>1. n \in Nat /\ x.data \in Words(n)
    BY <1>1, <1>2
  <2> HIDE DEF n
  <2>2. Len(x.data) = n /\ Value(x.data) \in 0 .. P(n) - 1
    BY <2>1, WordsAreNumbers, ValueType
  <2> QED
    BY <2>2 DEF n
<1> QED
  BY <1>1, <1>2, <1>3, WidthType DEF TypeOK

\* The words that every operation computes fill the array of its result.
LEMMA SetType ==
  ASSUME NEW w \in Widths, NEW word \in 0 .. Base - 1, NEW negative \in BOOLEAN
  PROVE  FromWord(block_size(w), word, negative) \in Words(block_size(w))
  BY WidthType, FromWordValue

\* A new number is a number.
LEMMA InitType == Init => TypeOK
<1> SUFFICES ASSUME Init PROVE TypeOK
  OBVIOUS
<1>1. x \in Numbers
  BY DEF Init
<1>2. x.bits \in Widths /\ x.data \in Words(block_size(x.bits))
        /\ Value(x.data) \in 0 .. Pow2[x.bits] - 1
  BY <1>1, NumbersType
<1> QED
  BY <1>2, WidthType DEF TypeOK, Words

\* The calls with one operand keep x a number of its width.
LEMMA UnaryType == ASSUME TypeOK, Unary PROVE TypeOK'
<1>1. ASSUME NEW w \in Widths, NEW word \in 0 .. Base - 1, NEW negative \in BOOLEAN, Set(w, word, negative)
      PROVE  TypeOK'
  BY <1>1, SetType, BecomesNumber DEF Set
<1>2. ASSUME NEW w \in Widths, Convert(w) PROVE TypeOK'
  <2>1. Copy(block_size(w), x.data) \in Words(block_size(w))
    BY CurrentNumber, WidthType, CopyValue
  <2> QED
    BY <1>2, <2>1, BecomesNumber DEF Convert
<1>3. ASSUME NEW s \in Nat, Shl(s) PROVE TypeOK'
  <2>1. PICK d \in {ShiftLeft(x.data, s), ShiftLeftApart(x.data, s)} : Becomes(x.bits, d, "shl", s)
    BY <1>3 DEF Shl
  <2>2. s < x.bits
    BY <1>3 DEF Shl
  <2>3. d \in Words(block_size(x.bits))
    BY <2>2, CurrentNumber, ShiftLeftValue
  <2> QED
    BY <2>1, <2>3, CurrentNumber, BecomesNumber
<1>4. ASSUME NEW s \in Nat, Shr(s) PROVE TypeOK'
  <2>1. s < x.bits /\ Becomes(x.bits, ShiftRight(x.data, s), "shr", s)
    BY <1>4 DEF Shr
  <2>2. ShiftRight(x.data, s) \in Words(block_size(x.bits))
    BY <2>1, CurrentNumber, ShiftRightValue
  <2> QED
    BY <2>1, <2>2, CurrentNumber, BecomesNumber
<1>5. ASSUME NEW s \in Nat, NEW op \in {"shl", "shr"}, ShiftOut(op, s) PROVE TypeOK'
  <2>1. FromWord(Len(x.data), 0, FALSE) \in Words(block_size(x.bits))
    <3>1. 0 \in 0 .. Base - 1 /\ FALSE \in BOOLEAN
      BY WordBitsType
    <3>2. FromWord(block_size(x.bits), 0, FALSE) \in Words(block_size(x.bits))
      BY <3>1, CurrentNumber, SetType, Zenon
    <3> QED
      BY <3>2, CurrentNumber
  <2> QED
    BY <1>5, <2>1, CurrentNumber, BecomesNumber DEF ShiftOut
<1>6. \A s \in 0 .. MaxWidth : s \in Nat
  BY MaxWidthType
<1> QED
  BY <1>1, <1>2, <1>3, <1>4, <1>5, <1>6 DEF Unary

\* An operand is an array of words.
LEMMA NumberWords ==
  ASSUME NEW y \in Numbers
  PROVE  /\ block_size(y.bits) \in Nat /\ y.data \in Words(block_size(y.bits))
         /\ Len(y.data) = block_size(y.bits) /\ Value(y.data) \in Nat
<1> DEFINE n == block_size(y.bits)
<1>1. n \in Nat /\ y.data \in Words(n)
  BY NumbersType, WidthType
<1> HIDE DEF n
<1>2. Len(y.data) = n /\ Value(y.data) \in 0 .. P(n) - 1
  BY <1>1, WordsAreNumbers, ValueType
<1> QED
  BY <1>1, <1>2 DEF n

\* Addition and subtraction keep x a number of its width, fitting operands or not.
LEMMA BinaryType ==
  ASSUME TypeOK, NEW w \in Widths, NEW y \in Numbers, Add(w, y) \/ Sub(w, y)
  PROVE  TypeOK'
<1>1. AddTo(block_size(w), x.data, y.data) \in Words(block_size(w))
  BY CurrentNumber, NumberWords, WidthType, AddToValue
<1>2. SubTo(block_size(w), x.data, y.data) \in Words(block_size(w))
  BY CurrentNumber, NumberWords, WidthType, SubToValue
<1> QED
  BY <1>1, <1>2, BecomesNumber DEF Add, Sub

\* TypeOK is inductive.
LEMMA NextType == TypeOK /\ [Next]_vars => TypeOK'
<1> SUFFICES ASSUME TypeOK, [Next]_vars PROVE TypeOK'
  OBVIOUS
<1>1. CASE Unary
  BY <1>1, UnaryType
<1>2. CASE \E w \in Widths, y \in Numbers : Add(w, y) \/ Sub(w, y)
  BY <1>2, BinaryType
<1>3. CASE UNCHANGED vars
  BY <1>3 DEF TypeOK, vars
<1> QED
  BY <1>1, <1>2, <1>3 DEF Next

\* Whatever is called, in whatever widths, the number's words are words and its unused
\* bits are zero.
THEOREM IntegerTypeCorrect == Spec => []TypeOK
<1>1. Init => TypeOK
  BY InitType
<1>2. TypeOK /\ [Next]_vars => TypeOK'
  BY NextType
<1> QED
  BY <1>1, <1>2, PTL DEF Spec

-----------------------------------------------------------------------------
(* A step of two numbers is a step of the integers modulo their widths.    *)

\* A call is a step of the modular integer if the words it computes stand for what
\* that applies, but for a multiple of what the words can hold.
LEMMA ModularStep ==
  ASSUME NEW w \in Widths, NEW d \in Words(block_size(w)), NEW op \in Register!Ops, NEW arg \in Nat,
         Becomes(w, d, op, arg), NEW v \in Int, NEW k \in Int,
         Register!Apply(Value(x.data), [op |-> op, arg |-> arg, bits |-> w]) = v,
         Value(d) = v + k * P(block_size(w))
  PROVE  Register!Next
<1>1. x'.bits = w /\ Value(x'.data) = Value(d) % Pow2[w]
        /\ call' = [op |-> op, arg |-> arg, bits |-> w]
  BY BecomesNumber
<1>2. Value(d) \in Int
  <2>1. block_size(w) \in Nat
    BY WidthType
  <2> QED
    BY <2>1, ValueType
<1>3. Value(d) % Pow2[w] = v % Pow2[w]
  BY <1>2, WrapSame
<1>4. call' \in Register!Calls
  BY <1>1 DEF Register!Calls
<1>5. Value(x'.data) = Register!Apply(Value(x.data), call') % Register!Pow2[x'.bits]
  BY <1>1, <1>3, SamePow2
<1> QED
  BY <1>1, <1>4, <1>5 DEF Register!Next

\* array_uint(val), one sign or the other, is the value modulo the width.
LEMMA SetStep ==
  ASSUME NEW w \in Widths, NEW word \in 0 .. Base - 1, NEW negative \in BOOLEAN, Set(w, word, negative)
  PROVE  Register!Next
<1> DEFINE n == block_size(w)
           d == FromWord(n, word, negative)
           s == IF negative THEN word - Base ELSE word
           arg == s % Pow2[w]
<1>1. n \in Nat \ {0} /\ Pow2[w] \in Nat \ {0} /\ P(n) \in Nat
  BY WidthType, PStep
<1>2. d \in Words(n) /\ Value(d) = IF negative THEN word - Base + P(n) ELSE word
  BY <1>1, FromWordValue
<1>3. s \in Int
  BY WordBitsType
<1>4. Becomes(w, d, "set", arg)
  BY DEF Set
<1> HIDE DEF s, d, n
<1>5. arg \in Nat
  BY <1>1, <1>3
<1> DEFINE k == IF negative THEN 1 ELSE 0
           q == s \div Pow2[w]
<1>6. Value(d) = s + k * P(n) /\ k \in Int
  BY <1>1, <1>2, WordBitsType DEF s
<1>7. x'.bits = w /\ Value(x'.data) = Value(d) % Pow2[w]
        /\ call' = [op |-> "set", arg |-> arg, bits |-> w]
  BY <1>2, <1>4, BecomesNumber DEF n
<1>8. Value(d) \in Int
  BY <1>1, <1>2, ValueType
<1>9. Value(d) % Pow2[w] = arg
  <2> HIDE DEF k
  <2> QED
    BY <1>3, <1>6, <1>8, WrapSame DEF n
<1>10. arg % Pow2[w] = arg
  <2> DEFINE m == Pow2[w]
  <2>1. arg \in 0 .. m - 1 /\ m \in Nat \ {0}
    BY <1>1, <1>3
  <2> HIDE DEF m, arg
  <2> QED
    BY <2>1, RemainderItself DEF m
<1>11. call' \in Register!Calls
  BY <1>5, <1>7 DEF Register!Calls, Register!Ops
<1>12. Register!Apply(Value(x.data), call') = arg
  BY <1>7 DEF Register!Apply
<1>13. Value(x'.data) = Register!Apply(Value(x.data), call') % Register!Pow2[x'.bits]
  <2> HIDE DEF arg
  <2> QED
    BY <1>7, <1>9, <1>10, <1>12, SamePow2
<1> QED
  BY <1>7, <1>11, <1>13 DEF Register!Next

\* Conversion to another width is the value modulo the new width.
LEMMA ConvertStep ==
  ASSUME TypeOK, NEW w \in Widths, Convert(w)
  PROVE  Register!Next
<1> DEFINE d == Copy(block_size(w), x.data)
<1>1. d \in Words(block_size(w)) /\ \E k \in Int : Value(d) = Value(x.data) + k * P(block_size(w))
  BY CurrentNumber, WidthType, CopyValue
<1>2. PICK k \in Int : Value(d) = Value(x.data) + k * P(block_size(w))
  BY <1>1
<1>3. Becomes(w, d, "convert", 0)
  BY DEF Convert
<1> HIDE DEF d
<1>4. Value(x.data) \in Int /\ "convert" \in Register!Ops /\ 0 \in Nat
  BY CurrentNumber DEF Register!Ops
<1>5. Register!Apply(Value(x.data), [op |-> "convert", arg |-> 0, bits |-> w]) = Value(x.data)
  BY SamePow2 DEF Register!Apply
<1> QED
  BY <1>1, <1>2, <1>3, <1>4, <1>5, ModularStep

\* add_to adds modulo the width, if no word is lost.
LEMMA AddStep ==
  ASSUME TypeOK, NEW w \in Widths, NEW y \in Numbers, Add(w, y), SumFits(block_size(w), x.data, y.data)
  PROVE  Register!Next
<1> DEFINE d == AddTo(block_size(w), x.data, y.data)
<1>1. /\ d \in Words(block_size(w))
      /\ \E k \in Int : Value(d) = Value(x.data) + Value(y.data) + k * P(block_size(w))
  <2> DEFINE n == block_size(w)
             la == block_size(x.bits)
             lb == block_size(y.bits)
  <2>1. /\ n \in Nat /\ la \in Nat /\ lb \in Nat
        /\ x.data \in Words(la) /\ y.data \in Words(lb) /\ SumFits(n, x.data, y.data)
    BY CurrentNumber, NumberWords, WidthType
  <2> HIDE DEF n, la, lb, d
  <2>2. /\ AddTo(n, x.data, y.data) \in Words(n)
        /\ \E k \in Int : Value(AddTo(n, x.data, y.data)) = Value(x.data) + Value(y.data) + k * P(n)
    <3>1. AddTo(n, x.data, y.data) \in Words(n)
      BY <2>1, AddToValue
    <3>2. \E k \in Int : Value(AddTo(n, x.data, y.data)) = Value(x.data) + Value(y.data) + k * P(n)
      BY <2>1, FittingSum
    <3> QED
      BY <3>1, <3>2
  <2> QED
    BY <2>2 DEF n, d
<1>2. PICK k \in Int : Value(d) = Value(x.data) + Value(y.data) + k * P(block_size(w))
  BY <1>1
<1>3. Becomes(w, d, "add", Value(y.data))
  BY DEF Add
<1> HIDE DEF d
<1>4. Value(x.data) + Value(y.data) \in Int /\ "add" \in Register!Ops /\ Value(y.data) \in Nat
  BY CurrentNumber, NumberWords DEF Register!Ops
<1>5. Register!Apply(Value(x.data), [op |-> "add", arg |-> Value(y.data), bits |-> w]) =
        Value(x.data) + Value(y.data)
  BY SamePow2 DEF Register!Apply
<1> QED
  BY <1>1, <1>2, <1>3, <1>4, <1>5, ModularStep

\* sub_to subtracts modulo the width, if no word is lost.
LEMMA SubStep ==
  ASSUME TypeOK, NEW w \in Widths, NEW y \in Numbers, Sub(w, y),
         DifferenceFits(block_size(w), x.data, y.data)
  PROVE  Register!Next
<1> DEFINE d == SubTo(block_size(w), x.data, y.data)
<1>1. /\ d \in Words(block_size(w))
      /\ \E k \in Int : Value(d) = Value(x.data) - Value(y.data) + k * P(block_size(w))
  <2> DEFINE n == block_size(w)
             la == block_size(x.bits)
             lb == block_size(y.bits)
  <2>1. /\ n \in Nat /\ la \in Nat /\ lb \in Nat
        /\ x.data \in Words(la) /\ y.data \in Words(lb) /\ DifferenceFits(n, x.data, y.data)
    BY CurrentNumber, NumberWords, WidthType
  <2> HIDE DEF n, la, lb, d
  <2>2. /\ SubTo(n, x.data, y.data) \in Words(n)
        /\ \E k \in Int : Value(SubTo(n, x.data, y.data)) = Value(x.data) - Value(y.data) + k * P(n)
    <3>1. SubTo(n, x.data, y.data) \in Words(n)
      BY <2>1, SubToValue
    <3>2. \E k \in Int : Value(SubTo(n, x.data, y.data)) = Value(x.data) - Value(y.data) + k * P(n)
      BY <2>1, FittingDifference
    <3> QED
      BY <3>1, <3>2
  <2> QED
    BY <2>2 DEF n, d
<1>2. PICK k \in Int : Value(d) = Value(x.data) - Value(y.data) + k * P(block_size(w))
  BY <1>1
<1>3. Becomes(w, d, "sub", Value(y.data))
  BY DEF Sub
<1> HIDE DEF d
<1>4. Value(x.data) - Value(y.data) \in Int /\ "sub" \in Register!Ops /\ Value(y.data) \in Nat
  BY CurrentNumber, NumberWords DEF Register!Ops
<1>5. Register!Apply(Value(x.data), [op |-> "sub", arg |-> Value(y.data), bits |-> w]) =
        Value(x.data) - Value(y.data)
  BY SamePow2 DEF Register!Apply
<1> QED
  BY <1>1, <1>2, <1>3, <1>4, <1>5, ModularStep

\* <<= multiplies by a power of two modulo the width.
LEMMA ShlStep ==
  ASSUME TypeOK, NEW s \in Nat, Shl(s)
  PROVE  Register!Next
<1> DEFINE w == x.bits
<1>1. PICK d \in {ShiftLeft(x.data, s), ShiftLeftApart(x.data, s)} : Becomes(w, d, "shl", s)
  BY DEF Shl
<1>2. s < w /\ w \in Widths /\ x.data \in Words(block_size(w)) /\ Value(x.data) \in Nat
  BY CurrentNumber DEF Shl
<1> HIDE DEF w
<1>3. d \in Words(block_size(w)) /\ \E k \in Int : Value(d) = Value(x.data) * Pow2[s] + k * P(block_size(w))
  BY <1>2, ShiftLeftValue
<1>4. PICK k \in Int : Value(d) = Value(x.data) * Pow2[s] + k * P(block_size(w))
  BY <1>3
<1>5. Value(x.data) * Pow2[s] \in Int /\ "shl" \in Register!Ops
  BY <1>2, Pow2Type DEF Register!Ops
<1>6. Register!Apply(Value(x.data), [op |-> "shl", arg |-> s, bits |-> w]) = Value(x.data) * Pow2[s]
  BY SamePow2 DEF Register!Apply
<1> QED
  BY <1>1, <1>2, <1>3, <1>4, <1>5, <1>6, ModularStep

\* >>= divides by a power of two.
LEMMA ShrStep ==
  ASSUME TypeOK, NEW s \in Nat, Shr(s)
  PROVE  Register!Next
<1> DEFINE w == x.bits
           d == ShiftRight(x.data, s)
           v == Value(x.data) \div Pow2[s]
<1>1. s < w /\ w \in Widths /\ x.data \in Words(block_size(w)) /\ Value(x.data) \in Nat
        /\ Becomes(w, d, "shr", s)
  BY CurrentNumber DEF Shr
<1> HIDE DEF w
<1>2. d \in Words(block_size(w)) /\ Value(d) = v
  BY <1>1, ShiftRightValue
<1>3. v \in Int /\ "shr" \in Register!Ops
  BY <1>1, Pow2Type DEF Register!Ops
<1>4. Register!Apply(Value(x.data), [op |-> "shr", arg |-> s, bits |-> w]) = v
  BY SamePow2 DEF Register!Apply
<1> HIDE DEF v, d
<1>5. P(block_size(w)) \in Nat
  BY <1>1, WidthType, PStep
<1>6. Value(d) = v + 0 * P(block_size(w)) /\ 0 \in Int
  BY <1>2, <1>3, <1>5
<1> QED
  BY <1>1, <1>2, <1>3, <1>4, <1>6, ModularStep

\* A shift by the width or more leaves nothing.
LEMMA ShiftOutStep ==
  ASSUME TypeOK, NEW s \in Nat, NEW op \in {"shl", "shr"}, ShiftOut(op, s)
  PROVE  Register!Next
<1> DEFINE w == x.bits
           d == FromWord(Len(x.data), 0, FALSE)
           value == Value(x.data)
           m == Pow2[w]
           t == Pow2[s - w]
<1>1. s >= w /\ w \in Nat /\ w \in Widths /\ value \in 0 .. m - 1 /\ m \in Nat \ {0} /\ Becomes(w, d, op, s)
  BY CurrentNumber, WidthType DEF ShiftOut
<1>2. d \in Words(block_size(w)) /\ Value(d) = 0
  <2>1. 0 \in 0 .. Base - 1 /\ FALSE \in BOOLEAN
    BY WordBitsType
  <2>2. /\ FromWord(block_size(w), 0, FALSE) \in Words(block_size(w))
        /\ Value(FromWord(block_size(w), 0, FALSE)) = IF FALSE THEN 0 - Base + P(block_size(w)) ELSE 0
    BY <2>1, CurrentNumber, FromWordValue, Zenon
  <2>3. Len(x.data) = block_size(w)
    BY CurrentNumber
  <2> QED
    BY <2>2, <2>3
<1>3. Pow2[s] = t * m /\ t \in Nat \ {0}
  <2>1. s - w \in Nat /\ s = (s - w) + w
    BY <1>1
  <2> QED
    BY <1>1, <2>1, Pow2Sum, Pow2Type
<1> HIDE DEF d, m, t, value, w
<1>4. (value * Pow2[s]) % m = 0
  <2> DEFINE vt == value * t
  <2>1. value * Pow2[s] = m * vt + 0 /\ vt \in Int /\ value * Pow2[s] \in Int /\ 0 \in 0 .. m - 1
    BY <1>1, <1>3
  <2> DEFINE vs == value * Pow2[s]
  <2> HIDE DEF vt, vs
  <2>2. vs % m = 0
    BY <1>1, <2>1, DivUnique DEF vs
  <2> QED
    BY <2>2 DEF vs
<1>5. value \div Pow2[s] = 0
  <2> DEFINE p == Pow2[s]
  <2>1. p \in Nat \ {0} /\ p >= m
    <3>1. t * m >= 1 * m /\ t * m \in Nat
      BY <1>1, <1>3
    <3> QED
      BY <1>1, <1>3, <3>1
  <2>2. value \in 0 .. p - 1
    BY <1>1, <2>1
  <2> HIDE DEF p
  <2>3. value \div p = 0
    BY <2>1, <2>2, RemainderItself
  <2> QED
    BY <2>3 DEF p
<1>6. Register!Apply(value, [op |-> op, arg |-> s, bits |-> w]) % m = 0
  <2>1. CASE op = "shl"
    <3>1. Register!Apply(value, [op |-> op, arg |-> s, bits |-> w]) = value * Pow2[s]
      BY <2>1, SamePow2 DEF Register!Apply
    <3> QED
      BY <1>4, <3>1
  <2>2. CASE op = "shr"
    <3>1. Register!Apply(value, [op |-> op, arg |-> s, bits |-> w]) = 0
      BY <1>5, <2>2, SamePow2 DEF Register!Apply
    <3>2. 0 % m = 0
      BY <1>1, RemainderItself
    <3> QED
      BY <3>1, <3>2
  <2> QED
    BY <2>1, <2>2
<1>7. x'.bits = w /\ Value(x'.data) = Value(d) % m /\ call' = [op |-> op, arg |-> s, bits |-> w]
  BY <1>1, <1>2, BecomesNumber DEF m
<1>8. 0 % m = 0
  BY <1>1, RemainderItself
<1>9. Value(x'.data) = Register!Apply(Value(x.data), call') % Register!Pow2[x'.bits]
  BY <1>2, <1>6, <1>7, <1>8, SamePow2 DEF m, value
<1>10. call' \in Register!Calls
  BY <1>1, <1>7 DEF Register!Calls, Register!Ops
<1> QED
  BY <1>7, <1>9, <1>10 DEF Register!Next

\* Every fitting call is a step of ModularInt.
LEMMA FittingStep ==
  TypeOK /\ [FittingNext]_vars => [Register!Next]_<<x.bits, Value(x.data), call>>
<1> SUFFICES ASSUME TypeOK, [FittingNext]_vars
             PROVE  Register!Next \/ UNCHANGED <<x.bits, Value(x.data), call>>
  OBVIOUS
<1>1. \A s \in 0 .. MaxWidth : s \in Nat
  BY MaxWidthType
<1>2. CASE Unary
  BY <1>1, <1>2, SetStep, ConvertStep, ShlStep, ShrStep, ShiftOutStep DEF Unary
<1>3. CASE \E w \in Widths, y \in Numbers :
             \/ SumFits(block_size(w), x.data, y.data) /\ Add(w, y)
             \/ DifferenceFits(block_size(w), x.data, y.data) /\ Sub(w, y)
  BY <1>3, AddStep, SubStep
<1>4. CASE UNCHANGED vars
  BY <1>4 DEF vars
<1> QED
  BY <1>2, <1>3, <1>4 DEF FittingNext

\* A new number is zero.
LEMMA InitModular == Init => Register!Init
<1> SUFFICES ASSUME Init PROVE Register!Init
  OBVIOUS
<1>1. x \in Numbers /\ Value(x.data) = 0
  BY DEF Init
<1>2. x.bits \in Widths
  BY <1>1, NumbersType
<1> QED
  BY <1>1, <1>2 DEF Init, Register!Init

\* The calls that fit compute modulo the width of their result, whatever the sizes of
\* words and numbers.
THEOREM IntegerActsAsModularInt == FittingSpec => ActsAsModularInt
<1>1. Init => TypeOK /\ Register!Init
  BY InitType, InitModular
<1>2. [FittingNext]_vars => [Next]_vars
  BY DEF FittingNext, Next
<1>3. TypeOK /\ [FittingNext]_vars => TypeOK'
  BY <1>2, NextType
<1> QED
  BY <1>1, <1>3, FittingStep, PTL DEF FittingSpec, ActsAsModularInt, Register!Spec

-----------------------------------------------------------------------------
(* Compare decides at the highest word that differs.                       *)

\* The highest word in which two numbers differ.
Highest(d, e, n, i) == i \in 1 .. n /\ d[i] # e[i] /\ \A j \in i + 1 .. n : d[j] = e[j]

\* Arrays that differ have a highest word that does.
LEMMA HighestExists ==
  ASSUME NEW n \in Nat, NEW d, NEW e, \E i \in 1 .. n : d[i] # e[i]
  PROVE  \E i \in 1 .. n : Highest(d, e, n, i)
<1> DEFINE T == {k \in Nat : n - k \in 1 .. n /\ d[n - k] # e[n - k]}
<1>1. T # {}
  <2>1. PICK i \in 1 .. n : d[i] # e[i]
    OBVIOUS
  <2>2. n - i \in Nat /\ n - (n - i) = i
    OBVIOUS
  <2>3. n - i \in T
    BY <2>1, <2>2
  <2> QED
    BY <2>3
<1>2. T \subseteq Nat
  OBVIOUS
<1>3. PICK k \in T : \A l \in T : k <= l
  <2> HIDE DEF T
  <2> QED
    BY <1>1, <1>2, LeastNumber
<1> DEFINE i == n - k
<1>4. i \in 1 .. n /\ d[i] # e[i] /\ k \in Nat
  OBVIOUS
<1>5. ASSUME NEW j \in i + 1 .. n PROVE d[j] = e[j]
  <2> SUFFICES ASSUME d[j] # e[j] PROVE FALSE
    OBVIOUS
  <2>1. n - j \in Nat /\ n - (n - j) = j /\ j \in 1 .. n /\ n - j < k
    BY <1>4
  <2>2. n - j \in T
    BY <2>1
  <2> HIDE DEF T
  <2> QED
    BY <1>3, <1>4, <2>1, <2>2
<1> QED
  BY <1>4, <1>5 DEF Highest

\* The highest words that differ decide which number is less.
LEMMA HighestDecides ==
  ASSUME NEW n \in Nat, NEW d \in Words(n), NEW e \in Words(n), NEW i \in 1 .. n,
         Highest(d, e, n, i), d[i] < e[i]
  PROVE  Value(d) < Value(e)
<1> DEFINE D == Values(d)
           E == Values(e)
<1>1. /\ D \in [0 .. n -> Nat] /\ \A j \in 1 .. n : D[j] = D[j - 1] + d[j] * P(j - 1)
      /\ E \in [0 .. n -> Nat] /\ \A j \in 1 .. n : E[j] = E[j - 1] + e[j] * P(j - 1)
  BY WordsAreNumbers, ValuesRecursion
<1>2. \A j \in 0 .. n : D[j] \in 0 .. P(j) - 1
  BY ValuesBound
<1>3. Value(d) = D[n] /\ Value(e) = E[n]
  BY ValueType
<1> HIDE DEF D, E
<1>4. D[i] < E[i]
  <2> DEFINE p == P(i - 1)
             dd == d[i]
             ee == e[i]
  <2>1. i - 1 \in 0 .. n /\ i - 1 \in Nat
    OBVIOUS
  <2>2. p \in Nat \ {0} /\ D[i - 1] \in 0 .. p - 1 /\ E[i - 1] \in Nat
    BY <1>1, <1>2, <2>1, PStep
  <2>3. dd \in Nat /\ ee \in Nat /\ dd + 1 <= ee
    BY WordsAreNumbers
  <2>4. D[i] = D[i - 1] + dd * p /\ E[i] = E[i - 1] + ee * p
    BY <1>1
  <2> HIDE DEF p, dd, ee
  <2>5. (dd + 1) * p <= ee * p /\ (dd + 1) * p = dd * p + p /\ dd * p \in Nat /\ ee * p \in Nat
    BY <2>2, <2>3
  <2> QED
    BY <2>2, <2>4, <2>5
<1> DEFINE T == {j \in Nat : D[i + j] < E[i + j]}
<1>5. 0 \in T
  BY <1>4
<1>6. ASSUME NEW j \in Nat, j < n - i, j \in T PROVE j + 1 \in T
  <2> DEFINE k == i + j
  <2>1. k + 1 \in 1 .. n /\ (k + 1) - 1 = k /\ k \in 0 .. n /\ k \in Nat
          /\ k + 1 \in i + 1 .. n /\ i + (j + 1) = k + 1
    BY <1>6
  <2>2. d[k + 1] = e[k + 1]
    BY <2>1 DEF Highest
  <2>3. D[k + 1] = D[k] + d[k + 1] * P(k) /\ E[k + 1] = E[k] + d[k + 1] * P(k)
    BY <1>1, <2>1, <2>2
  <2>4. d[k + 1] * P(k) \in Nat /\ D[k] \in Nat /\ E[k] \in Nat
    <3>1. \A l \in 1 .. n : d[l] \in Nat
      BY WordsAreNumbers
    <3>2. d[k + 1] \in Nat /\ P(k) \in Nat
      BY <2>1, <3>1, PStep
    <3>3. d[k + 1] * P(k) \in Nat
      BY <3>2, Products
    <3>4. D[k] \in Nat /\ E[k] \in Nat
      BY <1>1, <2>1
    <3> QED
      BY <3>3, <3>4
  <2>5. D[k] < E[k]
    BY <1>6
  <2>6. D[k + 1] < E[k + 1]
    BY <2>3, <2>4, <2>5
  <2> QED
    BY <2>1, <2>6
<1>7. \A j \in 0 .. n - i : j \in T
  <2>1. n - i \in Nat
    OBVIOUS
  <2> HIDE DEF T
  <2> QED
    BY <1>5, <1>6, <2>1, BoundedInduction
<1>8. n - i \in T /\ i + (n - i) = n
  BY <1>7
<1> QED
  BY <1>3, <1>8

\* Arrays of the same length stand for the same number only if they are the same.
LEMMA ValuesEqual ==
  ASSUME NEW n \in Nat, NEW d \in Words(n), NEW e \in Words(n)
  PROVE  Value(d) = Value(e) <=> \A i \in 1 .. n : d[i] = e[i]
<1>1. d \in [1 .. n -> Nat] /\ e \in [1 .. n -> Nat]
  BY WordsAreNumbers
<1>2. ASSUME \A i \in 1 .. n : d[i] = e[i] PROVE Value(d) = Value(e)
  <2>1. n <= n
    OBVIOUS
  <2> QED
    BY <1>1, <1>2, <2>1, ValuesAgree, ValueType
<1>3. ASSUME \E i \in 1 .. n : d[i] # e[i] PROVE Value(d) # Value(e)
  <2>1. PICK i \in 1 .. n : Highest(d, e, n, i)
    BY <1>3, HighestExists
  <2>2. d[i] \in Nat /\ e[i] \in Nat /\ d[i] # e[i] /\ Highest(e, d, n, i)
    BY <1>1, <2>1 DEF Highest
  <2>3. d[i] < e[i] => Value(d) < Value(e)
    BY <2>1, HighestDecides
  <2>4. e[i] < d[i] => Value(e) < Value(d)
    BY <2>2, HighestDecides
  <2>5. Value(d) \in Nat /\ Value(e) \in Nat
    BY ValueType
  <2> QED
    BY <2>2, <2>3, <2>4, <2>5
<1> QED
  BY <1>2, <1>3

\* operator==: equal words, the missing ones read as zero, mean equal values.
LEMMA EqualIsNumeric ==
  ASSUME NEW m \in Nat, NEW a \in Words(m), NEW n \in Nat, NEW b \in Words(n)
  PROVE  Equal(a, b) <=> Value(a) = Value(b)
<1> DEFINE N == Larger(m, n)
           c == Copy(N, a)
           e == Copy(N, b)
<1>1. N \in Nat /\ m <= N /\ n <= N /\ (N = m \/ N = n)
  BY DEF Larger
<1>2. Len(a) = m /\ Len(b) = n
  BY WordsAreNumbers
<1> HIDE DEF N
<1>3. c \in Words(N) /\ Value(c) = Value(a) /\ \A i \in 1 .. N : c[i] = IF i <= m THEN a[i] ELSE 0
  BY <1>1, CopyLonger
<1>4. e \in Words(N) /\ Value(e) = Value(b) /\ \A i \in 1 .. N : e[i] = IF i <= n THEN b[i] ELSE 0
  BY <1>1, CopyLonger
<1> HIDE DEF c, e
<1>5. Value(a) = Value(b) <=> \A i \in 1 .. N : c[i] = e[i]
  BY <1>1, <1>3, <1>4, ValuesEqual
<1>6. Equal(a, b) <=> /\ \A i \in 1 .. Smaller(m, n) : a[i] = b[i]
                      /\ \A i \in m + 1 .. n : b[i] = 0
                      /\ \A i \in n + 1 .. m : a[i] = 0
  BY <1>2 DEF Equal
<1>7. ASSUME Equal(a, b), NEW i \in 1 .. N PROVE c[i] = e[i]
  BY <1>1, <1>3, <1>4, <1>6, <1>7 DEF Smaller
<1>8. ASSUME \A i \in 1 .. N : c[i] = e[i] PROVE Equal(a, b)
  <2>1. ASSUME NEW i \in 1 .. Smaller(m, n) PROVE a[i] = b[i]
    <3>1. i \in 1 .. N /\ i <= m /\ i <= n
      BY <1>1 DEF Smaller
    <3> QED
      BY <1>3, <1>4, <1>8, <3>1
  <2>2. ASSUME NEW i \in m + 1 .. n PROVE b[i] = 0
    <3>1. i \in 1 .. N /\ ~(i <= m) /\ i <= n
      BY <1>1
    <3> QED
      BY <1>3, <1>4, <1>8, <3>1
  <2>3. ASSUME NEW i \in n + 1 .. m PROVE a[i] = 0
    <3>1. i \in 1 .. N /\ i <= m /\ ~(i <= n)
      BY <1>1
    <3> QED
      BY <1>3, <1>4, <1>8, <3>1
  <2> QED
    BY <1>6, <2>1, <2>2, <2>3
<1> QED
  BY <1>5, <1>7, <1>8

\* A number with a word above all words of another is greater.
LEMMA HighWord ==
  ASSUME NEW n \in Nat, NEW d \in Words(n), NEW e \in Words(n), NEW i \in 1 .. n, e[i] # 0,
         \A j \in i .. n : d[j] = 0
  PROVE  Value(d) < Value(e)
<1>1. d[i] # e[i]
  OBVIOUS
<1>2. PICK h \in 1 .. n : Highest(d, e, n, h)
  BY <1>1, HighestExists
<1>3. h >= i
  BY <1>1, <1>2 DEF Highest
<1>4. d[h] = 0 /\ e[h] \in Nat /\ e[h] # 0
  BY <1>2, <1>3, WordsAreNumbers DEF Highest
<1> QED
  BY <1>2, <1>4, HighestDecides

\* operator<=>: the highest word that differs decides, a missing word being zero.
LEMMA CompareIsNumeric ==
  ASSUME NEW m \in Nat, NEW a \in Words(m), NEW n \in Nat, NEW b \in Words(n), ReadsInside(a, b)
  PROVE  Compare(a, b) = IF Value(a) < Value(b) THEN "less"
                         ELSE IF Value(a) = Value(b) THEN "equal" ELSE "greater"
<1>1. Len(a) = m /\ Len(b) = n /\ DOMAIN a = 1 .. m
  BY WordsAreNumbers DEF Words
<1>2. Value(a) \in Nat /\ Value(b) \in Nat
  BY ValueType
<1>3. CASE \E i \in n + 1 .. m : a[i] # 0
  <2> DEFINE e == Copy(m, b)
  <2>1. PICK i \in n + 1 .. m : a[i] # 0
    BY <1>3
  <2>2. n <= m /\ i \in 1 .. m
    OBVIOUS
  <2>3. e \in Words(m) /\ Value(e) = Value(b) /\ \A j \in 1 .. m : e[j] = IF j <= n THEN b[j] ELSE 0
    BY <2>2, CopyLonger
  <2> HIDE DEF e
  <2>4. \A j \in i .. m : e[j] = 0
    BY <2>3
  <2>5. Value(b) < Value(a)
    BY <2>1, <2>2, <2>3, <2>4, HighWord
  <2>6. Compare(a, b) = "greater"
    BY <1>1, <1>3 DEF Compare
  <2> QED
    BY <1>2, <2>5, <2>6
<1>4. CASE ~ \E i \in n + 1 .. m : a[i] # 0
  <2> DEFINE c == Copy(n, a)
  <2>1. m <= n
    BY <1>1, <1>4 DEF ReadsInside
  <2>2. c \in Words(n) /\ Value(c) = Value(a) /\ \A i \in 1 .. n : c[i] = IF i <= m THEN a[i] ELSE 0
    BY <2>1, CopyLonger
  <2> HIDE DEF c
  <2>3. CASE \E i \in m + 1 .. n : b[i] # 0
    <3>1. PICK i \in m + 1 .. n : b[i] # 0
      BY <2>3
    <3>2. i \in 1 .. n /\ \A j \in i .. n : c[j] = 0
      BY <2>2
    <3>3. Value(a) < Value(b)
      BY <2>2, <3>1, <3>2, HighWord
    <3>4. Compare(a, b) = "less"
      BY <1>1, <1>4, <2>3 DEF Compare
    <3> QED
      BY <3>3, <3>4
  <2>4. CASE (~ \E i \in m + 1 .. n : b[i] # 0) /\ \A i \in 1 .. m : a[i] = b[i]
    <3>1. \A i \in 1 .. n : c[i] = b[i]
      BY <2>2, <2>4
    <3>2. Value(a) = Value(b)
      BY <2>2, <3>1, ValuesEqual
    <3>3. Compare(a, b) = "equal"
      BY <1>1, <1>4, <2>4 DEF Compare
    <3> QED
      BY <1>2, <3>2, <3>3
  <2>5. CASE (~ \E i \in m + 1 .. n : b[i] # 0) /\ \E i \in 1 .. m : a[i] # b[i]
    <3> DEFINE D(i) == Decides(a, b, i)
               i == CHOOSE i \in 1 .. m : D(i)
    <3>1. \A j \in 1 .. m : D(j) <=> Highest(c, b, n, j)
      <4> TAKE j \in 1 .. m
      <4>1. D(j) <=> a[j] # b[j] /\ \A k \in j + 1 .. m : a[k] = b[k]
        BY <1>1 DEF Decides
      <4>2. j \in 1 .. n /\ \A k \in 1 .. m : c[k] = a[k]
        BY <2>1, <2>2
      <4>3. \A k \in m + 1 .. n : c[k] = b[k]
        BY <2>2, <2>5
      <4>4. ASSUME \A k \in j + 1 .. m : a[k] = b[k], NEW k \in j + 1 .. n PROVE c[k] = b[k]
        BY <4>2, <4>3, <4>4
      <4>5. ASSUME \A k \in j + 1 .. n : c[k] = b[k], NEW k \in j + 1 .. m PROVE a[k] = b[k]
        BY <2>1, <4>2, <4>5
      <4> QED
        BY <4>1, <4>2, <4>4, <4>5 DEF Highest
    <3>2. \E j \in 1 .. m : D(j)
      <4>1. PICK l \in 1 .. m : a[l] # b[l]
        BY <2>5
      <4>2. l \in 1 .. n /\ c[l] # b[l]
        BY <2>1, <2>2, <4>1
      <4>3. PICK h \in 1 .. n : Highest(c, b, n, h)
        BY <4>2, HighestExists
      <4>4. h \in 1 .. m
        BY <2>2, <2>5, <4>3 DEF Highest
      <4> QED
        BY <3>1, <4>3, <4>4
    <3>3. i \in 1 .. m /\ D(i)
      <4> HIDE DEF D
      <4> QED
        BY <3>2
    <3>4. Compare(a, b) = IF a[i] < b[i] THEN "less" ELSE "greater"
      BY <1>1, <1>4, <2>5 DEF Compare
    <3> HIDE DEF i, D
    <3>5. Highest(c, b, n, i) /\ i \in 1 .. n /\ c[i] = a[i]
      BY <2>1, <2>2, <3>1, <3>3
    <3>6. Highest(b, c, n, i) /\ a[i] \in Nat /\ b[i] \in Nat /\ a[i] # b[i]
      BY <3>3, <3>5, WordsAreNumbers DEF Highest
    <3>7. a[i] < b[i] => Value(a) < Value(b)
      BY <2>2, <3>5, HighestDecides
    <3>8. b[i] < a[i] => Value(b) < Value(a)
      BY <2>2, <3>5, <3>6, HighestDecides
    <3> QED
      BY <1>2, <3>4, <3>6, <3>7, <3>8
  <2> QED
    BY <2>3, <2>4, <2>5
<1> QED
  BY <1>3, <1>4

\* == compares the integers that the words stand for, whatever the two widths, and so does
\* <=> wherever it reads no word past the end of a shorter second operand.
THEOREM IntegerOrder == Spec => []OrderIsNumeric
<1>1. TypeOK => OrderIsNumeric
  <2> SUFFICES ASSUME TypeOK, NEW y \in Numbers
               PROVE  /\ Equal(x.data, y.data) <=> Value(x.data) = Value(y.data)
                      /\ ReadsInside(x.data, y.data) =>
                           Compare(x.data, y.data) =
                             IF Value(x.data) < Value(y.data) THEN "less"
                             ELSE IF Value(x.data) = Value(y.data) THEN "equal" ELSE "greater"
    BY DEF OrderIsNumeric
  <2> DEFINE m == block_size(x.bits)
             n == block_size(y.bits)
  <2>1. m \in Nat /\ n \in Nat /\ x.data \in Words(m) /\ y.data \in Words(n)
    BY CurrentNumber, NumberWords
  <2> HIDE DEF m, n
  <2> QED
    BY <2>1, EqualIsNumeric, CompareIsNumeric
<1> QED
  BY <1>1, IntegerTypeCorrect, PTL

-----------------------------------------------------------------------------
(* no_ailgn_int and more_int: integers that are the same modulo the width. *)

Modulus == Pow2[KeptBits]
Above == Pow2[WideBits - KeptBits]

\* The wide word is the kept part times the part that is not kept.
LEMMA ModulusType ==
  /\ Modulus \in Nat \ {0} /\ Above \in Nat \ {0} /\ M!Wide \in Nat \ {0}
  /\ M!Wide = Modulus * Above
  /\ KeptBits \in Nat /\ WideBits \in Nat /\ KeptBits <= WideBits /\ M!shift = WideBits - KeptBits
<1>1. WideBits \in Nat /\ KeptBits \in Nat /\ KeptBits <= WideBits
  BY KeptAssumption
<1>2. WideBits - KeptBits \in Nat /\ WideBits = KeptBits + (WideBits - KeptBits)
  BY <1>1
<1>3. Pow2[WideBits] = Modulus * Above /\ Modulus \in Nat \ {0} /\ Above \in Nat \ {0} /\ Pow2[WideBits] \in Nat \ {0}
  BY <1>1, <1>2, Pow2Sum, Pow2Type DEF Modulus, Above
<1> QED
  BY <1>1, <1>3, SamePow2 DEF M!Wide, M!shift

\* What two integers have in common if they are congruent modulo the width.
Same(a, b) == a \in Int /\ b \in Int /\ a % Modulus = b % Modulus

\* Multiples of the modulus make no difference.
LEMMA SameShift ==
  ASSUME NEW a \in Int, NEW k \in Int
  PROVE  Same(a + k * Modulus, a)
<1>1. a + k * Modulus \in Int
  BY ModulusType
<1>2. (a + k * Modulus) % Modulus = a % Modulus
  BY ModulusType, ModShift
<1> QED
  BY <1>1, <1>2 DEF Same

\* To be the same is to differ by a multiple of the modulus.
LEMMA SameIff ==
  ASSUME NEW a \in Int, NEW b \in Int
  PROVE  Same(a, b) <=> \E k \in Int : a = b + k * Modulus
<1> DEFINE m == Modulus
<1>1. m \in Nat \ {0}
  BY ModulusType
<1>2. ASSUME Same(a, b) PROVE \E k \in Int : a = b + k * m
  <2> HIDE DEF m
  <2>1. a = m * (a \div m) + (a % m) /\ b = m * (b \div m) + (b % m) /\ a \div m \in Int
          /\ b \div m \in Int /\ a % m \in Int
    BY <1>1
  <2>2. a % m = b % m
    BY <1>2 DEF Same, m
  <2> DEFINE p == a \div m
             q == b \div m
             r == a % m
  <2>3. a = m * p + r /\ b = m * q + r /\ p \in Int /\ q \in Int /\ r \in Int
    BY <2>1, <2>2
  <2> HIDE DEF p, q, r
  <2>4. a = b + (p - q) * m /\ p - q \in Int
    BY <1>1, <2>3
  <2> QED
    BY <2>4
<1>3. ASSUME NEW k \in Int, a = b + k * m PROVE Same(a, b)
  BY <1>3, SameShift
<1> QED
  BY <1>2, <1>3

\* Same is an equivalence.
LEMMA SameTransitive ==
  ASSUME NEW a, NEW b, NEW c, Same(a, b), Same(b, c)
  PROVE  Same(a, c) /\ Same(b, a)
  BY DEF Same

\* Sums, differences and products of the same are the same.
LEMMA SameSum ==
  ASSUME NEW a, NEW b, NEW c, NEW d, Same(a, b), Same(c, d)
  PROVE  Same(a + c, b + d) /\ Same(a - c, b - d) /\ Same(a * c, b * d)
<1>1. a \in Int /\ b \in Int /\ c \in Int /\ d \in Int
  BY DEF Same
<1>2. PICK j \in Int : a = b + j * Modulus
  BY <1>1, SameIff
<1>3. PICK k \in Int : c = d + k * Modulus
  BY <1>1, SameIff
<1> DEFINE m == Modulus
<1>4. m \in Int
  BY ModulusType
<1> HIDE DEF m
<1>5. a = b + j * m /\ c = d + k * m
  BY <1>2, <1>3 DEF m
<1>6. a + c = (b + d) + (j + k) * m /\ j + k \in Int /\ a + c \in Int /\ b + d \in Int
  BY <1>1, <1>4, <1>5
<1>7. a - c = (b - d) + (j - k) * m /\ j - k \in Int /\ a - c \in Int /\ b - d \in Int
  BY <1>1, <1>4, <1>5
<1>8. a * c = (b * d) + (b * k + j * d + j * k * m) * m /\ b * k + j * d + j * k * m \in Int
      /\ a * c \in Int /\ b * d \in Int
  BY <1>1, <1>4, <1>5
<1>9. ASSUME NEW p \in Int, NEW q \in Int, NEW l \in Int, p = q + l * m PROVE Same(p, q)
  BY <1>9, SameIff DEF m
<1> HIDE DEF Same
<1>10. Same(a + c, b + d)
  BY <1>6, <1>9
<1>11. Same(a - c, b - d)
  BY <1>7, <1>9
<1>12. Same(a * c, b * d)
  <2> DEFINE ac == a * c
             bd == b * d
             l == b * k + j * d + j * k * m
  <2>1. ac = bd + l * m /\ l \in Int /\ ac \in Int /\ bd \in Int
    BY <1>8
  <2> HIDE DEF ac, bd, l
  <2>2. Same(ac, bd)
    BY <1>9, <2>1
  <2> QED
    BY <2>2 DEF ac, bd
<1> QED
  BY <1>10, <1>11, <1>12

\* Nothing that is kept is lost in the wide word.
LEMMA SameWide ==
  ASSUME NEW n \in Int
  PROVE  Same(n % M!Wide, n) /\ n % M!Wide \in 0 .. M!Wide - 1 /\ \E k \in Int : n % M!Wide = n + k * M!Wide
<1> DEFINE W == M!Wide
           q == n \div W
           r == n % W
<1>1. W \in Nat \ {0} /\ W = Modulus * Above /\ Modulus \in Int /\ Above \in Int
  BY ModulusType
<1> HIDE DEF W
<1>2. n = W * q + r /\ q \in Int /\ r \in 0 .. W - 1
  BY <1>1
<1> HIDE DEF q, r
<1>3. r = n + (-q) * W /\ -q \in Int /\ r \in Int
  BY <1>1, <1>2
<1> DEFINE k == -(q * Above)
<1>4. r = n + k * Modulus /\ k \in Int
  <2>1. W * q = (q * Above) * Modulus
    BY <1>1, <1>2
  <2>2. k * Modulus = -((q * Above) * Modulus) /\ (q * Above) * Modulus \in Int /\ k \in Int
    BY <1>1, <1>2
  <2> HIDE DEF k
  <2> QED
    BY <1>2, <2>1, <2>2
<1> HIDE DEF k
<1>5. Same(r, n)
  BY <1>3, <1>4, SameIff
<1> QED
  BY <1>2, <1>3, <1>5 DEF r, W

\* Two's complement of the width, or none.
Signed(r) == IF signed /\ 2 * r >= Modulus THEN r - Modulus ELSE r

\* Wrap takes the remainder and gives it its sign.
LEMMA WrapIsSigned == \A n : M!Word!Wrap(n) = Signed(n % Modulus)
  BY SamePow2 DEF M!Word!Wrap, Signed, Modulus

\* The bytes that are kept, read with the sign or without.
LEMMA GetValue ==
  ASSUME M!TypeOK
  PROVE  M!get = Signed(storage) /\ storage \in 0 .. Modulus - 1 /\ signed \in BOOLEAN
<1>1. storage \in 0 .. Modulus - 1 /\ signed \in BOOLEAN
  BY SamePow2 DEF M!TypeOK, Modulus
<1> DEFINE A == Above
           m == Modulus
           W == M!Wide
           u == storage * A
<1>2. W = m * A /\ m \in Nat \ {0} /\ A \in Nat \ {0} /\ W \in Nat \ {0}
  BY ModulusType
<1>3. storage \in 0 .. m - 1
  BY <1>1
<1>4. M!Extended = (IF 2 * (u % W) >= W THEN (u % W) - W ELSE u % W) \div A
  BY SamePow2, ModulusType DEF M!Extended, M!i64, M!get_raw, Above
<1> HIDE DEF A, m, W
<1>5. u \in Nat /\ u <= W - A
  <2>1. storage * A <= (m - 1) * A /\ (m - 1) * A = m * A - A /\ storage * A \in Nat
    BY <1>2, <1>3
  <2> QED
    BY <1>2, <2>1
<1>6. 2 * u >= W <=> 2 * storage >= m
  <2>1. 2 * u = (2 * storage) * A
    BY <1>2, <1>3
  <2>2. 2 * storage >= m => (2 * storage) * A >= m * A
    BY <1>2, <1>3
  <2>3. 2 * storage < m => (2 * storage) * A < m * A
    BY <1>2, <1>3
  <2> HIDE DEF u
  <2>4. (2 * storage) * A \in Int /\ m * A \in Int /\ 2 * storage \in Int
    BY <1>2, <1>3
  <2> QED
    BY <1>2, <2>1, <2>2, <2>3, <2>4
<1>7. u % W = u
  <2>1. u \in 0 .. W - 1
    BY <1>2, <1>5
  <2> HIDE DEF u
  <2> QED
    BY <1>2, <2>1, RemainderItself
<1>8. 2 * storage >= m => M!Extended = storage - m
  <2> SUFFICES ASSUME 2 * storage >= m PROVE M!Extended = storage - m
    OBVIOUS
  <2> DEFINE t == u - W
             q == storage - m
  <2>1. M!Extended = t \div A
    BY <1>4, <1>6, <1>7
  <2>2. t = A * q + 0 /\ t \in Int /\ q \in Int /\ 0 \in 0 .. A - 1
    BY <1>2, <1>3
  <2> HIDE DEF t, q
  <2>3. t \div A = q
    BY <1>2, <2>2, DivUnique
  <2> QED
    BY <2>1, <2>3 DEF q
<1>9. ~(2 * storage >= m) => M!Extended = storage
  <2> SUFFICES ASSUME ~(2 * storage >= m) PROVE M!Extended = storage
    OBVIOUS
  <2>1. M!Extended = u \div A
    BY <1>4, <1>6, <1>7
  <2>2. u = A * storage + 0 /\ u \in Int /\ storage \in Int /\ 0 \in 0 .. A - 1
    BY <1>2, <1>3
  <2> HIDE DEF u
  <2>3. u \div A = storage
    BY <1>2, <2>2, DivUnique
  <2> QED
    BY <2>1, <2>3
<1>10. M!get = Signed(storage)
  BY <1>8, <1>9 DEF M!get, M!get_raw, Signed, m
<1> QED
  BY <1>1, <1>10

\* The sign makes no difference modulo the width.
LEMMA SignedSame ==
  ASSUME NEW r \in Int
  PROVE  Same(Signed(r), r)
<1>1. Signed(r) = r + 0 * Modulus \/ Signed(r) = r + (-1) * Modulus
  BY ModulusType DEF Signed
<1>2. Same(r + 0 * Modulus, r) /\ Same(r + (-1) * Modulus, r)
  BY SameShift
<1> QED
  BY <1>1, <1>2

\* The value and the raw bytes are the same modulo the width.
LEMMA GetSame ==
  ASSUME M!TypeOK
  PROVE  M!get \in Int /\ storage \in Int /\ Same(storage, M!get)
<1>1. storage \in Int /\ M!get = Signed(storage)
  BY GetValue, ModulusType
<1>2. Same(Signed(storage), storage)
  BY <1>1, SignedSame
<1> QED
  BY <1>1, <1>2 DEF Same

\* The word answers the same for results that are the same modulo its width.
LEMMA WrapSameWord ==
  ASSUME NEW a, NEW b, Same(a, b)
  PROVE  M!Word!Wrap(a) = M!Word!Wrap(b)
  BY WrapIsSigned DEF Same

\* The number that a wide result makes.
LEMMA WordBecomes ==
  ASSUME M!TypeOK, NEW n \in Int, NEW op, NEW arg, M!Becomes(n, op, arg)
  PROVE  /\ M!TypeOK'
         /\ signed' = signed
         /\ M!get' = M!Word!Wrap(n) /\ Same(M!get', n)
         /\ M!get' = M!Word!Wrap(M!get')
         /\ wordcall' = [op |-> op, arg |-> arg]
<1>1. storage' = (n % M!Wide) % Modulus /\ signed' = signed
        /\ wordcall' = [op |-> op, arg |-> arg]
  BY SamePow2 DEF M!Becomes, M!Kept, M!u64, Modulus
<1>2. Same(n % M!Wide, n)
  BY SameWide
<1>3. storage' = n % Modulus
  BY <1>1, <1>2 DEF Same
<1>4. n % Modulus \in 0 .. Modulus - 1
  BY ModulusType
<1>5. M!TypeOK'
  BY <1>1, <1>3, <1>4, GetValue, SamePow2 DEF M!TypeOK, Modulus
<1>6. M!get' = Signed(n % Modulus)
  <2>1. (M!TypeOK => M!get = Signed(storage))'
    BY GetValue, PTL
  <2>2. M!get' = Signed(storage)'
    BY <1>5, <2>1
  <2> QED
    BY <1>1, <1>3, <2>2 DEF Signed
<1>7. Same(Signed(n % Modulus), n % Modulus) /\ Same(n % Modulus, n)
  <2>1. n % Modulus \in Int
    BY <1>4, ModulusType
  <2>2. (n % Modulus) % Modulus = n % Modulus
    <3> DEFINE r == n % Modulus
    <3>1. r \in 0 .. Modulus - 1 /\ Modulus \in Nat \ {0}
      BY <1>4, ModulusType
    <3> HIDE DEF r
    <3>2. r % Modulus = r
      BY <3>1, RemainderItself
    <3> QED
      BY <3>2 DEF r
  <2> QED
    BY <2>1, <2>2, SignedSame DEF Same
<1>8. Same(M!get', n)
  BY <1>6, <1>7, SameTransitive
<1>9. M!get' = M!Word!Wrap(n)
  BY <1>6, WrapIsSigned
<1>10. M!Word!Wrap(M!get') = M!Word!Wrap(n)
  BY <1>8, WrapSameWord
<1> QED
  BY <1>1, <1>5, <1>8, <1>9, <1>10

-----------------------------------------------------------------------------
(* The operations of a word, one by one.                                   *)

Args == M!U64 \cup M!I64

\* Arguments are integers.
LEMMA ArgsType ==
  /\ \A v \in Args : v \in Int
  /\ 0 \in Args /\ M!Operands \subseteq Args
  /\ \A v \in M!U64 : v \in Nat
<1>1. \A u \in M!U64 : u \in Nat
  BY ModulusType DEF M!U64
<1>2. 0 \in M!U64
  BY ModulusType DEF M!U64
<1>3. \A v \in M!I64 : v \in Int
  BY <1>1, ModulusType DEF M!I64, M!i64
<1> QED
  BY <1>1, <1>2, <1>3 DEF Args, M!Operands

\* The cast of an operand to u64 makes no difference modulo the width.
LEMMA U64Same ==
  ASSUME NEW v \in Int
  PROVE  Same(M!u64(v), v) /\ M!u64(v) \in Nat
<1>1. Same(v % M!Wide, v) /\ v % M!Wide \in Nat
  BY SameWide, ModulusType
<1> QED
  BY <1>1 DEF M!u64

\* Every integer is the same as itself.
LEMMA SameSelf == \A a \in Int : Same(a, a)
  BY DEF Same

\* A result that is congruent to the exact one is a step of the word.
LEMMA ArithmeticStep ==
  ASSUME M!TypeOK, NEW n \in Int, NEW op \in M!Word!Arithmetic, NEW arg \in Args,
         M!Becomes(n, op, arg), Same(n, M!Word!Apply(M!get, [op |-> op, arg |-> arg]))
  PROVE  M!Word!Next /\ M!TypeOK'
<1> DEFINE c == [op |-> op, arg |-> arg]
<1>1. /\ signed' = signed /\ M!get' = M!Word!Wrap(n) /\ M!get' = M!Word!Wrap(M!get')
      /\ wordcall' = c /\ M!TypeOK'
  BY WordBecomes
<1>2. M!Word!Wrap(n) = M!Word!Wrap(M!Word!Apply(M!get, c))
  BY WrapSameWord
<1>3. wordcall' \in M!Word!Calls
  BY <1>1 DEF M!Word!Calls, Args
<1>4. wordcall'.op \notin M!Word!Bitwise2
  BY <1>1 DEF M!Word!Bitwise2, M!Word!Arithmetic
<1> QED
  BY <1>1, <1>2, <1>3, <1>4 DEF M!Word!Next

\* Magnitudes are natural numbers, and zero only for zero.
LEMMA MagnitudeType == \A n \in Int : M!Magnitude(n) \in Nat /\ (n # 0 => M!Magnitude(n) # 0)
  BY DEF M!Magnitude

\* The code divides as the word promises to.
LEMMA DividedType ==
  ASSUME NEW a \in Int, NEW b \in Int \ {0}
  PROVE  M!Divided(a, b) \in Int /\ M!Word!Quotient(a, b) = M!Divided(a, b)
<1>1. M!Magnitude(a) \in Nat /\ M!Magnitude(b) \in Nat \ {0}
  BY MagnitudeType
<1>2. M!Magnitude(a) \div M!Magnitude(b) \in Nat
  BY <1>1, RemainderBound
<1>3. M!Divided(a, b) \in Int
  BY <1>2 DEF M!Divided
<1>4. M!Word!Quotient(a, b) = M!Divided(a, b)
  BY DEF M!Word!Quotient, M!Divided, M!Word!Magnitude, M!Magnitude
<1> QED
  BY <1>3, <1>4

\* The operations with an operand: + - * on the raw bytes, / and % on the value.
LEMMA OperandStep ==
  ASSUME M!TypeOK, NEW v \in M!Operands,
         M!Set(v) \/ M!Add(v) \/ M!Sub(v) \/ M!Mul(v) \/ M!Div(v) \/ M!Rem(v)
  PROVE  M!Word!Next /\ M!TypeOK'
<1>1. v \in Args /\ v \in Int
  BY ArgsType
<1>2. M!get \in Int /\ storage \in Int /\ Same(storage, M!get) /\ M!get_raw = storage
  BY GetSame DEF M!get_raw
<1>3. Same(M!u64(v), v) /\ M!u64(v) \in Nat
  BY <1>1, U64Same
<1>4. CASE M!Set(v)
  <2>1. M!Becomes(v, "set", v) /\ "set" \in M!Word!Arithmetic
    BY <1>4 DEF M!Set, M!Word!Arithmetic
  <2>2. M!Word!Apply(M!get, [op |-> "set", arg |-> v]) = v
    BY DEF M!Word!Apply
  <2> QED
    BY <1>1, <2>1, <2>2, SameSelf, ArithmeticStep
<1>5. CASE M!Add(v)
  <2> DEFINE n == storage + M!u64(v)
  <2>1. M!Becomes(n, "add", v) /\ "add" \in M!Word!Arithmetic /\ n \in Int
    BY <1>2, <1>3, <1>5 DEF M!Add, M!Word!Arithmetic
  <2>2. M!Word!Apply(M!get, [op |-> "add", arg |-> v]) = M!get + v
    BY DEF M!Word!Apply
  <2>3. Same(n, M!get + v)
    BY <1>2, <1>3, SameSum
  <2> HIDE DEF n
  <2> QED
    BY <1>1, <2>1, <2>2, <2>3, ArithmeticStep
<1>6. CASE M!Sub(v)
  <2> DEFINE n == storage - M!u64(v)
  <2>1. M!Becomes(n, "sub", v) /\ "sub" \in M!Word!Arithmetic /\ n \in Int
    BY <1>2, <1>3, <1>6 DEF M!Sub, M!Word!Arithmetic
  <2>2. M!Word!Apply(M!get, [op |-> "sub", arg |-> v]) = M!get - v
    BY DEF M!Word!Apply
  <2>3. Same(n, M!get - v)
    BY <1>2, <1>3, SameSum
  <2> HIDE DEF n
  <2> QED
    BY <1>1, <2>1, <2>2, <2>3, ArithmeticStep
<1>7. CASE M!Mul(v)
  <2> DEFINE n == storage * M!u64(v)
  <2>1. M!Becomes(n, "mul", v) /\ "mul" \in M!Word!Arithmetic /\ n \in Int
    BY <1>2, <1>3, <1>7 DEF M!Mul, M!Word!Arithmetic
  <2>2. M!Word!Apply(M!get, [op |-> "mul", arg |-> v]) = M!get * v
    BY DEF M!Word!Apply
  <2>3. Same(n, M!get * v)
    BY <1>2, <1>3, SameSum
  <2> HIDE DEF n
  <2> QED
    BY <1>1, <2>1, <2>2, <2>3, ArithmeticStep
<1>8. CASE M!Div(v)
  <2> DEFINE n == M!Divided(M!get, v)
  <2>1. M!Becomes(n, "div", v) /\ "div" \in M!Word!Arithmetic /\ v # 0
    BY <1>8 DEF M!Div, M!Divisible, M!Word!Arithmetic
  <2>2. n \in Int /\ M!Word!Quotient(M!get, v) = n
    BY <1>1, <1>2, <2>1, DividedType
  <2>3. M!Word!Apply(M!get, [op |-> "div", arg |-> v]) = M!Word!Quotient(M!get, v)
    BY DEF M!Word!Apply
  <2> HIDE DEF n
  <2>4. Same(n, n)
    BY <2>2, SameSelf
  <2> QED
    BY <1>1, <2>1, <2>2, <2>3, <2>4, ArithmeticStep
<1>9. CASE M!Rem(v)
  <2> DEFINE n == M!get - v * M!Divided(M!get, v)
  <2>1. M!Becomes(n, "rem", v) /\ "rem" \in M!Word!Arithmetic /\ v # 0
    BY <1>9 DEF M!Rem, M!Divisible, M!Word!Arithmetic
  <2>2. M!Divided(M!get, v) \in Int /\ M!Word!Quotient(M!get, v) = M!Divided(M!get, v)
    BY <1>1, <1>2, <2>1, DividedType
  <2>3. M!Word!Apply(M!get, [op |-> "rem", arg |-> v]) = n
    BY <2>2 DEF M!Word!Apply, M!Word!Remainder
  <2>4. n \in Int
    BY <1>1, <1>2, <2>2
  <2> HIDE DEF n
  <2>5. Same(n, n)
    BY <2>4, SameSelf
  <2> QED
    BY <1>1, <2>1, <2>3, <2>4, <2>5, ArithmeticStep
<1> QED
  BY <1>4, <1>5, <1>6, <1>7, <1>8, <1>9

\* Negation on the value, complement on the raw bytes.
LEMMA SignStep ==
  ASSUME M!TypeOK, M!Neg \/ M!Not
  PROVE  M!Word!Next /\ M!TypeOK'
<1>1. M!get \in Int /\ storage \in Int /\ Same(storage, M!get) /\ M!get_raw = storage
  BY GetSame DEF M!get_raw
<1>2. 0 \in Args
  BY ArgsType
<1>3. CASE M!Neg
  <2> DEFINE n == -M!get
  <2>1. M!Becomes(n, "neg", 0) /\ "neg" \in M!Word!Arithmetic /\ n \in Int
    BY <1>1, <1>3 DEF M!Neg, M!Word!Arithmetic
  <2>2. M!Word!Apply(M!get, [op |-> "neg", arg |-> 0]) = n
    BY DEF M!Word!Apply
  <2> HIDE DEF n
  <2>3. Same(n, n)
    BY <2>1, SameSelf
  <2> QED
    BY <1>2, <2>1, <2>2, <2>3, ArithmeticStep
<1>4. CASE M!Not
  <2> DEFINE n == M!Wide - 1 - storage
             b == -M!get - 1
  <2>1. M!Becomes(n, "not", 0) /\ "not" \in M!Word!Arithmetic
    BY <1>1, <1>4 DEF M!Not, M!Word!Arithmetic
  <2>2. M!Word!Apply(M!get, [op |-> "not", arg |-> 0]) = b
    BY DEF M!Word!Apply
  <2>3. n \in Int /\ b \in Int
    BY <1>1, ModulusType
  <2>4. Same(n, b)
    <3>1. PICK k \in Int : storage = M!get + k * Modulus
      BY <1>1, SameIff
    <3> DEFINE m == Modulus
               A == Above
               g == M!get
               s == storage
               W == M!Wide
    <3>2. W = m * A /\ s = g + k * m /\ m \in Int /\ A \in Int /\ g \in Int /\ s \in Int
      BY <1>1, <3>1, ModulusType
    <3>3. n = W - 1 - s /\ b = -g - 1
      OBVIOUS
    <3> HIDE DEF m, A, g, s, W, n, b
    <3>4. n = b + (A - k) * m /\ A - k \in Int
      <4>1. (A - k) * m = m * A - k * m /\ m * A \in Int /\ k * m \in Int
        BY <3>2
      <4> QED
        BY <3>2, <3>3, <4>1
    <3> QED
      BY <2>3, <3>4, SameIff DEF m
  <2> HIDE DEF n, b
  <2> QED
    BY <1>2, <2>1, <2>2, <2>3, <2>4, ArithmeticStep
<1> QED
  BY <1>3, <1>4

\* << on the raw bytes, >> on the value.
LEMMA ShiftStep ==
  ASSUME M!TypeOK, NEW s \in M!U64, M!Shl(s) \/ M!Shr(s)
  PROVE  M!Word!Next /\ M!TypeOK'
<1>1. M!get \in Int /\ storage \in Int /\ Same(storage, M!get) /\ M!get_raw = storage
  BY GetSame DEF M!get_raw
<1>2. s \in Args /\ s \in Nat
  BY ArgsType DEF Args
<1>3. Pow2[s] \in Nat \ {0} /\ M!Pow2 = Pow2 /\ M!Word!Pow2 = Pow2
  BY <1>2, Pow2Type, SamePow2
<1>4. CASE M!Shl(s)
  <2> DEFINE e == storage * Pow2[s]
             n == e % M!Wide
             b == M!get * Pow2[s]
  <2>1. M!Becomes(n, "shl", s) /\ "shl" \in M!Word!Arithmetic
    BY <1>1, <1>3, <1>4 DEF M!Shl, M!Word!Arithmetic
  <2>2. M!Word!Apply(M!get, [op |-> "shl", arg |-> s]) = b
    BY <1>3 DEF M!Word!Apply
  <2>3. e \in Int
    BY <1>1, <1>3
  <2>4. Same(e, b)
    <3>1. Same(Pow2[s], Pow2[s])
      BY <1>3, SameSelf
    <3> QED
      BY <1>1, <3>1, SameSum
  <2> HIDE DEF e, b
  <2>5. Same(n, e) /\ n \in Int
    BY <2>3, SameWide DEF Same
  <2> HIDE DEF n
  <2>6. Same(n, b)
    BY <2>4, <2>5, SameTransitive
  <2> QED
    BY <1>2, <2>1, <2>2, <2>5, <2>6, ArithmeticStep
<1>5. CASE M!Shr(s)
  <2> DEFINE n == M!get \div Pow2[s]
  <2>1. M!Becomes(n, "shr", s) /\ "shr" \in M!Word!Arithmetic
    BY <1>3, <1>5 DEF M!Shr, M!Word!Arithmetic
  <2>2. M!Word!Apply(M!get, [op |-> "shr", arg |-> s]) = n
    BY <1>3 DEF M!Word!Apply
  <2>3. n \in Int
    BY <1>1, <1>3, DivMod
  <2> HIDE DEF n
  <2>4. Same(n, n)
    BY <2>3, SameSelf
  <2> QED
    BY <1>2, <2>1, <2>2, <2>3, <2>4, ArithmeticStep
<1> QED
  BY <1>4, <1>5

-----------------------------------------------------------------------------
(* The bitwise operations, bit by bit.                                     *)

Bit(n, i) == (n \div Pow2[i]) % 2

\* A bit is zero or one.
LEMMA BitType ==
  ASSUME NEW n \in Int, NEW i \in Nat
  PROVE  Bit(n, i) \in {0, 1}
<1>1. Pow2[i] \in Nat \ {0}
  BY Pow2Type
<1>2. n \div Pow2[i] \in Int
  BY <1>1
<1> QED
  BY <1>2 DEF Bit

\* A bit does not depend on what a multiple of a higher power adds.
LEMMA BitBelow ==
  ASSUME NEW n \in Int, NEW i \in Nat, NEW j \in Nat, i < j, NEW k \in Int
  PROVE  Bit(n + k * Pow2[j], i) = Bit(n, i)
<1> DEFINE p == Pow2[i]
           h == Pow2[j - i - 1]
           q == n \div p
<1>1. p \in Nat \ {0} /\ h \in Nat \ {0} /\ Pow2[j] = 2 * (p * h)
  <2>1. j - i - 1 \in Nat /\ i + (j - i - 1) \in Nat /\ (i + (j - i - 1)) + 1 = j
    OBVIOUS
  <2>2. Pow2[j] = 2 * Pow2[i + (j - i - 1)]
    BY <2>1, Pow2Next
  <2>3. Pow2[i + (j - i - 1)] = p * h
    BY <2>1, Pow2Sum
  <2> QED
    BY <2>1, <2>2, <2>3, Pow2Type
<1> HIDE DEF p, h
<1> DEFINE l == k * h
<1>2. k * Pow2[j] = (2 * l) * p /\ l \in Int
  BY <1>1
<1>3. q \in Int
  BY <1>1
<1> HIDE DEF l, q
<1>4. (n + (2 * l) * p) \div p = q + 2 * l
  <2> DEFINE t == 2 * l
  <2>1. t \in Int
    BY <1>2
  <2> HIDE DEF t
  <2>2. (n + t * p) \div p = q + t
    BY <1>1, <2>1, ModShift DEF q
  <2> QED
    BY <2>2 DEF t
<1>5. (q + 2 * l) % 2 = q % 2
  BY <1>2, <1>3
<1> QED
  BY <1>2, <1>4, <1>5 DEF Bit, p, q

\* What can be told from the bytes that are kept.
LEMMA BitSame ==
  ASSUME NEW a, NEW b, Same(a, b), NEW i \in 0 .. KeptBits - 1
  PROVE  Bit(a, i) = Bit(b, i)
<1>1. a \in Int /\ b \in Int
  BY DEF Same
<1>2. PICK k \in Int : a = b + k * Modulus
  BY <1>1, SameIff
<1>3. i \in Nat /\ i < KeptBits /\ KeptBits \in Nat
  BY ModulusType
<1> QED
  BY <1>1, <1>2, <1>3, BitBelow DEF Modulus

\* The bits of the words together, one after the other.
LEMMA BitwiseBits ==
  ASSUME NEW op, NEW a, NEW b
  PROVE  /\ M!Bitwise(op, a, b) \in Nat
         /\ \A i \in 0 .. WideBits - 1 :
              Bit(M!Bitwise(op, a, b), i) = IF M!BitAnswer(op, Bit(a, i), Bit(b, i)) THEN 1 ELSE 0
<1> DEFINE n == WideBits
           One(i) == IF M!BitAnswer(op, Bit(a, i), Bit(b, i)) THEN 1 ELSE 0
           Two(i) == IF M!BitAnswer(op, M!BitOf(a, i), M!BitOf(b, i)) THEN M!Pow2[i] ELSE 0
           step == [i \in 1 .. n |-> [v \in Nat |-> v + Two(i - 1)]]
           Is(p) == p = [i \in 0 .. n |-> IF i = 0 THEN 0
                           ELSE p[i - 1] + IF M!BitAnswer(op, M!BitOf(a, i - 1), M!BitOf(b, i - 1))
                                           THEN M!Pow2[i - 1] ELSE 0]
           F == CHOOSE p : Is(p)
<1>1. n \in Nat
  BY ModulusType
<1>2. \A i \in Nat : Two(i) = One(i) * Pow2[i] /\ Two(i) \in Nat /\ One(i) \in {0, 1}
  <2> TAKE i \in Nat
  <2>1. Pow2[i] \in Nat
    BY Pow2Type
  <2>2. M!BitOf(a, i) = Bit(a, i) /\ M!BitOf(b, i) = Bit(b, i)
    BY SamePow2 DEF M!BitOf, Bit
  <2>3. Two(i) = IF One(i) = 1 THEN Pow2[i] ELSE 0
    BY <2>2, SamePow2
  <2>4. One(i) \in {0, 1}
    OBVIOUS
  <2> HIDE DEF Two, One
  <2> QED
    BY <2>1, <2>3, <2>4
<1>3. step \in [1 .. n -> [Nat -> Nat]] /\ \A i \in 1 .. n, v \in Nat : step[i][v] = v + Two(i - 1)
  <2>1. \A i \in 1 .. n : Two(i - 1) \in Nat
    <3> TAKE i \in 1 .. n
    <3>1. i - 1 \in Nat
      BY <1>1
    <3> HIDE DEF Two, One
    <3> QED
      BY <1>2, <3>1
  <2> HIDE DEF Two
  <2> QED
    BY <2>1
<1> HIDE DEF step
<1>4. PICK p : IsRun(p, n, Nat, 0, step)
  BY <1>1, <1>3, BoundedRecursion
<1>5. p \in [0 .. n -> Nat] /\ p[0] = 0 /\ \A i \in 1 .. n : p[i] = step[i][p[i - 1]]
  BY <1>4 DEF IsRun
<1>6. \A i \in 1 .. n : p[i] = p[i - 1] + Two(i - 1)
  <2> TAKE i \in 1 .. n
  <2>1. p[i - 1] \in Nat
    BY <1>1, <1>5
  <2> HIDE DEF Two
  <2> QED
    BY <2>1, <1>3, <1>5
<1>7. Is(p)
  BY <1>5, <1>6
<1>8. Is(F)
  <2> HIDE DEF Is
  <2> QED
    BY <1>7, Zenon
<1>9. M!Bitwise(op, a, b) = F[n]
  BY DEF M!Bitwise
<1> HIDE DEF F
<1>10. F = [i \in 0 .. n |-> IF i = 0 THEN 0 ELSE F[i - 1] + Two(i - 1)]
  BY <1>8
<1> HIDE DEF Is, Two, One
<1>11. F[0] = 0 /\ \A i \in 1 .. n : F[i] = F[i - 1] + Two(i - 1)
  BY <1>1, <1>10
<1>12. F = [i \in 0 .. n |-> F[i]]
  BY <1>10
<1>13. IsRun(F, n, Nat, 0, step)
  BY <1>1, <1>3, <1>11, <1>12, RunByStep
<1>14. F \in [0 .. n -> Nat]
  BY <1>13 DEF IsRun
<1> DEFINE T == {j \in Nat : F[j] < Pow2[j] /\ \A i \in 0 .. j - 1 : Bit(F[j], i) = One(i)}
<1>15. 0 \in T
  BY <1>11, Pow2Zero
<1>16. ASSUME NEW j \in Nat, j < n, j \in T PROVE j + 1 \in T
  <2>1. j + 1 \in 1 .. n /\ (j + 1) - 1 = j /\ j \in 0 .. n
    BY <1>1, <1>16
  <2>2. F[j + 1] = F[j] + One(j) * Pow2[j] /\ One(j) \in {0, 1} /\ F[j] \in Nat
    BY <1>2, <1>11, <1>14, <2>1
  <2>3. Pow2[j] \in Nat \ {0} /\ Pow2[j + 1] = 2 * Pow2[j]
    BY Pow2Type, Pow2Next
  <2>4. F[j] \in 0 .. Pow2[j] - 1
    BY <1>16, <2>2, <2>3
  <2>5. F[j + 1] < Pow2[j + 1]
    <3>1. One(j) * Pow2[j] = 0 \/ One(j) * Pow2[j] = Pow2[j]
      BY <2>2, <2>3
    <3> QED
      BY <2>2, <2>3, <2>4, <3>1
  <2>6. ASSUME NEW i \in 0 .. j - 1 PROVE Bit(F[j + 1], i) = One(i)
    <3>1. i \in Nat /\ i < j /\ One(j) \in Int /\ F[j] \in Int
      BY <2>2
    <3>2. Bit(F[j] + One(j) * Pow2[j], i) = Bit(F[j], i)
      BY <3>1, BitBelow
    <3> QED
      BY <1>16, <2>2, <3>2
  <2>7. Bit(F[j + 1], j) = One(j)
    <3> DEFINE f == F[j]
               o == One(j)
               m == Pow2[j]
    <3>1. f \in 0 .. m - 1 /\ m \in Nat \ {0} /\ o \in {0, 1} /\ F[j + 1] = f + o * m
      BY <2>2, <2>3, <2>4
    <3> HIDE DEF f, o, m
    <3>2. f + o * m = m * o + f /\ f + o * m \in Int /\ o \in Int
      BY <3>1
    <3> DEFINE t == f + o * m
    <3>3. t = m * o + f /\ t \in Int /\ o \in Int /\ F[j + 1] = t
      BY <3>1, <3>2
    <3> HIDE DEF t
    <3>4. t \div m = o
      BY <3>1, <3>3, DivUnique
    <3>5. o % 2 = o
      BY <3>1
    <3> QED
      BY <3>3, <3>4, <3>5 DEF Bit, m, o
  <2>8. \A i \in 0 .. (j + 1) - 1 : i = j \/ i \in 0 .. j - 1
    OBVIOUS
  <2> QED
    BY <2>5, <2>6, <2>7, <2>8
<1>17. \A j \in 0 .. n : j \in T
  <2> HIDE DEF T
  <2> QED
    BY <1>1, <1>15, <1>16, BoundedInduction
<1>18. n \in T /\ F[n] \in Nat
  BY <1>1, <1>14, <1>17
<1> QED
  BY <1>9, <1>18 DEF One

\* The bitwise operators on the raw bytes.
LEMMA BitwiseStep ==
  ASSUME M!TypeOK, NEW v \in M!Operands, NEW op \in {"and", "or", "xor"}, M!BitByBit(op, v)
  PROVE  M!Word!Next /\ M!TypeOK'
<1> DEFINE u == M!u64(v)
           n == M!Bitwise(op, storage, u)
<1>1. v \in Args /\ v \in Int
  BY ArgsType
<1>2. M!get \in Int /\ storage \in Int /\ Same(storage, M!get) /\ M!get_raw = storage
  BY GetSame DEF M!get_raw
<1>3. Same(u, v) /\ u \in Int
  BY <1>1, U64Same
<1>4. M!Becomes(n, op, v)
  BY <1>2 DEF M!BitByBit
<1>5. n \in Nat /\ \A i \in 0 .. WideBits - 1 :
        Bit(n, i) = IF M!BitAnswer(op, Bit(storage, i), Bit(u, i)) THEN 1 ELSE 0
  BY BitwiseBits
<1> HIDE DEF u, n
<1>6. /\ signed' = signed /\ M!get' = M!Word!Wrap(M!get') /\ Same(M!get', n)
      /\ wordcall' = [op |-> op, arg |-> v] /\ M!TypeOK'
  BY <1>4, <1>5, WordBecomes
<1>7. wordcall' \in M!Word!Calls /\ wordcall'.op \in M!Word!Bitwise2
  BY <1>1, <1>6 DEF M!Word!Calls, M!Word!Bitwise2, Args
<1>8. \A k, i : M!Word!Bit(k, i) = Bit(k, i)
  BY SamePow2 DEF M!Word!Bit, Bit
<1>9. ASSUME NEW i \in 0 .. KeptBits - 1
      PROVE  M!Word!Bit(M!get', i) =
               M!Word!Combined(op, M!Word!Bit(M!get, i), M!Word!Bit(v, i))
  <2> DEFINE p == Bit(storage, i)
             q == Bit(u, i)
  <2>1. i \in 0 .. WideBits - 1 /\ i \in Nat
    BY ModulusType
  <2>2. p \in {0, 1} /\ q \in {0, 1}
    BY <1>2, <1>3, <2>1, BitType
  <2>3. Bit(M!get', i) = IF M!BitAnswer(op, p, q) THEN 1 ELSE 0
    BY <1>5, <1>6, <2>1, BitSame
  <2>4. Bit(M!get, i) = p /\ Bit(v, i) = q
    BY <1>2, <1>3, BitSame
  <2> HIDE DEF p, q
  <2>5. (IF M!BitAnswer(op, p, q) THEN 1 ELSE 0) = M!Word!Combined(op, p, q)
    <3>1. CASE op = "and"
      BY <2>2, <3>1 DEF M!BitAnswer, M!Word!Combined
    <3>2. CASE op = "or"
      BY <2>2, <3>2 DEF M!BitAnswer, M!Word!Combined
    <3>3. CASE op = "xor"
      BY <2>2, <3>3 DEF M!BitAnswer, M!Word!Combined
    <3> QED
      BY <3>1, <3>2, <3>3
  <2> QED
    BY <1>8, <2>3, <2>4, <2>5
<1> QED
  BY <1>6, <1>7, <1>9 DEF M!Word!Next

\* Every call on the word is a step of what it promises, and keeps its bytes bytes.
LEMMA WordStep ==
  ASSUME M!TypeOK, [M!Next]_(M!vars)
  PROVE  M!TypeOK' /\ [M!Word!Next]_<<signed, M!get, wordcall>>
<1>1. CASE M!Next
  BY <1>1, OperandStep, BitwiseStep, SignStep, ShiftStep DEF M!Next
<1>2. CASE UNCHANGED M!vars
  BY <1>2 DEF M!vars, M!get, M!Extended, M!get_raw, M!TypeOK
<1> QED
  BY <1>1, <1>2

\* A new word is zero.
LEMMA WordInit == M!Init => M!TypeOK /\ M!Word!Init
<1> SUFFICES ASSUME M!Init PROVE M!TypeOK /\ M!Word!Init
  OBVIOUS
<1>1. M!TypeOK
  BY ModulusType, SamePow2 DEF M!Init, M!TypeOK, Modulus
<1>2. M!get = 0
  <2>1. M!get = Signed(storage) /\ storage = 0
    BY <1>1, GetValue DEF M!Init
  <2> QED
    BY <2>1, ModulusType DEF Signed
<1> QED
  BY <1>1, <1>2 DEF M!Init, M!Word!Init

\* The bytes that a no_ailgn_int or a more_int keeps stay within its width.
THEOREM WordTypeCorrect == M!Spec => []WordTypeOK
<1>1. M!Init => M!TypeOK
  BY WordInit
<1>2. M!TypeOK /\ [M!Next]_(M!vars) => M!TypeOK'
  BY WordStep
<1> QED
  BY <1>1, <1>2, PTL DEF M!Spec, WordTypeOK

\* no_ailgn_int and more_int of any number of bits, kept of a wide word of any number of
\* bits: each operation answers what the exact one on the value would, wrapped around.
THEOREM WordActsAsModularWord == M!Spec => ActsAsModularWord
<1>1. M!Init => M!TypeOK /\ M!Word!Init
  BY WordInit
<1>2. M!TypeOK /\ [M!Next]_(M!vars) => M!TypeOK'
  BY WordStep
<1>3. M!TypeOK /\ [M!Next]_(M!vars) => [M!Word!Next]_<<signed, M!get, wordcall>>
  BY WordStep
<1> QED
  BY <1>1, <1>2, <1>3, PTL DEF M!Spec, ActsAsModularWord, M!ActsAsModularWord, M!Word!Spec

-----------------------------------------------------------------------------
(* The runs.                                                               *)

\* What is proved about either integer alone holds of the system that the runs check.
THEOREM RunsAreBoth == MCSpec => FittingSpec /\ Spec /\ M!Spec
<1>1. MCInit => Init /\ M!Init
  BY DEF MCInit
<1>2. [MCNext]_<<which, vars, words>> => [FittingNext]_vars /\ [Next]_vars /\ [M!Next]_(M!vars)
  <2> SUFFICES ASSUME [MCNext]_<<which, vars, words>>
               PROVE  [FittingNext]_vars /\ [Next]_vars /\ [M!Next]_(M!vars)
    OBVIOUS
  <2>1. CASE which = "array_uint" /\ FittingNext /\ UNCHANGED <<which, words>>
    <3>1. Next
      BY <2>1 DEF FittingNext, Next
    <3>2. UNCHANGED M!vars
      BY <2>1 DEF words, M!vars
    <3> QED
      BY <2>1, <3>1, <3>2
  <2>2. CASE which = "more_int" /\ M!Next /\ UNCHANGED <<which, vars>>
    BY <2>2
  <2>3. CASE UNCHANGED <<which, vars, words>>
    <3>1. UNCHANGED M!vars /\ UNCHANGED vars
      BY <2>3 DEF words, M!vars
    <3> QED
      BY <3>1
  <2> QED
    BY <2>1, <2>2, <2>3 DEF MCNext
<1> QED
  BY <1>1, <1>2, PTL DEF MCSpec, FittingSpec, Spec, M!Spec
=============================================================================
