------------------------------ MODULE BigUint -------------------------------
(***************************************************************************)
(* chenc::Struct::detail::array_uint<Bits> (struct/detail/                 *)
(* array_big_int.hpp): an unsigned integer of Bits bits in an array of     *)
(* words, lowest first, whose unused top bits are kept zero.               *)
(*                                                                         *)
(* The system is one number x and a sequence of calls on it; an operator   *)
(* that returns a new number makes that number the next x.  Operands have  *)
(* any width.  The words have WordBits bits, 64 in the code.               *)
(***************************************************************************)
EXTENDS Integers, Sequences, Powers

CONSTANTS WordBits, Widths

ASSUME WidthsAssumption ==
  /\ WordBits \in Nat \ {0} /\ WordBits \in Widths /\ Widths \subseteq Nat \ {0}
  /\ \E w \in Widths : \A v \in Widths : v <= w

Base == Pow2[WordBits]
Weight(i) == Pow2[WordBits * (i - 1)]   \* what a one in word i counts for
block_size(w) == (w + WordBits - 1) \div WordBits
Smaller(m, n) == IF m < n THEN m ELSE n
Larger(m, n) == IF m < n THEN n ELSE m

VARIABLES
  x,     \* the number, [bits |-> its width, data |-> its words]
  call   \* the operation that made it, for ModularInt

vars == <<x, call>>

\* The integers that the first words of an array stand for, and the array itself.
Values(d) ==
  LET v[i \in 0 .. Len(d)] == IF i = 0 THEN 0 ELSE v[i - 1] + d[i] * Weight(i)
  IN v
Value(d) == Values(d)[Len(d)]

\* Mutant: the unused bits of the top word are left as they are.
SanitizeNot(w, d) == d

Sanitize(w, d) ==
  [d EXCEPT ![Len(d)] = IF w % WordBits = 0 THEN @ ELSE @ % Pow2[w % WordBits]]

Number(w, d) == [bits |-> w, data |-> Sanitize(w, d)]
Numbers == UNION {{[bits |-> w, data |-> [i \in 1 .. block_size(w) |-> (v \div Weight(i)) % Base]] :
                     v \in 0 .. Pow2[w] - 1} : w \in Widths}

TypeOK ==
  /\ x.bits \in Widths
  /\ x.data \in [1 .. block_size(x.bits) -> 0 .. Base - 1]
  /\ Value(x.data) < Pow2[x.bits]

-----------------------------------------------------------------------------
(* The algorithms, on word arrays; n is the number of words of the result. *)

\* array_uint(val) for unsigned and signed val: the other words are zero or, below
\* zero, all ones.
FromWord(n, word, negative) ==
  [i \in 1 .. n |-> IF i = 1 THEN word ELSE IF negative THEN Base - 1 ELSE 0]

\* Construction and assignment from another width.
Copy(n, d) == [i \in 1 .. n |-> IF i <= Len(d) THEN d[i] ELSE 0]

\* add_to, with the carry out of every word.  src_max is the shortest length, as common
\* is, so that the second phase, which would go through the longer operand, is compiled
\* out: the carry follows the common words, and zeros follow the carry.
Carries(a, b, common) ==
  LET carry[i \in 0 .. common] == IF i = 0 THEN 0 ELSE (a[i] + b[i] + carry[i - 1]) \div Base
  IN carry
AddTo(n, a, b) ==
  LET common == Smaller(n, Smaller(Len(a), Len(b)))
      carry == Carries(a, b, common)
  IN [i \in 1 .. n |-> IF i <= common THEN (a[i] + b[i] + carry[i - 1]) % Base
                       ELSE IF i = common + 1 THEN carry[common] ELSE 0]

\* sub_to: the common words, the words that only a has, and, past the end of a, zeros
\* or the ones of a result below zero.
Borrows(a, b, last) ==
  LET borrow[i \in 0 .. last] ==
        IF i = 0 THEN 0 ELSE IF a[i] < b[i] + borrow[i - 1] THEN 1 ELSE 0
  IN borrow
SubTo(n, a, b) ==
  LET last == Smaller(n, Len(a))
      subtrahend == Copy(last, b)
      borrow == Borrows(a, subtrahend, last)
  IN [i \in 1 .. n |-> IF i <= last THEN (a[i] - subtrahend[i] - borrow[i - 1]) % Base
                       ELSE IF borrow[last] = 0 THEN 0 ELSE Base - 1]

High(word, k) == word \div Pow2[WordBits - k]    \* the k bits that leave a word at its top
Low(word, k) == (word * Pow2[k]) % Base          \* what they leave behind

\* Word i of m and the bits of the word below it, moved up by up words and k bits.
MoveUp(m, i, up, k) ==
  [m EXCEPT ![i + up] = Low(m[i], k) + IF i > 1 THEN High(m[i - 1], k) ELSE 0]
ClearLow(m, up) == [i \in DOMAIN m |-> IF i <= up THEN 0 ELSE m[i]]

\* Mutant: the words are moved upwards from the lowest.
ShiftLeftForwards(d, s) ==
  LET up == s \div WordBits
      moved[j \in 0 .. Len(d) - up] ==
        IF j = 0 THEN d ELSE MoveUp(moved[j - 1], j, up, s % WordBits)
  IN ClearLow(moved[Len(d) - up], up)

\* left_shift_to in place: words are moved one after the other from the highest, each
\* read from the array that is being written; then the low words are cleared.
MovedUp(d, up, k) ==
  LET moved[j \in 0 .. Len(d) - up] ==
        IF j = 0 THEN d ELSE MoveUp(moved[j - 1], Len(d) - up - j + 1, up, k)
  IN moved
ShiftLeft(d, s) ==
  LET up == s \div WordBits IN ClearLow(MovedUp(d, up, s % WordBits)[Len(d) - up], up)

\* left_shift_to into another number.
ShiftLeftApart(d, s) ==
  LET up == s \div WordBits
      k == s % WordBits
  IN [i \in DOMAIN d |-> IF i <= up THEN 0
                         ELSE Low(d[i - up], k) + IF i - up > 1 THEN High(d[i - up - 1], k) ELSE 0]

\* right_shift_to in place: from the lowest; then the high words are cleared.
MoveDown(m, i, down, k) ==
  [m EXCEPT ![i] = m[i + down] \div Pow2[k] +
                     IF i + down < Len(m) THEN Low(m[i + down + 1], WordBits - k) ELSE 0]
MovedDown(d, down, k) ==
  LET moved[j \in 0 .. Len(d) - down] ==
        IF j = 0 THEN d ELSE MoveDown(moved[j - 1], j, down, k)
  IN moved
ShiftRight(d, s) ==
  LET down == s \div WordBits
      moved == MovedDown(d, down, s % WordBits)[Len(d) - down]
  IN [i \in DOMAIN d |-> IF i > Len(d) - down THEN 0 ELSE moved[i]]

\* Mutant: the lowest word that differs decides.
DecidesLowest(a, b, i) == a[i] # b[i] /\ \A j \in 1 .. i - 1 : a[j] = b[j]

\* Word i decides the comparison of a and b.
Decides(a, b, i) == a[i] # b[i] /\ \A j \in i + 1 .. Len(a) : a[j] = b[j]

\* operator<=>: the words that only one has, then the common ones from the highest.
Compare(a, b) ==
  IF \E i \in Len(b) + 1 .. Len(a) : a[i] # 0 THEN "greater"
  ELSE IF \E i \in Len(a) + 1 .. Len(b) : b[i] # 0 THEN "less"
  ELSE IF \A i \in DOMAIN a : a[i] = b[i] THEN "equal"
  ELSE LET i == CHOOSE i \in DOMAIN a : Decides(a, b, i)
       IN IF a[i] < b[i] THEN "less" ELSE "greater"

\* operator==
Equal(a, b) ==
  /\ \A i \in 1 .. Smaller(Len(a), Len(b)) : a[i] = b[i]
  /\ \A i \in Len(a) + 1 .. Len(b) : b[i] = 0
  /\ \A i \in Len(b) + 1 .. Len(a) : a[i] = 0

-----------------------------------------------------------------------------
Becomes(w, d, op, arg) ==
  /\ x' = Number(w, d)
  /\ call' = [op |-> op, arg |-> arg, bits |-> w]

Init ==
  /\ x \in {y \in Numbers : Value(y.data) = 0}
  /\ call = [op |-> "set", arg |-> 0, bits |-> x.bits]

\* A negative value stands for what it is modulo the width.
Set(w, word, negative) ==
  Becomes(w, FromWord(block_size(w), word, negative), "set",
          (IF negative THEN word - Base ELSE word) % Pow2[w])

Convert(w) == Becomes(w, Copy(block_size(w), x.data), "convert", 0)

\* An operand of a native type becomes a number of one word; the width of the type counts
\* for that of the result.
NativeWidths(y) == {v \in Widths : y.bits = WordBits /\ v <= WordBits}

\* += keeps the width of x; + has the larger width.  + takes any word along with a type.
Add(w, y) ==
  /\ w \in {x.bits, Larger(x.bits, y.bits)} \cup {Larger(x.bits, v) : v \in NativeWidths(y)}
  /\ Becomes(w, AddTo(block_size(w), x.data, y.data), "add", Value(y.data))

Sub(w, y) ==
  /\ \/ w \in {x.bits, Larger(x.bits, y.bits)}
     \/ \E v \in NativeWidths(y) : Value(y.data) < Pow2[v] /\ w = Larger(x.bits, v)
  /\ Becomes(w, SubTo(block_size(w), x.data, y.data), "sub", Value(y.data))

Shl(s) ==
  /\ s < x.bits
  /\ \E d \in {ShiftLeft(x.data, s), ShiftLeftApart(x.data, s)} : Becomes(x.bits, d, "shl", s)

Shr(s) == s < x.bits /\ Becomes(x.bits, ShiftRight(x.data, s), "shr", s)

\* A shift by the width or more answers zero at once.
ShiftOut(op, s) == s >= x.bits /\ Becomes(x.bits, FromWord(Len(x.data), 0, FALSE), op, s)

MaxWidth == CHOOSE w \in Widths : \A v \in Widths : v <= w

\* The calls with one operand.
Unary ==
  \/ \E w \in Widths, word \in 0 .. Base - 1, negative \in BOOLEAN :
       (negative => 2 * word >= Base) /\ Set(w, word, negative)
  \/ \E w \in Widths : Convert(w)
  \/ \E s \in 0 .. MaxWidth : Shl(s) \/ Shr(s)
  \/ \E s \in 0 .. MaxWidth, op \in {"shl", "shr"} : ShiftOut(op, s)

Next == Unary \/ \E w \in Widths, y \in Numbers : Add(w, y) \/ Sub(w, y)

Spec == Init /\ [][Next]_vars

\* The calls that the algorithms are right for: the words of the result's length that
\* add_to does not add are zero, and so are those that sub_to does not subtract.
ZeroFrom(k, n, d) == \A i \in k + 1 .. Smaller(n, Len(d)) : d[i] = 0
SumFits(n, a, b) == ZeroFrom(Len(b), n, a) /\ ZeroFrom(Len(a), n, b)
DifferenceFits(n, a, b) == ZeroFrom(Len(a), n, b)

FittingNext ==
  \/ Unary
  \/ \E w \in Widths, y \in Numbers :
       \/ SumFits(block_size(w), x.data, y.data) /\ Add(w, y)
       \/ DifferenceFits(block_size(w), x.data, y.data) /\ Sub(w, y)

FittingSpec == Init /\ [][FittingNext]_vars

-----------------------------------------------------------------------------
(* Properties.                                                             *)

Register == INSTANCE ModularInt
  WITH Operands <- Nat, bits <- x.bits, value <- Value(x.data)

\* Every call that fits computes what unsigned arithmetic of the result's width would,
\* from whatever words the calls before it left, shifts in place included.  FittingSpec
\* leaves out additions and subtractions that lose words of the longer operand.
ActsAsModularInt == Register!Spec

\* What array_big_int.hpp:166 says of the addition of numbers of which one is longer,
\* "we need to go on propagating the carry": the sum is that of all their words.
CarryGoesOn ==
  [][call'.op = "add" => Value(x'.data) = (Value(x.data) + call'.arg) % Pow2[x'.bits]]_vars

\* operator<=> reads no word past the end of a shorter second operand.
ReadsInside(a, b) == Len(a) <= Len(b) \/ \E i \in Len(b) + 1 .. Len(a) : a[i] # 0

\* The words compare as the integers they stand for: == in any two widths, <=> wherever
\* it reads inside the second operand.
OrderIsNumeric ==
  \A y \in Numbers :
    LET v == Value(x.data)
        u == Value(y.data)
    IN /\ Equal(x.data, y.data) <=> v = u
       /\ ReadsInside(x.data, y.data) =>
            Compare(x.data, y.data) = IF v < u THEN "less" ELSE IF v = u THEN "equal" ELSE "greater"

=============================================================================
