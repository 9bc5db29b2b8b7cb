------------------------------- MODULE MoreInt --------------------------------
(***************************************************************************)
(* chenc::no_ailgn_int<Bytes> and chenc::more_int<Bytes>                   *)
(* (core/no_ailgn_int.hpp): an unsigned and a signed integer kept in 1 to  *)
(* 8 bytes, computed with in the 64-bit types.  more_int keeps its bytes   *)
(* in a no_ailgn_int; it reads them raw for the operations that its        *)
(* comment calls insensitive to the sign, and sign-extended for the others.*)
(*                                                                         *)
(* The system is one number and a sequence of calls on it; an operator     *)
(* that returns a new number makes that number the next one.  Bits is      *)
(* 8 * Bytes, WideBits is 64 in the code.                                  *)
(***************************************************************************)
EXTENDS Powers

CONSTANTS Bits, WideBits   \* 1 <= Bits <= WideBits

VARIABLES
  signed,   \* the number is a more_int
  storage,  \* the bytes kept, as a number
  call      \* the operation that made it, for ModularWord

vars == <<signed, storage, call>>

Wide == Pow2[WideBits]
u64(n) == n % Wide
i64(u) == IF 2 * u >= Wide THEN u - Wide ELSE u

U64 == 0 .. Wide - 1
I64 == {i64(u) : u \in U64}

TypeOK ==
  /\ signed \in BOOLEAN
  /\ storage \in 0 .. Pow2[Bits] - 1

-----------------------------------------------------------------------------
\* no_ailgn_int::get() and more_int::get_raw(): the bytes that are not kept read zero.
get_raw == storage

shift == WideBits - Bits

\* more_int::get(): up to the top of the wide word and back by an arithmetic shift.
Extended == i64((get_raw * Pow2[shift]) % Wide) \div Pow2[shift]

\* What the operations that need the value read.
get == IF signed THEN Extended ELSE get_raw

\* Mutant: the wide word is stored as it is.
KeptWhole(u) == u

\* The low bytes of a wide word.
Kept(u) == u % Pow2[Bits]

\* set() of a wide result; call records what was called.
Becomes(n, op, arg) ==
  /\ storage' = Kept(u64(n))
  /\ call' = [op |-> op, arg |-> arg]
  /\ UNCHANGED signed

\* Operands are of the wide type of the class.
Operands == IF signed THEN I64 ELSE U64

\* Division and remainder of C++ round towards zero.
Magnitude(n) == IF n < 0 THEN -n ELSE n
Divided(a, b) ==
  LET q == Magnitude(a) \div Magnitude(b) IN IF (a < 0) # (b < 0) THEN -q ELSE q

\* Dividing by zero is undefined, and so is the quotient that the wide type cannot hold.
Divisible(a, b) == b # 0 /\ ~(signed /\ b = -1 /\ a = -(Wide \div 2))

\* Bit by bit on wide words.
BitOf(u, i) == (u \div Pow2[i]) % 2
BitAnswer(op, p, q) ==
  CASE op = "and" -> p = 1 /\ q = 1
    [] op = "or" -> p = 1 \/ q = 1
    [] op = "xor" -> p # q
Bitwise(op, a, b) ==
  LET below[i \in 0 .. WideBits] ==
        IF i = 0 THEN 0
        ELSE below[i - 1] + IF BitAnswer(op, BitOf(a, i - 1), BitOf(b, i - 1)) THEN Pow2[i - 1] ELSE 0
  IN below[WideBits]

-----------------------------------------------------------------------------
\* A default-constructed number: no_ailgn_int() zeroes the bytes.
Init == signed \in BOOLEAN /\ storage = 0 /\ call = [op |-> "set", arg |-> 0]

Set(v) == Becomes(v, "set", v)

\* On the raw word, in the class of either sign; ++ and -- are v = 1.
Add(v) == Becomes(get_raw + u64(v), "add", v)
Sub(v) == Becomes(get_raw - u64(v), "sub", v)
Mul(v) == Becomes(get_raw * u64(v), "mul", v)

\* On the value.
Div(v) == Divisible(get, v) /\ Becomes(Divided(get, v), "div", v)
Rem(v) == Divisible(get, v) /\ Becomes(get - v * Divided(get, v), "rem", v)

\* -get() is undefined for the least wide integer.
Neg == ~(signed /\ get = -(Wide \div 2)) /\ Becomes(-get, "neg", 0)
Not == Becomes(Wide - 1 - get_raw, "not", 0)

BitByBit(op, v) == Becomes(Bitwise(op, get_raw, u64(v)), op, v)

\* A shift by the wide width or more is undefined.
Shl(s) == s < WideBits /\ Becomes((get_raw * Pow2[s]) % Wide, "shl", s)

\* Mutant: the raw word is shifted, as the other operations do.
ShrRaw(s) == s < WideBits /\ Becomes(get_raw \div Pow2[s], "shr", s)

\* Arithmetic on a more_int.
Shr(s) == s < WideBits /\ Becomes(get \div Pow2[s], "shr", s)

Next ==
  \/ \E v \in Operands :
       \/ Set(v) \/ Add(v) \/ Sub(v) \/ Mul(v) \/ Div(v) \/ Rem(v)
       \/ \E op \in {"and", "or", "xor"} : BitByBit(op, v)
  \/ Neg \/ Not
  \/ \E s \in U64 : Shl(s) \/ Shr(s)

Spec == Init /\ [][Next]_vars

-----------------------------------------------------------------------------
(* Properties.                                                             *)

Word == INSTANCE ModularWord WITH Arguments <- U64 \cup I64, value <- get

\* Whatever sequence of operations made the bytes that are kept, the next operation
\* answers what exact arithmetic on the number's value, wrapped around to its width,
\* would: the sums and products of raw bytes included ("+ - * are insensitive to the
\* sign in two's complement, raw is used").
ActsAsModularWord == Word!Spec
=============================================================================
