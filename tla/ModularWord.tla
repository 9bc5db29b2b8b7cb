---------------------------- MODULE ModularWord -----------------------------
(* What no_ailgn_int<Bytes> and more_int<Bytes> promise: an integer of Bits bits,  *)
(* unsigned or in two's complement, on which every operation computes what the     *)
(* exact operation on the value would, wrapped around to the width.                *)
EXTENDS Powers

CONSTANTS Bits, Arguments

VARIABLES signed, value, call

\* The integer of the type that is congruent to n.
Wrap(n) ==
  LET r == n % Pow2[Bits] IN IF signed /\ 2 * r >= Pow2[Bits] THEN r - Pow2[Bits] ELSE r

\* C++ division and remainder round towards zero.
Magnitude(n) == IF n < 0 THEN -n ELSE n
Quotient(a, b) ==
  LET q == Magnitude(a) \div Magnitude(b) IN IF (a < 0) # (b < 0) THEN -q ELSE q
Remainder(a, b) == a - b * Quotient(a, b)

\* Bit i of an integer, of endlessly many if it is below zero.
Bit(n, i) == (n \div Pow2[i]) % 2

Apply(n, c) ==
  CASE c.op = "set" -> c.arg
    [] c.op = "add" -> n + c.arg
    [] c.op = "sub" -> n - c.arg
    [] c.op = "mul" -> n * c.arg
    [] c.op = "div" -> Quotient(n, c.arg)
    [] c.op = "rem" -> Remainder(n, c.arg)
    [] c.op = "neg" -> -n
    [] c.op = "not" -> -n - 1
    [] c.op = "shl" -> n * Pow2[c.arg]
    [] c.op = "shr" -> n \div Pow2[c.arg]

\* The bitwise operations are defined by their bits.
Bitwise2 == {"and", "or", "xor"}
Combined(op, a, b) ==
  CASE op = "and" -> a * b
    [] op = "or" -> a + b - a * b
    [] op = "xor" -> (a + b) % 2

Arithmetic == {"set", "add", "sub", "mul", "div", "rem", "neg", "not", "shl", "shr"}
Calls == [op : Arithmetic \cup Bitwise2, arg : Arguments]

Init == signed \in BOOLEAN /\ value = 0 /\ call = [op |-> "set", arg |-> 0]

Next ==
  /\ signed' = signed
  /\ call' \in Calls
  /\ value' = Wrap(value')
  /\ IF call'.op \in Bitwise2
     THEN \A i \in 0 .. Bits - 1 :
            Bit(value', i) = Combined(call'.op, Bit(value, i), Bit(call'.arg, i))
     ELSE value' = Wrap(Apply(value, call'))

Spec == Init /\ [][Next]_<<signed, value, call>>
=============================================================================
