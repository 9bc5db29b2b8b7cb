----------------------------- MODULE ModularInt -----------------------------
(* What array_uint<Bits> promises: an unsigned integer of some width whose         *)
(* arithmetic wraps around like that of the built-in unsigned types.  The variable *)
(* call says which operation made the value.                                       *)
EXTENDS Powers

CONSTANTS Widths, Operands

VARIABLES bits, value, call

Ops == {"set", "convert", "add", "sub", "shl", "shr"}
Calls == [op : Ops, arg : Operands, bits : Widths]

Apply(v, c) ==
  CASE c.op = "set" -> c.arg
    [] c.op = "convert" -> v
    [] c.op = "add" -> v + c.arg
    [] c.op = "sub" -> v - c.arg
    [] c.op = "shl" -> v * Pow2[c.arg]
    [] c.op = "shr" -> v \div Pow2[c.arg]

Init == bits \in Widths /\ value = 0 /\ call = [op |-> "set", arg |-> 0, bits |-> bits]

Next ==
  /\ call' \in Calls
  /\ bits' = call'.bits
  /\ value' = Apply(value, call') % Pow2[bits']

Spec == Init /\ [][Next]_<<bits, value, call>>
=============================================================================
