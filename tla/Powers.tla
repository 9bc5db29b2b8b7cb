------------------------------- MODULE Powers -------------------------------
(* The powers of two, that is 1 << n: by recursion, so that proofs can follow it. *)
EXTENDS Integers

Pow2[n \in Nat] == IF n = 0 THEN 1 ELSE 2 * Pow2[n - 1]
=============================================================================
