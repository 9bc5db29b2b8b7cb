----------------------------- MODULE MCSpinLock -----------------------------
(* Thresholds of two bits: the low one alone is a threshold that is reached. *)
EXTENDS SpinLock, TLC

CONSTANTS low, high

TwoBits == {low, high}
LowOnly == {{}, {low}}
Symmetry == Permutations(Threads)
=============================================================================
