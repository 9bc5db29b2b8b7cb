---------------------------- MODULE LockThreads ----------------------------
(* The threads that use a lock, and the counts of those that wait, which wrap. *)
EXTENDS Integers, FiniteSets

CONSTANTS Threads,
          CountMod   \* a lock counts modulo this (2^16 in the code, 2^32 in mutex)

ASSUME CountAssumption == CountMod \in Nat \ {0}
ASSUME FewThreads == IsFiniteSet(Threads) /\ Cardinality(Threads) < CountMod
=============================================================================
