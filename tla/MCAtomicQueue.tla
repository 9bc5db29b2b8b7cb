--------------------------- MODULE MCAtomicQueue ---------------------------
(* Small instances of AtomicQueue for TLC. *)
EXTENDS AtomicQueue, TLC

\* Threads with the same role are interchangeable.
Symmetry == Permutations(Pushers \ Poppers) \cup Permutations(Poppers \ Pushers)
            \cup Permutations(Pushers \cap Poppers)
=============================================================================
