--------------------------- MODULE MCSharedMutex ---------------------------
(* Small instances of SharedMutex for TLC. *)
EXTENDS SharedMutex, TLC

Symmetry == Permutations(Writers) \cup Permutations(Readers)
=============================================================================
