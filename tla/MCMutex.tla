------------------------------ MODULE MCMutex ------------------------------
(* Small instances of Mutex, with its history, for TLC. *)
EXTENDS MutexHistory, TLC

Symmetry == Permutations(Threads)
=============================================================================
