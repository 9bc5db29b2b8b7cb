----------------------------- MODULE MCIntegers -----------------------------
(* The two kinds of integers of a chosen width, small: words of two bits in arrays   *)
(* of one word, of a part of two, of two and of a part of three; and three bits kept *)
(* of a wide word of five.  A behaviour computes with one of the two.                *)
EXTENDS BigUint

CONSTANTS KeptBits, WideBits

ASSUME KeptAssumption == WideBits \in Nat /\ KeptBits \in 1 .. WideBits

VARIABLES which, signed, storage, wordcall

words == <<signed, storage, wordcall>>

M == INSTANCE MoreInt WITH Bits <- KeptBits, call <- wordcall

SmallWidths == {2, 3, 4, 5}

MCInit ==
  /\ which \in {"array_uint", "more_int"}
  /\ Init /\ M!Init
  /\ which = "array_uint" => ~signed
  /\ which = "more_int" => x.bits = WordBits

MCNext ==
  \/ which = "array_uint" /\ FittingNext /\ UNCHANGED <<which, words>>
  \/ which = "more_int" /\ M!Next /\ UNCHANGED <<which, vars>>

MCSpec == MCInit /\ [][MCNext]_<<which, vars, words>>

-----------------------------------------------------------------------------
\* The bytes kept are bytes: nothing above the width is stored.
WordTypeOK == M!TypeOK

\* no_ailgn_int and more_int compute modulo their width, from whatever bytes the
\* operations before left ("+ - * are insensitive to the sign", no_ailgn_int.hpp:186).
ActsAsModularWord == M!ActsAsModularWord
=============================================================================
