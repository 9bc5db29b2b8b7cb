--------------------------------- MODULE Utf ---------------------------------
(***************************************************************************)
(* chenc::utf::detail::str_to_str (convert/detail/): converts a string     *)
(* between UTF-8, UTF-16 and UTF-32, one character or one block of ASCII   *)
(* units at a time.  The program modelled is the two passes main() makes   *)
(* in utf_to_utf.hpp: count what the output needs, then convert into a     *)
(* buffer.                                                                 *)
(*                                                                         *)
(* A string is a sequence of unsigned units.  An action is one turn of the *)
(* loop in str_to_str.  The options are template arguments in the code;    *)
(* here the initial state and the start of the second pass choose them.    *)
(***************************************************************************)
EXTENDS Integers, Sequences, SequencesExt

CONSTANTS
  Pieces,       \* for each format, the unit sequences that inputs are made of
  MaxPieces,
  BlockBytes    \* bytes in one block of the fast path; 8 in the code

Formats == {8, 16, 32}

ASSUME PiecesAssumption == \A f \in Formats : \A p \in Pieces[f] : Len(p) > 0
ASSUME BlockAssumption == BlockBytes \in {4, 8}

CharModes == {"strict", "compatible", "none"}
ErrorModes == {"stop", "skip", "replace"}
OutModes == {"normal", "full", "none_check_buffer", "count"}
PerfModes == {"normal", "simd"}
Malformed == {"invalid_source", "invalid_unicode", "non_characters", "surrogates", "non_shortest"}
replace_char == 65533

VARIABLES
  from, to, char_mode, error_mode, perf_mode, \* the options of both passes
  out_mode, capacity,  \* of the current pass: what it does with output, and output_len
  input,
  in_str,              \* units consumed
  output,              \* units written
  result,              \* str_result_t of the current pass
  counted,             \* the result of the counting pass
  pc

options == <<from, to, char_mode, error_mode, perf_mode>>
vars == <<options, out_mode, capacity, input, in_str, output, result, counted, pc>>

-----------------------------------------------------------------------------
(* char_to_utf32: one character from position i of s.                      *)

Surrogate(c) == 55296 <= c /\ c <= 57343
NonCharacter(c) == (64976 <= c /\ c <= 65007) \/ c % 65536 \in {65534, 65535}

\* Mutant: surrogates pass as characters.
VerdictAllowsSurrogates(c, least) ==
  IF char_mode = "strict" /\ NonCharacter(c) THEN "non_characters"
  ELSE IF char_mode # "none" /\ c > 1114111 THEN "invalid_unicode"
  ELSE IF char_mode = "strict" /\ c < least THEN "non_shortest"
  ELSE "none"

\* What is wrong with code point c that was read from a form for code points >= least.
Verdict(c, least) ==
  IF char_mode = "strict" /\ Surrogate(c) THEN "surrogates"
  ELSE IF char_mode = "strict" /\ NonCharacter(c) THEN "non_characters"
  ELSE IF char_mode # "none" /\ c > 1114111 THEN "invalid_unicode"
  ELSE IF char_mode = "strict" /\ c < least THEN "non_shortest"
  ELSE "none"

Char(len, c, error) == [input_block |-> len, unicode |-> c, error |-> error]
\* Mutant: any form is accepted for any code point.
JudgedAnyForm(len, c, least) == Char(len, c, Verdict(c, 0))

Judged(len, c, least) == Char(len, c, Verdict(c, least))

Bad(len, error) == Char(len, 0, error)

\* Units that the first byte announces; 0 for a byte that starts no character.
Announced(b) ==
  IF b < 128 THEN 1
  ELSE IF b \div 32 = 6 THEN 2
  ELSE IF b \div 16 = 14 THEN 3
  ELSE IF b \div 8 = 30 THEN 4
  ELSE 0

\* The low six bits of the k-th unit after i, and the code point of n units at i.
Low(s, i, k) == s[i + k] % 64

Utf8Value(s, i, n) ==
  IF n = 1 THEN s[i]
  ELSE IF n = 2 THEN (s[i] % 32) * 64 + Low(s, i, 1)
  ELSE IF n = 3 THEN (s[i] % 16) * 4096 + Low(s, i, 1) * 64 + Low(s, i, 2)
  ELSE (s[i] % 8) * 262144 + Low(s, i, 1) * 4096 + Low(s, i, 2) * 64 + Low(s, i, 3)

\* The first code point of the forms of one to four bytes.
Least == <<0, 128, 2048, 65536>>

FromUtf8(s, i) ==
  LET n == Announced(s[i])
  IN IF n = 0 THEN Bad(1, "invalid_source")
     ELSE IF i + n - 1 > Len(s) THEN Bad(n, "in_truncated")
     ELSE IF char_mode # "none" /\ \E k \in 1 .. n - 1 : s[i + k] \div 64 # 2
          THEN Bad(n, "invalid_source")
     ELSE Judged(n, Utf8Value(s, i, n), Least[n])

FromUtf16(s, i) ==
  IF ~Surrogate(s[i]) THEN Judged(1, s[i], 0)
  ELSE IF s[i] >= 56320 THEN Bad(1, "invalid_source")
  ELSE IF i + 1 > Len(s) THEN Bad(2, "in_truncated")
  ELSE IF char_mode # "none" /\ (s[i + 1] < 56320 \/ s[i + 1] > 57343) THEN Bad(2, "invalid_source")
  ELSE Judged(2, (s[i] % 1024) * 1024 + (s[i + 1] % 1024) + 65536, 65536)

FromUtf32(s, i) == Judged(1, s[i], 0)

Decode(f, s, i) ==
  IF f = 8 THEN FromUtf8(s, i) ELSE IF f = 16 THEN FromUtf16(s, i) ELSE FromUtf32(s, i)

-----------------------------------------------------------------------------
(* utf32_to_char: the units of code point c.                               *)

\* Mutant: two bytes are used up to U+FFFF.
EncodeTwoBytes(f, c) ==
  IF f = 32 \/ (f = 16 /\ c <= 65535) \/ c <= 127 THEN <<c>>
  ELSE IF f = 16 THEN <<55296 + (c - 65536) \div 1024, 56320 + (c % 1024)>>
  ELSE IF c <= 65535 THEN <<192 + c \div 64, 128 + (c % 64)>>
  ELSE <<240 + c \div 262144, 128 + ((c \div 4096) % 64), 128 + ((c \div 64) % 64), 128 + (c % 64)>>

Encode(f, c) ==
  IF f = 32 \/ (f = 16 /\ c <= 65535) \/ c <= 127 THEN <<c>>
  ELSE IF f = 16 THEN <<55296 + (c - 65536) \div 1024, 56320 + (c % 1024)>>
  ELSE IF c <= 2047 THEN <<192 + c \div 64, 128 + (c % 64)>>
  ELSE IF c <= 65535 THEN <<224 + c \div 4096, 128 + ((c \div 64) % 64), 128 + (c % 64)>>
  ELSE <<240 + c \div 262144, 128 + ((c \div 4096) % 64), 128 + ((c \div 64) % 64), 128 + (c % 64)>>

-----------------------------------------------------------------------------
Result == [
  input_block_count : Nat, output_block_count : Nat, need_output_block_count : Nat,
  conv_normal_char_count : Nat, conv_error_char_count : Nat,
  status : {"ok", "partial", "error"},
  error : SUBSET (Malformed \cup {"in_truncated", "out_overflow"})]

EmptyResult == [
  input_block_count |-> 0, output_block_count |-> 0, need_output_block_count |-> 0,
  conv_normal_char_count |-> 0, conv_error_char_count |-> 0, status |-> "ok", error |-> {}]

Inputs(f) == {FlattenSeq(ps) : ps \in BoundedSeq(Pieces[f], MaxPieces)}

\* A string of format f; its units are unsigned, those of UTF-32 have 21 bits here.
Limit(f) == IF f = 8 THEN 256 ELSE IF f = 16 THEN 65536 ELSE 2097152
IsText(s, f) == s \in Seq(Nat) /\ \A k \in 1 .. Len(s) : s[k] < Limit(f)

ASSUME InputsAssumption == \A f \in Formats : \A s \in Inputs(f) : IsText(s, f)

TypeOK ==
  /\ from \in Formats /\ to \in Formats /\ char_mode \in CharModes
  /\ error_mode \in ErrorModes /\ perf_mode \in PerfModes
  /\ out_mode \in OutModes /\ capacity \in Nat
  /\ IsText(input, from) /\ in_str \in 0 .. Len(input)
  /\ IsText(output, to)
  /\ result \in Result /\ counted \in Result
  /\ pc \in {"counting", "counted", "converting", "done"}

\* The first pass counts and has no buffer.
Init ==
  /\ from \in Formats /\ to \in Formats
  /\ char_mode \in CharModes /\ error_mode \in ErrorModes /\ perf_mode \in PerfModes
  /\ out_mode = "count" /\ capacity = 0
  /\ input \in Inputs(from)
  /\ in_str = 0 /\ output = <<>>
  /\ result = EmptyResult /\ counted = EmptyResult
  /\ pc = "counting"

-----------------------------------------------------------------------------
(* str_to_str: the turns of its loop.                                      *)

BlockLength(f) == BlockBytes \div (f \div 8)
Block == SubSeq(input, in_str + 1, in_str + BlockLength(from))

\* The fast path is taken when a block of ASCII is ahead and both buffers have
\* BlockBytes bytes left.
BlockAhead ==
  /\ perf_mode = "simd"
  /\ in_str + BlockLength(from) <= Len(input)
  /\ Len(output) + BlockLength(to) <= capacity
  /\ \A k \in DOMAIN Block : Block[k] < 128

CopyBlock ==
  /\ pc \in {"counting", "converting"} /\ in_str < Len(input) /\ BlockAhead
  /\ in_str' = in_str + Len(Block)
  /\ output' = output \o Block
  /\ result' = [result EXCEPT !.input_block_count = @ + Len(Block),
                              !.output_block_count = @ + Len(Block),
                              !.conv_normal_char_count = @ + Len(Block)]
  /\ UNCHANGED <<options, out_mode, capacity, input, counted, pc>>

\* The character ahead.
next == Decode(from, input, in_str + 1)

\* A turn of the loop that converts one character.
Turn ==
  /\ pc \in {"counting", "converting"} /\ in_str < Len(input) /\ ~BlockAhead
  /\ UNCHANGED <<options, out_mode, capacity, input, counted>>

Continue == UNCHANGED pc
Return == pc' = IF pc = "counting" THEN "counted" ELSE "done"

\* The result after next has been read.
Read ==
  LET r == [result EXCEPT !.input_block_count = @ + next.input_block]
  IN IF next.error = "none" THEN [r EXCEPT !.conv_normal_char_count = @ + 1]
     ELSE [r EXCEPT !.conv_error_char_count = @ + 1, !.error = @ \cup {next.error},
                    !.status = IF error_mode = "stop" \/ next.error = "in_truncated"
                               THEN "error" ELSE "partial"]

\* A truncated character ends the conversion in every error mode.
Stop ==
  /\ Turn
  /\ next.error = "in_truncated" \/ (next.error \in Malformed /\ error_mode = "stop")
  /\ result' = Read
  /\ UNCHANGED <<in_str, output>>
  /\ Return

Skip ==
  /\ Turn
  /\ next.error \in Malformed /\ error_mode = "skip"
  /\ in_str' = in_str + next.input_block
  /\ result' = Read
  /\ UNCHANGED output
  /\ Continue

\* A turn that goes on to output the character, or the replacement for it.
Accept ==
  /\ Turn
  /\ next.error = "none" \/ (next.error \in Malformed /\ error_mode = "replace")
  /\ in_str' = in_str + next.input_block

OutUnits == Encode(to, IF next.error = "none" THEN next.unicode ELSE replace_char)

\* Mutant: off by one.
FitsAlmost(units) ==
  out_mode \in {"none_check_buffer", "count"} \/ Len(output) + Len(units) <= capacity + 1

Fits(units) ==
  out_mode \in {"none_check_buffer", "count"} \/ Len(output) + Len(units) <= capacity

Write ==
  /\ Accept /\ Fits(OutUnits) /\ out_mode # "count"
  /\ output' = output \o OutUnits
  /\ result' = [Read EXCEPT
       !.output_block_count = @ + Len(OutUnits),
       !.need_output_block_count = @ + IF out_mode = "full" THEN Len(OutUnits) ELSE 0]
  /\ Continue

Count ==
  /\ Accept /\ out_mode = "count"
  /\ result' = [Read EXCEPT !.need_output_block_count = @ + Len(OutUnits)]
  /\ UNCHANGED output
  /\ Continue

Overflow ==
  /\ Accept /\ ~Fits(OutUnits) /\ out_mode = "normal"
  /\ result' = [Read EXCEPT !.error = @ \cup {"out_overflow"}, !.status = "error"]
  /\ UNCHANGED output
  /\ Return

\* Mutant: what does not fit is forgotten.
CountOverflowNot ==
  /\ Accept /\ ~Fits(OutUnits) /\ out_mode = "full"
  /\ result' = [Read EXCEPT !.error = @ \cup {"out_overflow"}, !.status = "partial"]
  /\ UNCHANGED output
  /\ Continue

CountOverflow ==
  /\ Accept /\ ~Fits(OutUnits) /\ out_mode = "full"
  /\ result' = [Read EXCEPT
       !.need_output_block_count = @ + Len(OutUnits),
       !.error = @ \cup {"out_overflow"}, !.status = "partial"]
  /\ UNCHANGED output
  /\ Continue

\* The loop ends with the input.
Finish ==
  /\ pc \in {"counting", "converting"} /\ in_str = Len(input)
  /\ Return
  /\ UNCHANGED <<options, out_mode, capacity, input, in_str, output, result, counted>>

\* main() keeps the count and calls again with a buffer; a caller that skips the
\* checks of the output provides for what was counted.
StartConversion ==
  /\ pc = "counted"
  /\ out_mode' \in OutModes \ {"count"}
  /\ capacity' \in 0 .. result.need_output_block_count + 1
  /\ out_mode' = "none_check_buffer" => capacity' >= result.need_output_block_count
  /\ counted' = result /\ result' = EmptyResult
  /\ in_str' = 0 /\ pc' = "converting"
  /\ UNCHANGED <<options, input, output>>

Next ==
  \/ CopyBlock \/ Finish \/ StartConversion
  \/ Stop \/ Skip \/ Write \/ Count \/ Overflow \/ CountOverflow

Spec == Init /\ [][Next]_vars

-----------------------------------------------------------------------------
(* Properties.                                                             *)

\* The code points of a string in strict mode; -1 for the first thing that is none.
Reading(f, s) ==
  LET read[i \in 1 .. Len(s) + 4] ==
        IF i > Len(s) THEN <<>>
        ELSE LET d == Decode(f, s, i)
             IN IF d.error = "none" THEN <<d.unicode>> \o read[i + d.input_block]
                ELSE <<-1>>
  IN read[1]

\* Whether the fast path keeps to the buffer: it asks for room for BlockBytes bytes of
\* output and writes as many units as BlockBytes bytes of input hold.
FastPathFits ==
  perf_mode = "normal" \/ to <= from \/ capacity >= counted.need_output_block_count

\* Counting and converting agree where the fast path keeps to the buffer: the buffer is
\* too small exactly when the counting pass said so, and a conversion that did not
\* overflow wrote exactly what was counted and found the same errors, whichever
\* characters the fast path took.  Mode full reports the same need if there is no fast
\* path, which does not add to it.
CountPredicts ==
  pc = "done" /\ FastPathFits =>
    LET overflow == "out_overflow" \in result.error IN
    /\ overflow <=> capacity < counted.need_output_block_count
    /\ out_mode = "full" /\ perf_mode = "normal" =>
         result.need_output_block_count = counted.need_output_block_count
    /\ ~overflow => /\ Len(output) = counted.need_output_block_count
                    /\ result = [counted EXCEPT
                         !.output_block_count = Len(output),
                         !.need_output_block_count = result.need_output_block_count]

\* What strict mode accepts without an error is encoded in one way only: converting
\* the output back gives the input.
RoundTrip ==
  pc = "done" /\ char_mode = "strict" /\ result.error = {} =>
    FlattenSeq([k \in DOMAIN Reading(to, output) |-> Encode(from, Reading(to, output)[k])]) = input

\* In strict mode the output is well formed at every moment, whatever the input, the
\* error mode and the buffer: no half character, and nothing the reverse conversion
\* would reject.
OutputIsWellFormed ==
  char_mode = "strict" => -1 \notin Range(Reading(to, output))

\* How far the fast path may write past a buffer smaller than was counted.
Overshoot == IF FastPathFits THEN 0 ELSE BlockLength(from) - BlockLength(to)

\* Nothing is written past the end of the output buffer, except by the fast path from a
\* narrower format into a buffer smaller than was counted: that writes at most as many
\* units too far as a block of input has more than a block of output.
WritesStayInside ==
  Len(output) <= capacity + Overshoot /\ result.output_block_count = Len(output)

\* What utf_opt.hpp:43 says of mode normal, a buffer that is too small stops the
\* conversion at once: nothing is ever written past its end.
OutputStaysInside == out_mode = "normal" => Len(output) <= capacity

=============================================================================
