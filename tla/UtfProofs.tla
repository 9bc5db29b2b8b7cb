----------------------------- MODULE UtfProofs ------------------------------
(* Theorems about Utf, for every input, every mode and every size of the buffer:  *)
(* what the counting pass says about the conversion, and that characters are written *)
(* in one way only, so that nothing is lost.                                     *)
EXTENDS Utf, Induction

-----------------------------------------------------------------------------
(* The character at position p of the input, and what becomes of it.       *)

Ahead(p) == Decode(from, input, p + 1)
After(p) == p + Ahead(p).input_block
Written(p) == Encode(to, IF Ahead(p).error = "none" THEN Ahead(p).unicode ELSE replace_char)
Ends(p) ==
  Ahead(p).error = "in_truncated" \/ (Ahead(p).error \in Malformed /\ error_mode = "stop")
Skips(p) == Ahead(p).error \in Malformed /\ error_mode = "skip"

Options ==
  /\ from \in Formats /\ to \in Formats /\ char_mode \in CharModes
  /\ error_mode \in ErrorModes /\ perf_mode \in PerfModes
  /\ input \in Seq(Nat) /\ IsText(input, from)

\* A verdict is that all is well or that the character is malformed.
LEMMA VerdictType ==
  ASSUME NEW c, NEW least
  PROVE  Verdict(c, least) \in Malformed \cup {"none"}
BY DEF Verdict, Malformed

\* A first byte announces one to four bytes, or none.
LEMMA AnnouncedType ==
  ASSUME NEW b \in Nat
  PROVE  Announced(b) \in 0 .. 4
<1>1. CASE b < 128
  BY <1>1 DEF Announced
<1>2. CASE ~(b < 128) /\ b \div 32 = 6
  BY <1>2 DEF Announced
<1>3. CASE ~(b < 128) /\ b \div 32 # 6 /\ b \div 16 = 14
  BY <1>3 DEF Announced
<1>4. CASE ~(b < 128) /\ b \div 32 # 6 /\ b \div 16 # 14 /\ b \div 8 = 30
  BY <1>4 DEF Announced
<1>5. CASE ~(b < 128) /\ b \div 32 # 6 /\ b \div 16 # 14 /\ b \div 8 # 30
  BY <1>5 DEF Announced
<1> QED
  BY <1>1, <1>2, <1>3, <1>4, <1>5

\* What 21 bits hold, the most that four bytes of UTF-8 announce.
Codes == {c \in Nat : c < 2097152}

LEMMA CodesAreNat == Codes \subseteq Nat /\ 0 \in Codes
BY SMT DEF Codes

\* The units of each format are codes.
LEMMA UnitsAreCodes ==
  ASSUME NEW f \in Formats, NEW s, IsText(s, f), NEW k \in 1 .. Len(s)
  PROVE  s[k] \in Codes
<1>1. s[k] \in Nat /\ s[k] < Limit(f)
  BY DEF IsText
<1> QED
  BY <1>1, SMT DEF Limit, Codes

Sound(d, i, s) ==
  /\ d.error \in Malformed \cup {"none", "in_truncated"}
  /\ d.input_block \in 1 .. 4 /\ d.unicode \in Codes
  /\ d.error # "in_truncated" => i + d.input_block - 1 <= Len(s)

LEMMA JudgedIsSound ==
  ASSUME NEW s \in Seq(Nat), NEW i \in 1 .. Len(s), NEW n \in 1 .. 4, NEW c \in Codes, NEW least,
         i + n - 1 <= Len(s)
  PROVE  Sound(Judged(n, c, least), i, s)
BY VerdictType DEF Judged, Char, Sound

\* A code point put together from its bits is a code.
LEMMA Weights ==
  ASSUME NEW a \in Nat, NEW b \in Nat, NEW c \in Nat, NEW d \in Nat,
         b < 64, c < 64, d < 64
  PROVE  /\ a < 32 => a * 64 + b < 2097152
         /\ a < 16 => a * 4096 + b * 64 + c < 2097152
         /\ a < 8 => a * 262144 + b * 4096 + c * 64 + d < 2097152
BY SMT

LEMMA TwoUnits ==
  ASSUME NEW s, NEW i, s[i] % 32 \in Nat, s[i] % 32 < 32, Low(s, i, 1) \in Nat, Low(s, i, 1) < 64
  PROVE  Utf8Value(s, i, 2) \in Codes
BY Weights, SMT DEF Utf8Value, Codes

LEMMA ThreeUnits ==
  ASSUME NEW s, NEW i, s[i] % 16 \in Nat, s[i] % 16 < 16, Low(s, i, 1) \in Nat, Low(s, i, 1) < 64,
         Low(s, i, 2) \in Nat, Low(s, i, 2) < 64
  PROVE  Utf8Value(s, i, 3) \in Codes
BY Weights, SMT DEF Utf8Value, Codes

LEMMA FourUnits ==
  ASSUME NEW s, NEW i, s[i] % 8 \in Nat, s[i] % 8 < 8, Low(s, i, 1) \in Nat, Low(s, i, 1) < 64,
         Low(s, i, 2) \in Nat, Low(s, i, 2) < 64, Low(s, i, 3) \in Nat, Low(s, i, 3) < 64
  PROVE  Utf8Value(s, i, 4) \in Codes
BY Weights, SMT DEF Utf8Value, Codes

LEMMA LowBits ==
  ASSUME NEW b \in Nat
  PROVE  /\ b % 64 \in Nat /\ b % 64 < 64 /\ b % 32 \in Nat /\ b % 32 < 32
         /\ b % 16 \in Nat /\ b % 16 < 16 /\ b % 8 \in Nat /\ b % 8 < 8
         /\ b % 1024 \in Nat /\ b % 1024 < 1024
BY SMT

LEMMA Utf8ValueType ==
  ASSUME NEW s \in Seq(Nat), \A k \in 1 .. Len(s) : s[k] \in Codes,
         NEW i \in 1 .. Len(s), NEW n \in 1 .. 4, i + n - 1 <= Len(s)
  PROVE  Utf8Value(s, i, n) \in Codes
<1>1. s[i] \in Nat /\ s[i] \in Codes
  BY SMTT(30)
<1>2. /\ s[i] % 32 \in Nat /\ s[i] % 32 < 32 /\ s[i] % 16 \in Nat /\ s[i] % 16 < 16
      /\ s[i] % 8 \in Nat /\ s[i] % 8 < 8
  BY SMTT(30), <1>1, LowBits
<1>3. ASSUME NEW k \in 1 .. 3, k < n PROVE Low(s, i, k) \in Nat /\ Low(s, i, k) < 64
  <2>1. s[i + k] \in Nat
    BY <1>3
  <2> QED
    BY <2>1, LowBits, SMTT(30) DEF Low
<1>4. CASE n = 1
  BY <1>1, <1>4, SMT DEF Utf8Value
<1>5. CASE n = 2
  BY <1>2, <1>3, <1>5, TwoUnits
<1>6. CASE n = 3
  BY <1>2, <1>3, <1>6, ThreeUnits
<1>7. CASE n = 4
  BY <1>2, <1>3, <1>7, FourUnits
<1> QED
  BY <1>4, <1>5, <1>6, <1>7

LEMMA Utf8IsSound ==
  ASSUME NEW s \in Seq(Nat), \A k \in 1 .. Len(s) : s[k] \in Codes, NEW i \in 1 .. Len(s)
  PROVE  Sound(FromUtf8(s, i), i, s)
<1> DEFINE n == Announced(s[i])
<1>1. n \in 0 .. 4
  BY AnnouncedType
<1>2. \/ n = 0 /\ FromUtf8(s, i) = Bad(1, "invalid_source")
      \/ n # 0 /\ FromUtf8(s, i) = Bad(n, "in_truncated")
      \/ n # 0 /\ i + n - 1 <= Len(s) /\ FromUtf8(s, i) = Bad(n, "invalid_source")
      \/ n # 0 /\ i + n - 1 <= Len(s)
         /\ FromUtf8(s, i) = Judged(n, Utf8Value(s, i, n), Least[n])
  <2>1. i + n - 1 > Len(s) \/ i + n - 1 <= Len(s)
    BY <1>1
  <2> QED
    BY <2>1 DEF FromUtf8
<1> HIDE DEF n
<1>3. n # 0 => n \in 1 .. 4
  BY <1>1
<1>4. n # 0 /\ i + n - 1 <= Len(s) =>
        Sound(Judged(n, Utf8Value(s, i, n), Least[n]), i, s)
  BY <1>3, Utf8ValueType, JudgedIsSound
<1>5. Sound(Bad(1, "invalid_source"), i, s)
  BY CodesAreNat DEF Bad, Char, Sound, Malformed
<1>6. n # 0 => Sound(Bad(n, "in_truncated"), i, s)
  BY <1>3, CodesAreNat DEF Bad, Char, Sound
<1>7. n # 0 /\ i + n - 1 <= Len(s) => Sound(Bad(n, "invalid_source"), i, s)
  BY <1>3, CodesAreNat DEF Bad, Char, Sound, Malformed
<1> QED
  BY <1>2, <1>4, <1>5, <1>6, <1>7

\* The code point of two surrogates.
Pair(a, b) == (a % 1024) * 1024 + (b % 1024) + 65536

LEMMA SurrogatePair ==
  ASSUME NEW a \in Nat, NEW b \in Nat
  PROVE  Pair(a, b) \in Codes
<1>1. ASSUME NEW x \in Nat, NEW y \in Nat, x < 1024, y < 1024
      PROVE  x * 1024 + y + 65536 \in Codes
  BY <1>1, SMT DEF Codes
<1> QED
  BY <1>1, LowBits DEF Pair

\* The outcomes of reading UTF-16.
LEMMA Utf16Cases ==
  ASSUME NEW s, NEW i
  PROVE  \/ FromUtf16(s, i) = Judged(1, s[i], 0)
         \/ FromUtf16(s, i) = Bad(1, "invalid_source")
         \/ i + 1 > Len(s) /\ FromUtf16(s, i) = Bad(2, "in_truncated")
         \/ ~(i + 1 > Len(s)) /\ FromUtf16(s, i) = Bad(2, "invalid_source")
         \/ ~(i + 1 > Len(s)) /\ FromUtf16(s, i) = Judged(2, Pair(s[i], s[i + 1]), 65536)
BY SMT DEF FromUtf16, Pair

LEMMA Utf16IsSound ==
  ASSUME NEW s \in Seq(Nat), \A k \in 1 .. Len(s) : s[k] \in Codes, NEW i \in 1 .. Len(s)
  PROVE  Sound(FromUtf16(s, i), i, s)
<1>1. s[i] \in Nat /\ Sound(Judged(1, s[i], 0), i, s)
  BY JudgedIsSound
<1>2. Sound(Bad(1, "invalid_source"), i, s) /\ Sound(Bad(2, "in_truncated"), i, s)
  BY CodesAreNat DEF Bad, Char, Sound, Malformed
<1>3. ASSUME ~(i + 1 > Len(s))
      PROVE  /\ Sound(Judged(2, Pair(s[i], s[i + 1]), 65536), i, s)
             /\ Sound(Bad(2, "invalid_source"), i, s)
  <2>1. s[i + 1] \in Nat /\ i + 2 - 1 <= Len(s)
    BY <1>3
  <2>2. PICK c : c = Pair(s[i], s[i + 1])
    OBVIOUS
  <2>3. c \in Codes
    BY <1>1, <2>1, <2>2, SurrogatePair
  <2>4. Sound(Judged(2, c, 65536), i, s)
    BY <2>1, <2>3, JudgedIsSound
  <2> QED
    BY <2>1, <2>2, <2>4, CodesAreNat DEF Bad, Char, Sound, Malformed
<1> QED
  BY <1>1, <1>2, <1>3, Utf16Cases, SMTT(30)

\* Reading goes forward, by four units at most, and stays inside the input unless it
\* says that the character is truncated.
LEMMA AheadIsSound ==
  ASSUME Options, NEW p \in 0 .. Len(input), p < Len(input)
  PROVE  /\ Ahead(p).error \in Malformed \cup {"none", "in_truncated"}
         /\ Ahead(p).input_block \in 1 .. 4 /\ Ahead(p).unicode \in Codes
         /\ Ahead(p).error # "in_truncated" => After(p) \in 0 .. Len(input) /\ p < After(p)
<1>1. /\ p + 1 \in 1 .. Len(input) /\ input \in Seq(Nat) /\ from \in {8, 16, 32}
      /\ \A k \in 1 .. Len(input) : input[k] \in Codes
  BY UnitsAreCodes DEF Options, Formats
<1>2. Sound(FromUtf32(input, p + 1), p + 1, input)
  BY <1>1, JudgedIsSound DEF FromUtf32
<1>3. Sound(Ahead(p), p + 1, input)
  BY <1>1, <1>2, Utf8IsSound, Utf16IsSound DEF Ahead, Decode
<1>4. PICK d : d = Ahead(p)
  OBVIOUS
<1>5. /\ d.error \in Malformed \cup {"none", "in_truncated"}
      /\ d.input_block \in 1 .. 4 /\ d.unicode \in Codes
  BY <1>3, <1>4 DEF Sound
<1>6. d.error # "in_truncated" => (p + 1) + d.input_block - 1 <= Len(input)
  BY <1>3, <1>4 DEF Sound
<1>7. d.error # "in_truncated" => p + d.input_block \in 0 .. Len(input) /\ p < p + d.input_block
  BY <1>1, <1>5, <1>6, SMTT(30)
<1> QED
  BY <1>4, <1>5, <1>7 DEF After

\* A code point takes one to four units.
LEMMA EncodeType ==
  ASSUME NEW f \in Formats, NEW c \in Nat
  PROVE  Encode(f, c) \in Seq(Nat) /\ Len(Encode(f, c)) \in 1 .. 4
<1>1. CASE f = 32 \/ (f = 16 /\ c <= 65535) \/ c <= 127
  BY <1>1 DEF Encode
<1>2. CASE f = 16 /\ ~(c <= 65535)
  <2>1. 55296 + (c - 65536) \div 1024 \in Nat /\ 56320 + (c % 1024) \in Nat
    BY <1>2
  <2> QED
    BY <1>2, <2>1 DEF Encode
<1>3. CASE f = 8 /\ ~(c <= 127) /\ c <= 2047
  <2>1. 192 + c \div 64 \in Nat /\ 128 + (c % 64) \in Nat
    BY <1>3
  <2> QED
    BY <1>3, <2>1 DEF Encode
<1>4. CASE f = 8 /\ ~(c <= 2047) /\ c <= 65535
  <2>1. 224 + c \div 4096 \in Nat /\ 128 + ((c \div 64) % 64) \in Nat /\ 128 + (c % 64) \in Nat
    BY <1>4
  <2> QED
    BY <1>4, <2>1 DEF Encode
<1>5. CASE f = 8 /\ ~(c <= 65535)
  <2>1. /\ 240 + c \div 262144 \in Nat /\ 128 + ((c \div 4096) % 64) \in Nat
        /\ 128 + ((c \div 64) % 64) \in Nat /\ 128 + (c % 64) \in Nat
    BY <1>5
  <2> QED
    BY <1>5, <2>1 DEF Encode
<1> QED
  BY <1>1, <1>2, <1>3, <1>4, <1>5 DEF Formats

LEMMA WrittenType ==
  ASSUME Options, NEW p \in 0 .. Len(input), p < Len(input)
  PROVE  Written(p) \in Seq(Nat) /\ Len(Written(p)) \in 1 .. 4
<1>1. Ahead(p).unicode \in Nat
  BY AheadIsSound, CodesAreNat
<1>2. replace_char \in Nat
  BY DEF replace_char
<1> QED
  BY <1>1, <1>2, EncodeType DEF Written, Options

\* The units that the encodings put together fit their formats.
LEMMA UnitBounds ==
  ASSUME NEW c \in Codes
  PROVE  /\ c < 2097152 /\ c \in Nat
         /\ ~(c <= 65535) => 55296 + (c - 65536) \div 1024 < 65536
         /\ 56320 + (c % 1024) < 65536
         /\ c <= 2047 => 192 + c \div 64 < 256
         /\ c <= 65535 => 224 + c \div 4096 < 256
         /\ 240 + c \div 262144 < 256
         /\ 128 + (c % 64) < 256 /\ 128 + ((c \div 64) % 64) < 256
         /\ 128 + ((c \div 4096) % 64) < 256
BY SMTT(30) DEF Codes

LEMMA EncodeFits ==
  ASSUME NEW f \in Formats, NEW c \in Codes
  PROVE  \A k \in 1 .. Len(Encode(f, c)) : Encode(f, c)[k] < Limit(f)
<1>1. CASE f = 32
  BY <1>1, UnitBounds, SMT DEF Encode, Limit
<1>2. CASE f = 16
  BY <1>2, UnitBounds, SMT DEF Encode, Limit
<1>3. CASE f = 8
  <2>1. Limit(f) = 256 /\ c \in Nat
    BY <1>3, UnitBounds, SMT DEF Limit
  <2>2. CASE c <= 127
    BY <1>3, <2>1, <2>2, SMT DEF Encode
  <2>3. CASE ~(c <= 127) /\ c <= 2047
    BY <1>3, <2>1, <2>3, UnitBounds, SMT DEF Encode
  <2>4. CASE ~(c <= 2047) /\ c <= 65535
    BY <1>3, <2>1, <2>4, UnitBounds, SMT DEF Encode
  <2>5. CASE ~(c <= 65535)
    BY <1>3, <2>1, <2>5, UnitBounds, SMT DEF Encode
  <2> QED
    BY <2>1, <2>2, <2>3, <2>4, <2>5, SMT
<1> QED
  BY <1>1, <1>2, <1>3 DEF Formats

\* What is written for a character is a text of the output's format.
LEMMA WrittenFits ==
  ASSUME Options, NEW p \in 0 .. Len(input), p < Len(input)
  PROVE  IsText(Written(p), to)
<1>1. replace_char \in Codes
  BY SMT DEF replace_char, Codes
<1>2. (IF Ahead(p).error = "none" THEN Ahead(p).unicode ELSE replace_char) \in Codes
  BY <1>1, AheadIsSound
<1>3. \A k \in 1 .. Len(Written(p)) : Written(p)[k] < Limit(to)
  BY <1>2, EncodeFits DEF Written, Options
<1> QED
  BY <1>3, WrittenType DEF IsText

\* Nothing is wrong with an ASCII character.
LEMMA AsciiVerdict ==
  ASSUME NEW c \in Nat, c < 128
  PROVE  Verdict(c, 0) = "none" /\ ~Surrogate(c)
BY SMTT(30) DEF Verdict, Surrogate, NonCharacter

\* A unit that is no surrogate is a character.
LEMMA BmpIsOneUnit ==
  ASSUME NEW s, NEW i, ~Surrogate(s[i])
  PROVE  FromUtf16(s, i) = Judged(1, s[i], 0)
BY SMT DEF FromUtf16

\* An ASCII unit is a character in every form and mode, and is written as one unit.
LEMMA Ascii ==
  ASSUME Options, NEW p \in 0 .. Len(input), p < Len(input), input[p + 1] < 128
  PROVE  /\ Ahead(p) = Char(1, input[p + 1], "none")
         /\ Written(p) = <<input[p + 1]>>
<1> DEFINE c == input[p + 1]
<1>1. p + 1 \in 1 .. Len(input) /\ c \in Nat /\ c < 128
  BY DEF Options
<1>2. Verdict(c, 0) = "none"
  BY <1>1, AsciiVerdict
<1>3. Judged(1, c, 0) = Char(1, c, "none")
  BY <1>2 DEF Judged
<1>4. Announced(c) = 1 /\ Least[1] = 0
  BY <1>1, SMT DEF Announced, Least
<1>5. FromUtf8(input, p + 1) = Char(1, c, "none")
  <2>1. Utf8Value(input, p + 1, 1) = c
    BY SMT DEF Utf8Value
  <2>2. 1 .. 1 - 1 = {} /\ ~(p + 1 + 1 - 1 > Len(input)) /\ 1 # 0
    BY <1>1, SMT
  <2>3. FromUtf8(input, p + 1) = Judged(1, Utf8Value(input, p + 1, 1), Least[1])
    BY <1>4, <2>2 DEF FromUtf8
  <2> QED
    BY <1>3, <1>4, <2>1, <2>3
<1>6. FromUtf16(input, p + 1) = Char(1, c, "none")
  <2>1. ~Surrogate(c)
    BY <1>1, AsciiVerdict
  <2> QED
    BY <1>3, <2>1, BmpIsOneUnit
<1>7. FromUtf32(input, p + 1) = Char(1, c, "none")
  BY <1>3 DEF FromUtf32
<1>8. Ahead(p) = Char(1, c, "none")
  BY <1>5, <1>6, <1>7 DEF Ahead, Decode, Options, Formats
<1>9. Encode(to, c) = <<c>>
  <2>1. c <= 127
    BY <1>1, SMT
  <2> QED
    BY <2>1, SMT DEF Encode
<1> QED
  BY <1>8, <1>9 DEF Written, Char

-----------------------------------------------------------------------------
(* The counting pass.                                                      *)

\* The result r after the character at position p has been read.
ReadFrom(r, p) ==
  LET q == [r EXCEPT !.input_block_count = @ + Ahead(p).input_block]
  IN IF Ahead(p).error = "none" THEN [q EXCEPT !.conv_normal_char_count = @ + 1]
     ELSE [q EXCEPT !.conv_error_char_count = @ + 1, !.error = @ \cup {Ahead(p).error},
                    !.status = IF error_mode = "stop" \/ Ahead(p).error = "in_truncated"
                               THEN "error" ELSE "partial"]

\* The result of the counting pass after a turn at p that does not end it.
CountFrom(r, p) ==
  IF Skips(p) THEN ReadFrom(r, p)
  ELSE [ReadFrom(r, p) EXCEPT !.need_output_block_count = @ + Len(Written(p))]

\* Two results of the same reading, but for the overflow that one of them has seen.
Agree(r, q, over) ==
  /\ r.input_block_count = q.input_block_count
  /\ r.conv_normal_char_count = q.conv_normal_char_count
  /\ r.conv_error_char_count = q.conv_error_char_count
  /\ r.error = q.error \cup over
  /\ over = {} => r.status = q.status

\* Setting fields to values of their types.
LEMMA SetRead ==
  ASSUME NEW r \in Result, NEW i \in Nat, NEW n \in Nat
  PROVE  [r EXCEPT !.input_block_count = i, !.conv_normal_char_count = n] \in Result
BY DEF Result

LEMMA SetNeed ==
  ASSUME NEW r \in Result, NEW n \in Nat
  PROVE  [r EXCEPT !.need_output_block_count = n] \in Result
BY DEF Result

Errors == Malformed \cup {"in_truncated", "out_overflow"}
Statuses == {"ok", "partial", "error"}

LEMMA ResultIs ==
  Result = [
    input_block_count : Nat, output_block_count : Nat, need_output_block_count : Nat,
    conv_normal_char_count : Nat, conv_error_char_count : Nat,
    status : Statuses, error : SUBSET Errors]
BY DEF Result, Errors, Statuses

LEMMA SetError ==
  ASSUME NEW r \in Result, NEW i \in Nat, NEW e \in Nat,
         NEW s \in Statuses, NEW x \in SUBSET Errors, NEW q,
         q = [r EXCEPT !.input_block_count = i, !.conv_error_char_count = e,
                       !.error = x, !.status = s]
  PROVE  q \in Result
BY ResultIs

LEMMA SetOverflow ==
  ASSUME NEW r \in Result, NEW s \in Statuses, NEW x \in SUBSET Errors, NEW q,
         q = [r EXCEPT !.error = x, !.status = s]
  PROVE  q \in Result
BY ResultIs

LEMMA SetOverflowCount ==
  ASSUME NEW r \in Result, NEW n \in Nat, NEW s \in Statuses, NEW x \in SUBSET Errors, NEW q,
         q = [r EXCEPT !.need_output_block_count = n, !.error = x, !.status = s]
  PROVE  q \in Result
BY ResultIs

LEMMA ReadFields ==
  ASSUME Options, NEW p \in 0 .. Len(input), p < Len(input), NEW r \in Result
  PROVE  /\ ReadFrom(r, p) \in Result
         /\ ReadFrom(r, p).need_output_block_count = r.need_output_block_count
         /\ ReadFrom(r, p).output_block_count = r.output_block_count
         /\ "out_overflow" \notin r.error => "out_overflow" \notin ReadFrom(r, p).error
<1> DEFINE a == Ahead(p)
<1>1. /\ a.error \in Malformed \cup {"none", "in_truncated"}
      /\ a.input_block \in Nat
  BY AheadIsSound
<1> HIDE DEF a
<1>2. CASE a.error = "none"
  <2> DEFINE i == r.input_block_count + a.input_block
             n == r.conv_normal_char_count + 1
  <2>1. ReadFrom(r, p) = [r EXCEPT !.input_block_count = i, !.conv_normal_char_count = n]
    BY <1>2 DEF ReadFrom, a, Result
  <2>2. i \in Nat /\ n \in Nat
    BY <1>1 DEF Result
  <2> HIDE DEF i, n
  <2>3. ReadFrom(r, p) \in Result
    BY <2>1, <2>2, SetRead
  <2>4. /\ ReadFrom(r, p).need_output_block_count = r.need_output_block_count
        /\ ReadFrom(r, p).output_block_count = r.output_block_count
        /\ ReadFrom(r, p).error = r.error
    BY <2>1 DEF Result
  <2> QED
    BY <2>3, <2>4
<1>3. CASE a.error # "none"
  <2> DEFINE s == IF error_mode = "stop" \/ a.error = "in_truncated" THEN "error" ELSE "partial"
             i == r.input_block_count + a.input_block
             e == r.conv_error_char_count + 1
             x == r.error \cup {a.error}
  <2>1. ReadFrom(r, p) = [r EXCEPT !.input_block_count = i, !.conv_error_char_count = e,
                                   !.error = x, !.status = s]
    BY <1>3 DEF ReadFrom, a, Result
  <2>2. s \in Statuses /\ i \in Nat /\ e \in Nat
    BY <1>1 DEF Result, Statuses
  <2>3. a.error \in Errors /\ a.error # "out_overflow"
    BY <1>1, <1>3 DEF Malformed, Errors
  <2>4. x \in SUBSET Errors /\ ("out_overflow" \notin r.error => "out_overflow" \notin x)
    BY <2>3 DEF Result, Errors
  <2> HIDE DEF s, i, e, x
  <2>5. ReadFrom(r, p) \in Result
    BY <2>1, <2>2, <2>4, SetError, Zenon
  <2>6. /\ ReadFrom(r, p).need_output_block_count = r.need_output_block_count
        /\ ReadFrom(r, p).output_block_count = r.output_block_count
        /\ ReadFrom(r, p).error = x
    BY <2>1 DEF Result
  <2> QED
    BY <2>4, <2>5, <2>6
<1> QED
  BY <1>2, <1>3

\* Reading the same character keeps two results in agreement.
LEMMA AgreeRead ==
  ASSUME Options, NEW p, NEW r \in Result, NEW q \in Result, NEW over, Agree(r, q, over)
  PROVE  Agree(ReadFrom(r, p), ReadFrom(q, p), over)
<1>1. CASE Ahead(p).error = "none"
  BY <1>1 DEF ReadFrom, Agree, Result
<1>2. CASE Ahead(p).error # "none"
  BY <1>2 DEF ReadFrom, Agree, Result
<1> QED
  BY <1>1, <1>2

Gain(p) == IF Skips(p) THEN 0 ELSE Len(Written(p))

LEMMA GainType ==
  ASSUME Options, NEW p \in 0 .. Len(input), p < Len(input)
  PROVE  Gain(p) \in Nat
BY WrittenType DEF Gain

LEMMA CountFields ==
  ASSUME Options, NEW p \in 0 .. Len(input), p < Len(input), NEW r \in Result
  PROVE  /\ CountFrom(r, p) \in Result
         /\ CountFrom(r, p).need_output_block_count = r.need_output_block_count + Gain(p)
         /\ CountFrom(r, p).output_block_count = r.output_block_count
         /\ "out_overflow" \notin r.error => "out_overflow" \notin CountFrom(r, p).error
         /\ \A q, over : Agree(q, ReadFrom(r, p), over) => Agree(q, CountFrom(r, p), over)
<1>1. CASE Skips(p)
  <2>1. CountFrom(r, p) = ReadFrom(r, p) /\ Gain(p) = 0
    BY <1>1 DEF CountFrom, Gain
  <2>2. r.need_output_block_count \in Nat
    BY DEF Result
  <2> QED
    BY <2>1, <2>2, ReadFields
<1>2. CASE ~Skips(p)
  <2> DEFINE n == ReadFrom(r, p)
  <2>1. n \in Result /\ Gain(p) \in Nat
    BY ReadFields, GainType
  <2>2. /\ n.need_output_block_count = r.need_output_block_count
        /\ n.output_block_count = r.output_block_count
        /\ "out_overflow" \notin r.error => "out_overflow" \notin n.error
    BY ReadFields
  <2>3. CountFrom(r, p) = [n EXCEPT !.need_output_block_count = n.need_output_block_count + Gain(p)]
    BY <1>2, <2>1 DEF CountFrom, Gain, Result
  <2> HIDE DEF n
  <2>4. \A q, over : Agree(q, n, over) => Agree(q, CountFrom(r, p), over)
    BY <2>1, <2>3 DEF Agree, Result
  <2>5. n.need_output_block_count + Gain(p) \in Nat
    BY <2>1, SMTT(30) DEF Result
  <2>6. CountFrom(r, p) \in Result
    BY <2>1, <2>3, <2>5, SetNeed
  <2>7. /\ CountFrom(r, p).need_output_block_count = n.need_output_block_count + Gain(p)
        /\ CountFrom(r, p).output_block_count = n.output_block_count
        /\ CountFrom(r, p).error = n.error
    BY <2>1, <2>3 DEF Result
  <2> QED
    BY <2>2, <2>4, <2>6, <2>7 DEF n
<1> QED
  BY <1>1, <1>2

-----------------------------------------------------------------------------
(* The log of the counting pass: the positions P at which it has begun a turn, and *)
(* the result R[p] it had there.  It is at position n.                              *)

Clean(r) == r.output_block_count = 0 /\ "out_overflow" \notin r.error

Logged(R, P, n) ==
  /\ R \in [Nat -> Result] /\ n \in 0 .. Len(input)
  /\ P \subseteq 0 .. n /\ 0 \in P /\ n \in P
  /\ R[0] = EmptyResult
  /\ \A p \in P : p < n => /\ ~Ends(p) /\ After(p) \in P /\ R[After(p)] = CountFrom(R[p], p)
  /\ \A p \in P :
       Clean(R[p]) /\ R[p].need_output_block_count <= R[n].need_output_block_count

\* The pass has ended at n with result r.
Concluded(R, n, r) ==
  \/ n = Len(input) /\ r = R[n]
  \/ n < Len(input) /\ Ends(n) /\ r = ReadFrom(R[n], n)

LEMMA EmptyType == EmptyResult \in Result /\ Clean(EmptyResult)
BY DEF EmptyResult, Result, Clean

LEMMA LogBegins ==
  ASSUME Options
  PROVE  \E R, P : Logged(R, P, 0) /\ R[0] = EmptyResult
<1> DEFINE R == [k \in Nat |-> EmptyResult]
<1>1. R \in [Nat -> Result] /\ \A k \in Nat : R[k] = EmptyResult
  BY EmptyType
<1>2. 0 \in 0 .. Len(input)
  BY DEF Options
<1>3. EmptyResult.need_output_block_count = 0
  BY DEF EmptyResult
<1> HIDE DEF R
<1>4. Logged(R, {0}, 0)
  BY <1>1, <1>2, <1>3, EmptyType DEF Logged
<1> QED
  BY <1>1, <1>4

\* A turn that goes on extends the log.
LEMMA LogGrows ==
  ASSUME Options, NEW R, NEW P, NEW n, Logged(R, P, n), n < Len(input), ~Ends(n)
  PROVE  \E S, Q : Logged(S, Q, After(n)) /\ S[After(n)] = CountFrom(R[n], n)
<1> DEFINE m == After(n)
           c == CountFrom(R[n], n)
           S == [R EXCEPT ![m] = c]
           Q == P \cup {m}
<1>1. n \in 0 .. Len(input) /\ R[n] \in Result
  BY DEF Logged, Options
<1>2. Ahead(n).error # "in_truncated"
  BY DEF Ends
<1>3. m \in 0 .. Len(input) /\ n < m
  BY <1>1, <1>2, AheadIsSound
<1>4. /\ c \in Result /\ (Clean(R[n]) => Clean(c))
      /\ c.need_output_block_count >= R[n].need_output_block_count
  <2>1. R[n].need_output_block_count \in Nat /\ Gain(n) \in Nat
    BY <1>1, GainType DEF Result
  <2> QED
    BY <1>1, <2>1, CountFields DEF Clean
<1> HIDE DEF m, c
<1>5. /\ S \in [Nat -> Result] /\ S[m] = c
      /\ \A p \in P : S[p] = R[p] /\ p \in 0 .. n /\ R[p] \in Result /\ p # m
  <2>1. m \in Nat
    BY <1>3
  <2>2. \A p \in P : p \in 0 .. n /\ p \in Nat /\ p # m
    BY <1>1, <1>3 DEF Logged
  <2> QED
    BY <1>4, <2>1, <2>2 DEF Logged
<1> HIDE DEF S
<1>6. \A p \in Q : p < m => ~Ends(p) /\ After(p) \in Q /\ S[After(p)] = CountFrom(S[p], p)
  <2> SUFFICES ASSUME NEW p \in Q, p < m
               PROVE  ~Ends(p) /\ After(p) \in Q /\ S[After(p)] = CountFrom(S[p], p)
    OBVIOUS
  <2>1. p \in P
    BY <1>3
  <2>2. CASE p = n
    BY <1>5, <2>1, <2>2 DEF m, c
  <2>3. CASE p # n
    <3>1. p < n
      BY <1>1, <1>5, <2>1, <2>3
    <3>2. ~Ends(p) /\ After(p) \in P /\ R[After(p)] = CountFrom(R[p], p)
      BY <2>1, <3>1 DEF Logged
    <3> QED
      BY <1>5, <2>1, <3>2
  <2> QED
    BY <2>2, <2>3
<1>7. \A p \in Q : Clean(S[p]) /\ S[p].need_output_block_count <= S[m].need_output_block_count
  <2>1. n \in P /\ \A p \in P : Clean(R[p])
                     /\ R[p].need_output_block_count <= R[n].need_output_block_count
    BY DEF Logged
  <2>2. \A p \in P : R[p].need_output_block_count \in Nat
    BY <1>5 DEF Result
  <2>3. c.need_output_block_count \in Nat
    BY <1>4 DEF Result
  <2>4. \A p \in P : R[p].need_output_block_count <= c.need_output_block_count
    BY <1>4, <2>1, <2>2, <2>3
  <2> QED
    BY <1>4, <1>5, <2>1, <2>3, <2>4
<1>8. Q \subseteq 0 .. m /\ 0 \in Q /\ m \in Q
  <2>1. \A p \in P : p \in 0 .. m
    BY <1>1, <1>3, <1>5
  <2>2. m \in 0 .. m /\ 0 \in P
    BY <1>3 DEF Logged
  <2> QED
    BY <2>1, <2>2
<1>9. S[0] = EmptyResult
  BY <1>5 DEF Logged
<1> HIDE DEF Q
<1>10. Logged(S, Q, m)
  BY <1>3, <1>5, <1>6, <1>7, <1>8, <1>9 DEF Logged
<1> QED
  BY <1>5, <1>10 DEF m, c

\* Wherever the second pass meets the log before its end, the log goes on.
LEMMA LogGoesOn ==
  ASSUME Options, NEW R, NEW P, NEW n, NEW c, Logged(R, P, n), Concluded(R, n, c),
         NEW p \in P, p < Len(input), ~Ends(p)
  PROVE  /\ p < n /\ p \in 0 .. Len(input) /\ R[p] \in Result
         /\ After(p) \in P /\ R[After(p)] = CountFrom(R[p], p)
<1>1. p \in 0 .. n /\ n \in 0 .. Len(input) /\ R[p] \in Result
  BY DEF Logged
<1>2. p # n
  BY DEF Concluded
<1>3. p < n /\ p \in 0 .. Len(input)
  BY <1>1, <1>2
<1> QED
  BY <1>1, <1>3 DEF Logged

-----------------------------------------------------------------------------
(* Runs of ASCII: what the log says of the characters a block holds.       *)

Plain(p, k) == p + k <= Len(input) /\ \A j \in 1 .. k : input[p + j] < 128

\* k characters, of one unit each, read and written.
Moved(r, q, k) ==
  /\ q.input_block_count = r.input_block_count + k
  /\ q.need_output_block_count = r.need_output_block_count + k
  /\ q.conv_normal_char_count = r.conv_normal_char_count + k
  /\ q.conv_error_char_count = r.conv_error_char_count
  /\ q.error = r.error /\ q.status = r.status

Runs(R, P, k) == \A p \in P : Plain(p, k) => p + k \in P /\ Moved(R[p], R[p + k], k)

LEMMA RunOfOne ==
  ASSUME Options, NEW R, NEW P, NEW n, NEW c, Logged(R, P, n), Concluded(R, n, c)
  PROVE  Runs(R, P, 1)
<1> SUFFICES ASSUME NEW p \in P, Plain(p, 1)
             PROVE  p + 1 \in P /\ Moved(R[p], R[p + 1], 1)
  BY DEF Runs
<1>1. p \in 0 .. n /\ n \in 0 .. Len(input) /\ Len(input) \in Nat
  BY DEF Logged, Options
<1>2. p \in 0 .. Len(input) /\ p < Len(input) /\ input[p + 1] < 128
  BY <1>1 DEF Plain
<1>3. Ahead(p) = Char(1, input[p + 1], "none") /\ Written(p) = <<input[p + 1]>>
  BY <1>2, Ascii
<1>4. Ahead(p).error = "none" /\ Ahead(p).input_block = 1 /\ Len(Written(p)) = 1
  BY <1>3 DEF Char
<1>5. ~Ends(p) /\ ~Skips(p) /\ After(p) = p + 1
  BY <1>4 DEF Ends, Skips, After, Malformed
<1>6. p + 1 \in P /\ R[p + 1] = CountFrom(R[p], p) /\ R[p] \in Result
  BY <1>2, <1>5, LogGoesOn
<1> DEFINE r == R[p]
           a == ReadFrom(r, p)
           q == CountFrom(r, p)
<1>7. a = [r EXCEPT !.input_block_count = r.input_block_count + 1,
                    !.conv_normal_char_count = r.conv_normal_char_count + 1]
  BY <1>4, <1>6 DEF ReadFrom, Result
<1>8. a \in Result /\ a.need_output_block_count = r.need_output_block_count
  BY <1>2, <1>6, ReadFields
<1>9. q = [a EXCEPT !.need_output_block_count = a.need_output_block_count + 1]
  BY <1>4, <1>5, <1>8 DEF CountFrom, Result
<1> HIDE DEF a, q, r
<1>10. Moved(r, q, 1)
  BY <1>6, <1>7, <1>8, <1>9 DEF Moved, Result, r
<1> QED
  BY <1>6, <1>10 DEF q, r

LEMMA RunOfTwice ==
  ASSUME Options, NEW R, NEW P, NEW n, Logged(R, P, n), NEW k \in Nat, Runs(R, P, k)
  PROVE  Runs(R, P, 2 * k)
<1> SUFFICES ASSUME NEW p \in P, Plain(p, 2 * k)
             PROVE  p + 2 * k \in P /\ Moved(R[p], R[p + 2 * k], 2 * k)
  BY DEF Runs
<1>1. p \in Nat /\ Len(input) \in Nat
  BY DEF Logged, Options
<1>2. Plain(p, k)
  <2>1. p + k <= Len(input) /\ \A j \in 1 .. k : j \in 1 .. 2 * k
    BY <1>1 DEF Plain
  <2> QED
    BY <2>1, Zenon DEF Plain
<1>3. p + k \in P /\ Moved(R[p], R[p + k], k)
  BY <1>2 DEF Runs
<1>4. Plain(p + k, k)
  <2>1. (p + k) + k <= Len(input)
    BY <1>1 DEF Plain
  <2>2. ASSUME NEW j \in 1 .. k PROVE input[(p + k) + j] < 128
    <3>1. k + j \in 1 .. 2 * k /\ (p + k) + j = p + (k + j)
      BY <1>1
    <3>2. input[p + (k + j)] < 128
      BY <3>1 DEF Plain
    <3> QED
      BY <3>1, <3>2
  <2> QED
    BY <2>1, <2>2 DEF Plain
<1>5. (p + k) + k \in P /\ Moved(R[p + k], R[(p + k) + k], k)
  BY <1>3, <1>4 DEF Runs
<1>6. (p + k) + k = p + 2 * k
  BY <1>1
<1>7. R[p] \in Result
  BY <1>1 DEF Logged
<1> QED
  BY <1>3, <1>5, <1>6, <1>7 DEF Moved, Result

LEMMA BlockLengths ==
  ASSUME NEW f \in Formats
  PROVE  BlockLength(f) \in {1, 2, 4, 8}
BY BlockAssumption DEF BlockLength, Formats

LEMMA RunOfBlock ==
  ASSUME Options, NEW R, NEW P, NEW n, NEW c, Logged(R, P, n), Concluded(R, n, c)
  PROVE  Runs(R, P, BlockLength(from))
<1>1. Runs(R, P, 1)
  BY RunOfOne
<1>2. Runs(R, P, 2)
  BY <1>1, RunOfTwice
<1>3. Runs(R, P, 4)
  BY <1>2, RunOfTwice
<1>4. Runs(R, P, 8)
  BY <1>3, RunOfTwice
<1> QED
  BY <1>1, <1>2, <1>3, <1>4, BlockLengths DEF Options

-----------------------------------------------------------------------------
(* No step changes the options of both passes or the input, so none changes what   *)
(* is read and written at a position.                                               *)

LEMMA SameVerdict ==
  ASSUME char_mode' = char_mode, NEW c, NEW least
  PROVE  Verdict(c, least)' = Verdict(c, least)
BY SMT DEF Verdict

LEMMA SameDecode ==
  ASSUME char_mode' = char_mode, NEW f, NEW s, NEW i
  PROVE  Decode(f, s, i)' = Decode(f, s, i)
<1>1. ASSUME NEW n, NEW c, NEW least PROVE Judged(n, c, least)' = Judged(n, c, least)
  BY SameVerdict DEF Judged
<1>2. FromUtf8(s, i)' = FromUtf8(s, i)
  BY <1>1, SMT DEF FromUtf8
<1>3. FromUtf16(s, i)' = FromUtf16(s, i)
  BY <1>1, SMT DEF FromUtf16
<1>4. FromUtf32(s, i)' = FromUtf32(s, i)
  BY <1>1, SMT DEF FromUtf32
<1> QED
  BY <1>2, <1>3, <1>4 DEF Decode

Kept == options' = options /\ input' = input

LEMMA SameLog ==
  ASSUME Kept
  PROVE  /\ Options' <=> Options
         /\ \A R, P, n : Logged(R, P, n)' <=> Logged(R, P, n)
         /\ \A R, n, r : Concluded(R, n, r)' <=> Concluded(R, n, r)
<1>1. /\ from' = from /\ to' = to /\ char_mode' = char_mode
      /\ error_mode' = error_mode /\ perf_mode' = perf_mode /\ input' = input
  BY DEF Kept, options
<1>2. ASSUME NEW p PROVE Ahead(p)' = Ahead(p)
  BY <1>1, SameDecode DEF Ahead
<1>3. ASSUME NEW p PROVE After(p)' = After(p)
  BY <1>2 DEF After
<1>4. ASSUME NEW p PROVE Written(p)' = Written(p)
  BY <1>1, <1>2 DEF Written
<1>5. ASSUME NEW p PROVE (Ends(p)' <=> Ends(p)) /\ (Skips(p)' <=> Skips(p))
  BY <1>1, <1>2 DEF Ends, Skips
<1>6. ASSUME NEW r, NEW p PROVE ReadFrom(r, p)' = ReadFrom(r, p)
  BY <1>1, <1>2 DEF ReadFrom
<1>7. ASSUME NEW r, NEW p PROVE CountFrom(r, p)' = CountFrom(r, p)
  BY <1>4, <1>5, <1>6 DEF CountFrom
<1>8. Options' <=> Options
  BY <1>1 DEF Options
<1>9. ASSUME NEW R, NEW P, NEW n PROVE Logged(R, P, n)' <=> Logged(R, P, n)
  BY <1>1, <1>3, <1>5, <1>7 DEF Logged
<1>10. ASSUME NEW R, NEW n, NEW r PROVE Concluded(R, n, r)' <=> Concluded(R, n, r)
  BY <1>1, <1>5, <1>6 DEF Concluded
<1> QED
  BY <1>8, <1>9, <1>10

-----------------------------------------------------------------------------
(* The inductive invariant.                                                *)

Types ==
  /\ Options
  /\ capacity \in Nat /\ output \in Seq(Nat)
  /\ result \in Result /\ counted \in Result

\* The first pass has no buffer; the second has one of the size its mode needs.
NoBuffer == out_mode = "count" /\ capacity = 0 /\ output = <<>>
Buffer ==
  /\ out_mode \in {"normal", "full", "none_check_buffer"}
  /\ out_mode = "none_check_buffer" => capacity >= counted.need_output_block_count

\* What is too much for a buffer of cap units when q has been counted.
Over(cap, q) == IF cap < q.need_output_block_count THEN {"out_overflow"} ELSE {}

\* The second pass is where the first had counted q, if the fast path keeps to the buffer.
Follows(q) ==
  /\ Agree(result, q, Over(capacity, q))
  /\ capacity >= q.need_output_block_count => Len(output) = q.need_output_block_count
  /\ out_mode = "full" /\ perf_mode = "normal" =>
       result.need_output_block_count = q.need_output_block_count
  /\ out_mode # "full" => capacity >= q.need_output_block_count

Counting ==
  pc = "counting" => NoBuffer /\ \E R, P : Logged(R, P, in_str) /\ result = R[in_str]
Counted ==
  pc = "counted" => NoBuffer /\ \E R, P, n : Logged(R, P, n) /\ Concluded(R, n, result)
Converting ==
  pc = "converting" =>
    /\ Buffer
    /\ FastPathFits => \E R, P, n :
         Logged(R, P, n) /\ Concluded(R, n, counted) /\ in_str \in P /\ Follows(R[in_str])

UInv ==
  /\ Types /\ WritesStayInside
  /\ pc \in {"counting", "counted", "converting", "done"}
  /\ Counting /\ Counted /\ Converting /\ CountPredicts

\* CountPredicts, of values.
Predicted(r, c, cap, full, len) ==
  LET overflow == "out_overflow" \in r.error IN
  /\ overflow <=> cap < c.need_output_block_count
  /\ full => r.need_output_block_count = c.need_output_block_count
  /\ ~overflow => /\ len = c.need_output_block_count
                  /\ r = [c EXCEPT !.output_block_count = len,
                                   !.need_output_block_count = r.need_output_block_count]

\* A pass that follows the counting pass to its end does what was counted.
LEMMA EndAgrees ==
  ASSUME NEW r \in Result, NEW c \in Result, NEW cap \in Nat, NEW full \in BOOLEAN, NEW len,
         Agree(r, c, Over(cap, c)), "out_overflow" \notin c.error,
         cap >= c.need_output_block_count => len = c.need_output_block_count,
         full => r.need_output_block_count = c.need_output_block_count,
         r.output_block_count = len
  PROVE  Predicted(r, c, cap, full, len)
<1>1. c.need_output_block_count \in Nat
  BY DEF Result
<1>2. CASE cap < c.need_output_block_count
  <2>1. Over(cap, c) = {"out_overflow"}
    BY <1>2 DEF Over
  <2>2. "out_overflow" \in r.error
    BY <2>1 DEF Agree
  <2> QED
    BY <1>2, <2>2 DEF Predicted
<1>3. CASE ~(cap < c.need_output_block_count)
  <2>1. Over(cap, c) = {}
    BY <1>3 DEF Over
  <2>2. /\ r.error = c.error /\ r.status = c.status
        /\ r.input_block_count = c.input_block_count
        /\ r.conv_normal_char_count = c.conv_normal_char_count
        /\ r.conv_error_char_count = c.conv_error_char_count
    BY <2>1 DEF Agree
  <2>3. cap >= c.need_output_block_count
    BY <1>1, <1>3
  <2>4. r = [c EXCEPT !.output_block_count = len,
                      !.need_output_block_count = r.need_output_block_count]
    BY <2>2 DEF Result
  <2> QED
    BY <1>3, <2>2, <2>3, <2>4 DEF Predicted
<1> QED
  BY <1>2, <1>3

\* Where FastPathFits and Overshoot get their values: capacity and counted.
LEMMA SameOvershoot ==
  ASSUME Kept, UNCHANGED <<capacity, counted>>
  PROVE  (FastPathFits' <=> FastPathFits) /\ Overshoot' = Overshoot
BY DEF Kept, options, FastPathFits, Overshoot

LEMMA OvershootType ==
  ASSUME NEW f \in Formats, NEW t \in Formats, ~(t <= f)
  PROVE  BlockLength(f) - BlockLength(t) \in Nat
BY BlockAssumption DEF BlockLength, Formats

LEMMA UInvInit == Init => UInv
<1> SUFFICES ASSUME Init PROVE UInv
  OBVIOUS
<1>1. input \in Seq(Nat)
  BY InputsAssumption DEF Init, IsText
<1>2. Options
  BY <1>1, InputsAssumption DEF Init, Options
<1>3. Types
  BY <1>2, EmptyType DEF Types, Init
<1>4. WritesStayInside
  BY EmptyType DEF WritesStayInside, Init, Clean, Overshoot, FastPathFits, EmptyResult
<1>5. Counting
  BY <1>2, LogBegins DEF Counting, Init, NoBuffer
<1>6. Counted /\ Converting /\ CountPredicts
  BY DEF Counted, Converting, CountPredicts, Init
<1> QED
  BY <1>3, <1>4, <1>5, <1>6 DEF UInv, Init

-----------------------------------------------------------------------------
(* The steps of the counting pass.                                         *)

LEMMA KeptStep == Next => Kept
BY DEF Next, CopyBlock, Finish, StartConversion, Stop, Skip, Write, Count, Overflow,
   CountOverflow, Accept, Turn, Kept, options

\* The operators of the actions, at the position of the pass.
LEMMA AtPosition ==
  /\ next = Ahead(in_str) /\ Read = ReadFrom(result, in_str)
  /\ OutUnits = Written(in_str) /\ in_str + next.input_block = After(in_str)
BY DEF next, Ahead, Read, ReadFrom, OutUnits, Written, After

LEMMA OptionsKept ==
  ASSUME Types, Kept, capacity' \in Nat, output' \in Seq(Nat), result' \in Result,
         counted' \in Result
  PROVE  Types'
BY SameLog DEF Types

\* Without a buffer the fast path is not taken.
LEMMA NoBlock ==
  ASSUME Types, NoBuffer
  PROVE  ~BlockAhead
<1>1. BlockLength(to) \in {1, 2, 4, 8}
  BY BlockLengths DEF Types, Options
<1>2. Len(output) = 0 /\ capacity = 0
  BY DEF NoBuffer
<1> QED
  BY <1>1, <1>2 DEF BlockAhead

LEMMA CountingStops ==
  ASSUME UInv, pc = "counting", Finish \/ Stop
  PROVE  UInv'
<1> USE DEF UInv
<1>1. PICK R, P : Logged(R, P, in_str) /\ result = R[in_str]
  BY DEF Counting
<1>2. NoBuffer /\ Types /\ WritesStayInside
  BY DEF Counting
<1>3. Kept /\ UNCHANGED <<out_mode, capacity, in_str, output, counted>> /\ pc' = "counted"
  BY DEF Finish, Stop, Turn, Return, Kept, options
<1>4. in_str \in 0 .. Len(input)
  BY <1>1 DEF Logged
<1>5. /\ result' \in Result /\ Concluded(R, in_str, result')
      /\ result'.output_block_count = result.output_block_count
  <2>1. CASE Finish
    BY <1>1, <1>2, <2>1 DEF Finish, Concluded, Types
  <2>2. CASE Stop
    <3>1. in_str < Len(input) /\ result' = ReadFrom(result, in_str) /\ Ends(in_str)
      BY <2>2, AtPosition DEF Stop, Turn, Ends
    <3> QED
      BY <1>1, <1>2, <1>4, <3>1, ReadFields DEF Concluded, Types
  <2> QED
    BY <2>1, <2>2
<1>6. Types'
  BY <1>2, <1>3, <1>5, OptionsKept DEF Types
<1>7. WritesStayInside'
  BY <1>2, <1>3, <1>5, SameOvershoot DEF WritesStayInside
<1>8. Counted'
  BY <1>1, <1>2, <1>3, <1>5, SameLog DEF Counted, NoBuffer
<1> QED
  BY <1>3, <1>6, <1>7, <1>8 DEF Counting, Converting, CountPredicts

LEMMA CountingGoesOn ==
  ASSUME UInv, pc = "counting", Skip \/ Count
  PROVE  UInv'
<1> USE DEF UInv
<1>1. PICK R, P : Logged(R, P, in_str) /\ result = R[in_str]
  BY DEF Counting
<1>2. NoBuffer /\ Types /\ WritesStayInside /\ Options
  BY DEF Counting, Types
<1>3. /\ Kept /\ UNCHANGED <<out_mode, capacity, output, counted>> /\ pc' = "counting"
      /\ in_str < Len(input) /\ in_str' = After(in_str)
  BY AtPosition DEF Skip, Count, Accept, Turn, Continue, Kept, options
<1>4. in_str \in 0 .. Len(input)
  BY <1>1 DEF Logged
<1>5. ~Ends(in_str) /\ result' = CountFrom(result, in_str)
  <2>1. CASE Skip
    BY <2>1, AtPosition DEF Skip, Ends, Skips, CountFrom, Malformed
  <2>2. CASE Count
    BY <2>2, AtPosition DEF Count, Accept, Ends, Skips, CountFrom, Malformed
  <2> QED
    BY <2>1, <2>2
<1>6. result' \in Result /\ result'.output_block_count = result.output_block_count
  BY <1>2, <1>3, <1>4, <1>5, CountFields DEF Types
<1>7. Types'
  BY <1>2, <1>3, <1>6, OptionsKept DEF Types
<1>8. WritesStayInside'
  BY <1>2, <1>3, <1>6, SameOvershoot DEF WritesStayInside
<1>9. Counting'
  <2>1. \E S, Q : Logged(S, Q, in_str') /\ S[in_str'] = result'
    BY <1>1, <1>2, <1>3, <1>5, LogGrows
  <2>2. PICK S, Q : Logged(S, Q, in_str') /\ S[in_str'] = result'
    BY <2>1
  <2>3. NoBuffer'
    BY <1>2, <1>3 DEF NoBuffer
  <2>4. ASSUME NEW n PROVE Logged(S, Q, n)' <=> Logged(S, Q, n)
    BY <1>3, SameLog
  <2> QED
    BY <2>2, <2>3, <2>4 DEF Counting
<1> QED
  BY <1>3, <1>7, <1>8, <1>9 DEF Counted, Converting, CountPredicts

LEMMA ConversionStarts ==
  ASSUME UInv, StartConversion
  PROVE  UInv'
<1> USE DEF UInv
<1>1. PICK R, P, n : Logged(R, P, n) /\ Concluded(R, n, result)
  BY DEF StartConversion, Counted
<1>2. NoBuffer /\ Types
  BY DEF StartConversion, Counted
<1>3. /\ Kept /\ output' = output /\ pc' = "converting" /\ in_str' = 0
      /\ counted' = result /\ result' = EmptyResult
      /\ out_mode' \in OutModes \ {"count"}
      /\ capacity' \in 0 .. result.need_output_block_count + 1
      /\ out_mode' = "none_check_buffer" => capacity' >= result.need_output_block_count
  BY DEF StartConversion, Kept
<1>4. capacity' \in Nat
  BY <1>2, <1>3 DEF Types, Result
<1>5. Types'
  BY <1>2, <1>3, <1>4, EmptyType, OptionsKept DEF Types
<1>6. Len(output) = 0 /\ EmptyResult.output_block_count = 0
  BY <1>2, EmptyType DEF NoBuffer, Clean
<1>7. WritesStayInside'
  <2>1. Overshoot' \in Nat
    BY <1>2, <1>3, OvershootType DEF Overshoot, FastPathFits, Kept, options, Types, Options
  <2>2. Len(output') = 0 /\ result'.output_block_count = 0
    BY <1>3, <1>6
  <2>3. 0 <= capacity' + Overshoot'
    <3>1. \A c \in Nat, o \in Nat : 0 <= c + o
      OBVIOUS
    <3> QED
      BY <1>4, <2>1, <3>1, Zenon
  <2> QED
    BY <2>2, <2>3 DEF WritesStayInside
<1>8. Buffer'
  BY <1>3 DEF Buffer, OutModes, Kept, options
<1>9. Follows(R[0])'
  <2>1. R[0] = EmptyResult /\ EmptyResult.need_output_block_count = 0
    BY <1>1 DEF Logged, EmptyResult
  <2>2. Over(capacity', EmptyResult) = {} /\ capacity' >= 0
    BY <1>4, <2>1 DEF Over
  <2>3. Agree(EmptyResult, EmptyResult, {})
    BY DEF Agree
  <2> QED
    BY <1>3, <1>6, <2>1, <2>2, <2>3 DEF Follows
<1>10. Converting'
  <2>1. 0 \in P
    BY <1>1 DEF Logged
  <2> QED
    BY <1>1, <1>3, <1>8, <1>9, <2>1, SameLog DEF Converting
<1> QED
  BY <1>3, <1>5, <1>7, <1>10 DEF Counting, Counted, CountPredicts

-----------------------------------------------------------------------------
(* The steps of the second pass, which follows the log.                    *)

\* Nothing in the log needs more room than what the counting pass returned.
LEMMA CountedMost ==
  ASSUME Options, NEW R, NEW P, NEW n, NEW c, Logged(R, P, n), Concluded(R, n, c)
  PROVE  /\ c.need_output_block_count = R[n].need_output_block_count
         /\ "out_overflow" \notin c.error
         /\ \A p \in P : R[p].need_output_block_count <= c.need_output_block_count
<1>1. n \in 0 .. Len(input) /\ R[n] \in Result /\ Clean(R[n])
  BY DEF Logged, Options
<1>2. c.need_output_block_count = R[n].need_output_block_count /\ "out_overflow" \notin c.error
  BY <1>1, ReadFields DEF Concluded, Clean
<1> QED
  BY <1>2 DEF Logged

\* What the log says of a turn that goes on.
LEMMA TurnFollows ==
  ASSUME Types, NEW R, NEW P, NEW n, Logged(R, P, n), Concluded(R, n, counted),
         in_str \in P, Follows(R[in_str]), in_str < Len(input), ~Ends(in_str)
  PROVE  /\ After(in_str) \in P /\ R[in_str] \in Result /\ R[After(in_str)] \in Result
         /\ Gain(in_str) \in Nat
         /\ R[After(in_str)].need_output_block_count
              = R[in_str].need_output_block_count + Gain(in_str)
         /\ R[After(in_str)].need_output_block_count <= counted.need_output_block_count
         /\ ReadFrom(result, in_str) \in Result
         /\ ReadFrom(result, in_str).need_output_block_count = result.need_output_block_count
         /\ ReadFrom(result, in_str).output_block_count = result.output_block_count
         /\ Agree(ReadFrom(result, in_str), R[After(in_str)], Over(capacity, R[in_str]))
<1> DEFINE q == R[in_str]
           m == R[After(in_str)]
<1>1. Options /\ result \in Result
  BY DEF Types
<1>2. /\ in_str \in 0 .. Len(input) /\ q \in Result
      /\ After(in_str) \in P /\ m = CountFrom(q, in_str)
  BY <1>1, LogGoesOn
<1>3. /\ m \in Result /\ m.need_output_block_count = q.need_output_block_count + Gain(in_str)
      /\ \A r, over : Agree(r, ReadFrom(q, in_str), over) => Agree(r, m, over)
  BY <1>1, <1>2, CountFields
<1>4. Agree(ReadFrom(result, in_str), ReadFrom(q, in_str), Over(capacity, q))
  BY <1>1, <1>2, AgreeRead DEF Follows
<1>5. m.need_output_block_count <= counted.need_output_block_count
  BY <1>1, <1>2, CountedMost
<1> HIDE DEF q, m
<1>6. Agree(ReadFrom(result, in_str), m, Over(capacity, q))
  BY <1>3, <1>4
<1>7. /\ ReadFrom(result, in_str) \in Result
      /\ ReadFrom(result, in_str).need_output_block_count = result.need_output_block_count
      /\ ReadFrom(result, in_str).output_block_count = result.output_block_count
  BY <1>1, <1>2, ReadFields
<1>8. Gain(in_str) \in Nat
  BY <1>1, <1>2, GainType
<1> QED
  BY <1>2, <1>3, <1>5, <1>6, <1>7, <1>8 DEF q, m

LEMMA ConversionEnds ==
  ASSUME UInv, pc = "converting", FastPathFits, Finish \/ Stop
  PROVE  UInv'
<1> USE DEF UInv
<1>1. PICK R, P, n : Logged(R, P, n) /\ Concluded(R, n, counted) /\ in_str \in P /\ Follows(R[in_str])
  BY DEF Converting
<1>2. Types /\ WritesStayInside /\ Options
  BY DEF Types
<1>3. Kept /\ UNCHANGED <<out_mode, capacity, output, counted>> /\ pc' = "done"
  BY DEF Finish, Stop, Turn, Return, Kept, options
<1>4. in_str \in 0 .. n /\ n \in 0 .. Len(input) /\ R[in_str] \in Result /\ in_str \in 0 .. Len(input)
  BY <1>1, <1>2 DEF Logged, Options
<1>5. in_str = n
  <2>1. CASE Finish
    BY <1>4, <2>1 DEF Finish
  <2>2. CASE Stop
    <3>1. Ends(in_str)
      BY <2>2, AtPosition DEF Stop, Ends
    <3>2. ~(in_str < n)
      BY <1>1, <3>1 DEF Logged
    <3> QED
      BY <1>4, <3>2
  <2> QED
    BY <2>1, <2>2
<1>6. Over(capacity, counted) = Over(capacity, R[n])
  BY <1>1, <1>2, CountedMost DEF Over
<1>7. /\ result' \in Result /\ Agree(result', counted, Over(capacity, counted))
      /\ result'.output_block_count = result.output_block_count
      /\ result'.need_output_block_count = result.need_output_block_count
  <2>1. CASE Finish
    <3>1. in_str = Len(input) /\ result' = result
      BY <2>1 DEF Finish
    <3>2. counted = R[n]
      BY <1>1, <1>4, <1>5, <3>1 DEF Concluded
    <3> QED
      BY <1>1, <1>2, <1>5, <1>6, <3>1, <3>2 DEF Follows, Types
  <2>2. CASE Stop
    <3>1. in_str < Len(input) /\ result' = ReadFrom(result, in_str)
      BY <2>2, AtPosition DEF Stop, Turn
    <3>2. counted = ReadFrom(R[n], n)
      BY <1>1, <1>4, <1>5, <3>1 DEF Concluded
    <3>3. Agree(result', counted, Over(capacity, R[n]))
      BY <1>1, <1>2, <1>4, <1>5, <3>1, <3>2, AgreeRead DEF Follows, Types
    <3> QED
      BY <1>2, <1>4, <1>6, <3>1, <3>3, ReadFields DEF Types
  <2> QED
    BY <2>1, <2>2
<1>8. Types'
  BY <1>2, <1>3, <1>7, OptionsKept DEF Types
<1>9. WritesStayInside'
  BY <1>2, <1>3, <1>7, SameOvershoot DEF WritesStayInside
<1>10. Predicted(result', counted, capacity, out_mode = "full" /\ perf_mode = "normal", Len(output))
  <2>1. /\ counted \in Result /\ capacity \in Nat /\ "out_overflow" \notin counted.error
        /\ counted.need_output_block_count = R[n].need_output_block_count
    BY <1>1, <1>2, CountedMost DEF Types
  <2>2. /\ capacity >= counted.need_output_block_count => Len(output) = counted.need_output_block_count
        /\ out_mode = "full" /\ perf_mode = "normal" =>
             result'.need_output_block_count = counted.need_output_block_count
    BY <1>1, <1>5, <1>7, <2>1 DEF Follows
  <2>3. result'.output_block_count = Len(output)
    BY <1>2, <1>7 DEF WritesStayInside
  <2> QED
    BY <1>7, <2>1, <2>2, <2>3, EndAgrees
<1>11. CountPredicts'
  BY <1>3, <1>10 DEF CountPredicts, Predicted, Kept, options
<1> QED
  BY <1>3, <1>8, <1>9, <1>11 DEF Counting, Counted, Converting

\* The second pass has gone on to a position where the first had counted m.
LEMMA Advanced ==
  ASSUME UInv, pc = "converting", FastPathFits, Kept, UNCHANGED <<out_mode, capacity, counted, pc>>,
         NEW R, NEW P, NEW n, Logged(R, P, n), Concluded(R, n, counted),
         NEW m, in_str' \in P, R[in_str'] = m, Follows(m)',
         result' \in Result, output' \in Seq(Nat),
         result'.output_block_count = Len(output'), Len(output') <= capacity
  PROVE  UInv'
<1> USE DEF UInv
<1>1. Types'
  BY OptionsKept DEF Types
<1>2. WritesStayInside'
  <2>1. Overshoot' = 0
    BY SameOvershoot DEF Overshoot
  <2>2. capacity' = capacity /\ capacity \in Nat
    BY DEF Types
  <2> QED
    BY <2>1, <2>2 DEF WritesStayInside
<1>3. Buffer'
  BY DEF Converting, Buffer, Kept, options
<1>4. Follows(R[in_str])'
  OBVIOUS
<1>5. Converting'
  BY <1>3, <1>4, SameLog DEF Converting
<1> QED
  BY <1>1, <1>2, <1>5 DEF Counting, Counted, CountPredicts

LEMMA ConversionSkips ==
  ASSUME UInv, pc = "converting", FastPathFits, Skip
  PROVE  UInv'
<1> USE DEF UInv
<1>1. PICK R, P, n : Logged(R, P, n) /\ Concluded(R, n, counted) /\ in_str \in P /\ Follows(R[in_str])
  BY DEF Converting
<1>2. Types /\ WritesStayInside
  OBVIOUS
<1>3. /\ Kept /\ UNCHANGED <<out_mode, capacity, output, counted, pc>>
      /\ in_str < Len(input) /\ in_str' = After(in_str) /\ result' = ReadFrom(result, in_str)
  BY AtPosition DEF Skip, Turn, Continue, Kept, options
<1>4. ~Ends(in_str) /\ Gain(in_str) = 0
  BY AtPosition DEF Skip, Ends, Skips, Gain, Malformed
<1>0. PICK q, m : q = R[in_str] /\ m = R[After(in_str)]
  OBVIOUS
<1>5. /\ After(in_str) \in P /\ q \in Result /\ m \in Result
      /\ m.need_output_block_count = q.need_output_block_count + 0
      /\ result' \in Result /\ result'.need_output_block_count = result.need_output_block_count
      /\ result'.output_block_count = result.output_block_count
      /\ Agree(result', m, Over(capacity, q))
  BY <1>0, <1>1, <1>2, <1>3, <1>4, TurnFollows
<1>6. m.need_output_block_count = q.need_output_block_count /\ Over(capacity, m) = Over(capacity, q)
  BY <1>5 DEF Result, Over
<1>7. Follows(m)'
  <2>1. Follows(q)
    BY <1>0, <1>1
  <2> QED
    BY <1>3, <1>5, <1>6, <2>1 DEF Follows, Kept, options
<1>8. result'.output_block_count = Len(output') /\ Len(output') <= capacity /\ output' \in Seq(Nat)
  BY <1>2, <1>3, <1>5 DEF WritesStayInside, Overshoot, Types
<1>9. in_str' \in P /\ R[in_str'] = m
  BY <1>0, <1>3, <1>5
<1> QED
  BY <1>1, <1>3, <1>5, <1>7, <1>8, <1>9, Advanced

LEMMA ConversionWrites ==
  ASSUME UInv, pc = "converting", FastPathFits, Write
  PROVE  UInv'
<1> USE DEF UInv
<1>1. PICK R, P, n : Logged(R, P, n) /\ Concluded(R, n, counted) /\ in_str \in P /\ Follows(R[in_str])
  BY DEF Converting
<1>2. Types /\ WritesStayInside /\ Buffer /\ Options
  BY DEF Converting, Types
<1> DEFINE w == Written(in_str)
           a == ReadFrom(result, in_str)
<1>0. PICK q, m : q = R[in_str] /\ m = R[After(in_str)]
  OBVIOUS
<1>3. /\ Kept /\ UNCHANGED <<out_mode, capacity, counted, pc>>
      /\ in_str < Len(input) /\ in_str' = After(in_str)
      /\ output' = output \o w
      /\ result' = [a EXCEPT
           !.output_block_count = @ + Len(w),
           !.need_output_block_count = @ + IF out_mode = "full" THEN Len(w) ELSE 0]
      /\ out_mode = "none_check_buffer" \/ Len(output) + Len(w) <= capacity
  BY AtPosition DEF Write, Accept, Turn, Continue, Kept, options, Fits
<1>4. ~Ends(in_str) /\ Gain(in_str) = Len(w)
  BY AtPosition DEF Write, Accept, Ends, Skips, Gain, Malformed
<1>5. /\ After(in_str) \in P /\ q \in Result /\ m \in Result /\ Len(w) \in Nat
      /\ m.need_output_block_count = q.need_output_block_count + Len(w)
      /\ m.need_output_block_count <= counted.need_output_block_count
      /\ a \in Result /\ a.need_output_block_count = result.need_output_block_count
      /\ a.output_block_count = result.output_block_count
      /\ Agree(a, m, Over(capacity, q))
  BY <1>0, <1>1, <1>2, <1>3, <1>4, TurnFollows
<1>6. /\ output' \in Seq(Nat) /\ Len(output') = Len(output) + Len(w)
      /\ Len(output) \in Nat /\ capacity \in Nat
  <2>1. in_str \in 0 .. Len(input)
    BY <1>1, <1>2, <1>3, <1>4, LogGoesOn
  <2>2. w \in Seq(Nat)
    BY <1>2, <1>3, <2>1, WrittenType
  <2> HIDE DEF w
  <2> QED
    BY <1>2, <1>3, <2>2 DEF Types
<1>7. Follows(q)
  BY <1>0, <1>1
<1> HIDE DEF w, a
<1>8. q.need_output_block_count \in Nat /\ m.need_output_block_count \in Nat
      /\ counted.need_output_block_count \in Nat /\ result.need_output_block_count \in Nat
      /\ result.output_block_count \in Nat
  BY <1>2, <1>5 DEF Result, Types
<1>9. capacity >= q.need_output_block_count => capacity >= m.need_output_block_count
  BY <1>2, <1>3, <1>5, <1>6, <1>7, <1>8 DEF Follows, Buffer
<1>10. Over(capacity, m) = Over(capacity, q)
  BY <1>5, <1>6, <1>8, <1>9, SMTT(30) DEF Over
<1>11. /\ result' \in Result
       /\ result'.output_block_count = result.output_block_count + Len(w)
       /\ result'.need_output_block_count
            = result.need_output_block_count + IF out_mode = "full" THEN Len(w) ELSE 0
       /\ Agree(result', m, Over(capacity, q))
  <2> DEFINE o == result.output_block_count + Len(w)
             k == result.need_output_block_count + IF out_mode = "full" THEN Len(w) ELSE 0
  <2>1. o \in Nat /\ k \in Nat
    BY <1>5, <1>8
  <2>2. result' = [a EXCEPT !.output_block_count = o, !.need_output_block_count = k]
    BY <1>3, <1>5 DEF Result
  <2> HIDE DEF o, k
  <2>3. result' \in Result
    BY <1>5, <2>1, <2>2 DEF Result
  <2>4. result'.output_block_count = o /\ result'.need_output_block_count = k
    BY <1>5, <2>2 DEF Result
  <2>5. Agree(result', m, Over(capacity, q))
    BY <1>5, <2>2 DEF Agree, Result
  <2> QED
    BY <2>3, <2>4, <2>5 DEF o, k
<1>12. Len(output') <= capacity /\ result'.output_block_count = Len(output')
  BY <1>2, <1>3, <1>5, <1>6, <1>7, <1>8, <1>9, <1>11 DEF Follows, Buffer, WritesStayInside,
     Overshoot
<1>13. Follows(m)'
  <2>1. Agree(result', m, Over(capacity, m))
    BY <1>10, <1>11
  <2>2. capacity >= m.need_output_block_count => Len(output') = m.need_output_block_count
    <3>1. capacity >= q.need_output_block_count => Len(output) = q.need_output_block_count
      BY <1>7 DEF Follows
    <3>2. capacity >= m.need_output_block_count => capacity >= q.need_output_block_count
      BY <1>5, <1>6, <1>8, SMTT(30)
    <3> QED
      BY <1>5, <1>6, <3>1, <3>2
  <2>3. out_mode = "full" /\ perf_mode = "normal" =>
          result'.need_output_block_count = m.need_output_block_count
    BY <1>5, <1>7, <1>8, <1>11 DEF Follows
  <2>4. out_mode # "full" => capacity >= m.need_output_block_count
    BY <1>7, <1>9 DEF Follows
  <2> QED
    BY <1>3, <2>1, <2>2, <2>3, <2>4 DEF Follows, Kept, options
<1>14. in_str' \in P /\ R[in_str'] = m
  BY <1>0, <1>3, <1>5
<1> QED
  BY <1>1, <1>3, <1>6, <1>11, <1>12, <1>13, <1>14, Advanced

\* In mode normal a character that does not fit ends the pass, and was counted.
LEMMA ConversionOverflows ==
  ASSUME UInv, pc = "converting", FastPathFits, Overflow
  PROVE  UInv'
<1> USE DEF UInv
<1>1. PICK R, P, n : Logged(R, P, n) /\ Concluded(R, n, counted) /\ in_str \in P /\ Follows(R[in_str])
  BY DEF Converting
<1>2. Types /\ WritesStayInside /\ Options
  BY DEF Types
<1>0. PICK q, m : q = R[in_str] /\ m = R[After(in_str)]
  OBVIOUS
<1> DEFINE w == Written(in_str)
           a == ReadFrom(result, in_str)
<1>3. /\ Kept /\ UNCHANGED <<out_mode, capacity, counted, output>> /\ pc' = "done"
      /\ in_str < Len(input)
      /\ result' = [a EXCEPT !.error = @ \cup {"out_overflow"}, !.status = "error"]
      /\ out_mode = "normal" /\ ~(Len(output) + Len(w) <= capacity)
  BY AtPosition DEF Overflow, Accept, Turn, Return, Kept, options, Fits
<1>4. ~Ends(in_str) /\ Gain(in_str) = Len(w)
  BY AtPosition DEF Overflow, Accept, Ends, Skips, Gain, Malformed
<1>5. /\ q \in Result /\ m \in Result /\ Len(w) \in Nat
      /\ m.need_output_block_count = q.need_output_block_count + Len(w)
      /\ m.need_output_block_count <= counted.need_output_block_count
      /\ a \in Result /\ a.output_block_count = result.output_block_count
  BY <1>0, <1>1, <1>2, <1>3, <1>4, TurnFollows
<1>6. Follows(q)
  BY <1>0, <1>1
<1> HIDE DEF w, a
<1>7. /\ q.need_output_block_count \in Nat /\ m.need_output_block_count \in Nat
      /\ counted.need_output_block_count \in Nat /\ capacity \in Nat
  BY <1>2, <1>5 DEF Result, Types
<1>8. capacity < counted.need_output_block_count
  <2>1. Len(output) = q.need_output_block_count
    BY <1>3, <1>6 DEF Follows
  <2> QED
    BY <1>3, <1>5, <1>7, <2>1
<1>9. /\ result' \in Result /\ "out_overflow" \in result'.error
      /\ result'.output_block_count = result.output_block_count
  <2> DEFINE x == a.error \cup {"out_overflow"}
  <2>1. x \in SUBSET Errors /\ "out_overflow" \in x /\ "error" \in Statuses
    BY <1>5 DEF Result, Errors, Statuses
  <2>2. result' = [a EXCEPT !.error = x, !.status = "error"]
    BY <1>3
  <2> HIDE DEF x
  <2>3. result' \in Result
    BY <1>5, <2>1, <2>2, SetOverflow
  <2>4. result'.error = x /\ result'.output_block_count = a.output_block_count
    BY <1>5, <2>2 DEF Result
  <2> QED
    BY <1>5, <2>1, <2>3, <2>4
<1>10. Types'
  BY <1>2, <1>3, <1>9, OptionsKept DEF Types
<1>11. WritesStayInside'
  BY <1>2, <1>3, <1>9, SameOvershoot DEF WritesStayInside
<1>12. CountPredicts'
  BY <1>3, <1>8, <1>9 DEF CountPredicts
<1> QED
  BY <1>3, <1>10, <1>11, <1>12 DEF Counting, Counted, Converting

\* In mode full what does not fit is counted on.
LEMMA ConversionCountsOn ==
  ASSUME UInv, pc = "converting", FastPathFits, CountOverflow
  PROVE  UInv'
<1> USE DEF UInv
<1>1. PICK R, P, n : Logged(R, P, n) /\ Concluded(R, n, counted) /\ in_str \in P /\ Follows(R[in_str])
  BY DEF Converting
<1>2. Types /\ WritesStayInside /\ Options
  BY DEF Types
<1>0. PICK q, m : q = R[in_str] /\ m = R[After(in_str)]
  OBVIOUS
<1> DEFINE w == Written(in_str)
           a == ReadFrom(result, in_str)
<1>3. /\ Kept /\ UNCHANGED <<out_mode, capacity, counted, output, pc>>
      /\ in_str < Len(input) /\ in_str' = After(in_str)
      /\ result' = [a EXCEPT
           !.need_output_block_count = @ + Len(w),
           !.error = @ \cup {"out_overflow"}, !.status = "partial"]
      /\ out_mode = "full" /\ ~(Len(output) + Len(w) <= capacity)
  BY AtPosition DEF CountOverflow, Accept, Turn, Continue, Kept, options, Fits
<1>4. ~Ends(in_str) /\ Gain(in_str) = Len(w)
  BY AtPosition DEF CountOverflow, Accept, Ends, Skips, Gain, Malformed
<1>5. /\ After(in_str) \in P /\ q \in Result /\ m \in Result /\ Len(w) \in Nat
      /\ m.need_output_block_count = q.need_output_block_count + Len(w)
      /\ a \in Result /\ a.need_output_block_count = result.need_output_block_count
      /\ a.output_block_count = result.output_block_count
      /\ Agree(a, m, Over(capacity, q))
  BY <1>0, <1>1, <1>2, <1>3, <1>4, TurnFollows
<1>6. Follows(q)
  BY <1>0, <1>1
<1> HIDE DEF w, a
<1>7. /\ q.need_output_block_count \in Nat /\ m.need_output_block_count \in Nat
      /\ result.need_output_block_count \in Nat /\ capacity \in Nat
  BY <1>2, <1>5 DEF Result, Types
<1>8. capacity < m.need_output_block_count
  <2>1. capacity >= q.need_output_block_count => Len(output) = q.need_output_block_count
    BY <1>6 DEF Follows
  <2> QED
    BY <1>3, <1>5, <1>7, <2>1
<1>9. /\ result' \in Result /\ Agree(result', m, {"out_overflow"})
      /\ result'.output_block_count = result.output_block_count
      /\ result'.need_output_block_count = result.need_output_block_count + Len(w)
  <2> DEFINE x == a.error \cup {"out_overflow"}
             k == result.need_output_block_count + Len(w)
  <2>1. x \in SUBSET Errors /\ "partial" \in Statuses /\ k \in Nat
    BY <1>5, <1>7, SMTT(30) DEF Result, Errors, Statuses
  <2>2. result' = [a EXCEPT !.need_output_block_count = k, !.error = x, !.status = "partial"]
    BY <1>3, <1>5 DEF Result
  <2>3. x = m.error \cup {"out_overflow"}
    BY <1>5 DEF Agree, Over
  <2> HIDE DEF x, k
  <2>4. result' \in Result
    BY <1>5, <2>1, <2>2, SetOverflowCount
  <2>5. result'.need_output_block_count = k /\ result'.output_block_count = a.output_block_count
    BY <1>5, <2>2 DEF Result
  <2>6. Agree(result', m, {"out_overflow"})
    BY <1>5, <2>2, <2>3 DEF Agree, Result
  <2> QED
    BY <1>5, <2>4, <2>5, <2>6 DEF k
<1>10. Follows(m)'
  <2>1. Over(capacity, m) = {"out_overflow"}
    BY <1>8 DEF Over
  <2>2. ~(capacity >= m.need_output_block_count)
    BY <1>7, <1>8
  <2>3. perf_mode = "normal" => result'.need_output_block_count = m.need_output_block_count
    BY <1>3, <1>5, <1>6, <1>7, <1>9 DEF Follows
  <2> QED
    BY <1>3, <1>9, <2>1, <2>2, <2>3 DEF Follows, Kept, options
<1>11. result'.output_block_count = Len(output') /\ Len(output') <= capacity /\ output' \in Seq(Nat)
  BY <1>2, <1>3, <1>9 DEF WritesStayInside, Overshoot, Types
<1>12. in_str' \in P /\ R[in_str'] = m
  BY <1>0, <1>3, <1>5
<1> QED
  BY <1>1, <1>3, <1>9, <1>10, <1>11, <1>12, Advanced

LEMMA Joined ==
  ASSUME NEW a \in Seq(Nat), NEW b \in Seq(Nat)
  PROVE  Len(a \o b) = Len(a) + Len(b) /\ a \o b \in Seq(Nat) /\ Len(a) \in Nat
OBVIOUS

LEMMA Stretch ==
  ASSUME NEW s \in Seq(Nat), NEW a \in Nat, NEW k \in Nat, a + k <= Len(s)
  PROVE  /\ SubSeq(s, a + 1, a + k) \in Seq(Nat) /\ Len(SubSeq(s, a + 1, a + k)) = k
         /\ \A j \in 1 .. k : SubSeq(s, a + 1, a + k)[j] = s[a + j]
<1>1. \A j \in (a + 1) .. (a + k) : s[j] \in Nat
  OBVIOUS
<1>2. Len(SubSeq(s, a + 1, a + k)) = k
  OBVIOUS
<1>3. SubSeq(s, a + 1, a + k) \in Seq(Nat)
  BY <1>1
<1> QED
  BY <1>2, <1>3

\* The block that the fast path copies.
LEMMA BlockIs ==
  ASSUME Types, in_str \in 0 .. Len(input), BlockAhead
  PROVE  /\ Block \in Seq(Nat) /\ Len(Block) = BlockLength(from)
         /\ Plain(in_str, BlockLength(from))
<1> DEFINE k == BlockLength(from)
<1>1. k \in {1, 2, 4, 8} /\ input \in Seq(Nat) /\ Len(input) \in Nat
  BY BlockLengths DEF Types, Options
<1>2. in_str + k <= Len(input) /\ Block = SubSeq(input, in_str + 1, in_str + k)
  BY DEF BlockAhead, Block
<1> HIDE DEF k
<1>3. /\ Block \in Seq(Nat) /\ Len(Block) = k /\ DOMAIN Block = 1 .. k
      /\ \A j \in 1 .. k : Block[j] = input[in_str + j]
  <2>1. in_str \in Nat /\ k \in Nat
    BY <1>1
  <2>2. PICK b : b = SubSeq(input, in_str + 1, in_str + k)
    OBVIOUS
  <2>3. b \in Seq(Nat) /\ Len(b) = k /\ \A j \in 1 .. k : b[j] = input[in_str + j]
    BY <1>1, <1>2, <2>1, <2>2, Stretch
  <2>4. DOMAIN b = 1 .. k
    BY <2>3
  <2>5. Block = b
    BY <1>2, <2>2
  <2> QED
    BY <2>3, <2>4, <2>5
<1>4. \A j \in 1 .. k : input[in_str + j] < 128
  BY <1>3 DEF BlockAhead
<1> QED
  BY <1>2, <1>3, <1>4 DEF Plain, k

LEMMA ConversionCopies ==
  ASSUME UInv, pc = "converting", FastPathFits, CopyBlock
  PROVE  UInv'
<1> USE DEF UInv
<1>1. PICK R, P, n : Logged(R, P, n) /\ Concluded(R, n, counted) /\ in_str \in P /\ Follows(R[in_str])
  BY DEF Converting
<1>2. Types /\ WritesStayInside /\ Buffer /\ Options
  BY DEF Converting, Types
<1>3. PICK k : k = BlockLength(from)
  OBVIOUS
<1>4. PICK q, m : q = R[in_str] /\ m = R[in_str + k]
  OBVIOUS
<1>5. k \in Nat /\ in_str \in 0 .. Len(input) /\ q \in Result /\ n \in 0 .. Len(input)
  BY <1>1, <1>2, <1>3, <1>4, BlockLengths, SMTT(30) DEF Logged, Options
<1>6. BlockAhead /\ Block \in Seq(Nat) /\ Len(Block) = k /\ Plain(in_str, k)
  BY <1>2, <1>3, <1>5, BlockIs DEF CopyBlock
<1>7. in_str + k \in P /\ Moved(q, m, k)
  BY <1>1, <1>2, <1>3, <1>4, <1>6, RunOfBlock DEF Runs
<1>8. /\ Kept /\ UNCHANGED <<out_mode, capacity, counted, pc>>
      /\ in_str' = in_str + k /\ output' = output \o Block
      /\ result' = [result EXCEPT !.input_block_count = @ + k, !.output_block_count = @ + k,
                                  !.conv_normal_char_count = @ + k]
  BY <1>6 DEF CopyBlock, Kept, options
<1>9. /\ Len(output) + BlockLength(to) <= capacity /\ perf_mode = "simd"
      /\ capacity >= counted.need_output_block_count \/ k <= BlockLength(to)
      /\ BlockLength(to) \in Nat
  <2>1. from \in Formats /\ to \in Formats
    BY <1>2 DEF Options
  <2>2. to <= from => k <= BlockLength(to)
    BY <1>3, <2>1, BlockAssumption DEF BlockLength, Formats
  <2>3. BlockLength(to) \in Nat
    BY <2>1, BlockLengths
  <2> QED
    BY <1>6, <2>2, <2>3 DEF BlockAhead, FastPathFits
<1>10. m \in Result /\ m.need_output_block_count <= counted.need_output_block_count
  <2>1. m \in Result
    BY <1>1, <1>4, <1>5 DEF Logged
  <2>2. m.need_output_block_count <= counted.need_output_block_count
    BY <1>1, <1>2, <1>4, <1>7, CountedMost
  <2> QED
    BY <2>1, <2>2
<1>11. Follows(q)
  BY <1>1, <1>4
<1>12. /\ output' \in Seq(Nat) /\ Len(output') = Len(output) + k
       /\ Len(output) \in Nat /\ capacity \in Nat
  <2>1. PICK b : b = Block
    OBVIOUS
  <2>2. output \in Seq(Nat) /\ capacity \in Nat
    BY <1>2 DEF Types
  <2>3. b \in Seq(Nat) /\ Len(b) = k /\ output' = output \o b
    BY <1>6, <1>8, <2>1
  <2>4. Len(output \o b) = Len(output) + Len(b) /\ output \o b \in Seq(Nat) /\ Len(output) \in Nat
    BY <2>2, <2>3, Joined
  <2> QED
    BY <2>2, <2>3, <2>4
<1>13. /\ q.need_output_block_count \in Nat /\ m.need_output_block_count \in Nat
       /\ counted.need_output_block_count \in Nat
       /\ result \in Result /\ result.output_block_count \in Nat
       /\ m.need_output_block_count = q.need_output_block_count + k
  BY <1>2, <1>5, <1>7, <1>10 DEF Result, Types, Moved
<1>14. /\ capacity >= q.need_output_block_count => capacity >= m.need_output_block_count
       /\ capacity >= m.need_output_block_count => capacity >= q.need_output_block_count
       /\ Over(capacity, m) = Over(capacity, q)
  <2>1. ASSUME capacity >= q.need_output_block_count
        PROVE  capacity >= m.need_output_block_count
    <3>1. Len(output) = q.need_output_block_count
      BY <1>11, <2>1 DEF Follows
    <3>2. CASE capacity >= counted.need_output_block_count
      BY <1>10, <1>12, <1>13, <3>2
    <3>3. CASE k <= BlockLength(to)
      BY <1>5, <1>9, <1>12, <1>13, <3>1, <3>3
    <3> QED
      BY <1>9, <3>2, <3>3
  <2>2. capacity >= m.need_output_block_count => capacity >= q.need_output_block_count
    BY <1>5, <1>12, <1>13
  <2>3. (capacity < m.need_output_block_count) <=> (capacity < q.need_output_block_count)
    BY <1>12, <1>13, <2>1, <2>2
  <2> QED
    BY <2>1, <2>2, <2>3 DEF Over
<1>15. /\ capacity >= q.need_output_block_count => Len(output) = q.need_output_block_count
       /\ Agree(result, q, Over(capacity, m))
  BY <1>11, <1>14 DEF Follows
<1>16. /\ result' \in Result /\ Agree(result', m, Over(capacity, m))
       /\ result'.output_block_count = result.output_block_count + k
  <2> DEFINE i == result.input_block_count + k
             o == result.output_block_count + k
             c == result.conv_normal_char_count + k
  <2>1. i \in Nat /\ o \in Nat /\ c \in Nat
    <3>1. /\ result.input_block_count \in Nat /\ result.output_block_count \in Nat
          /\ result.conv_normal_char_count \in Nat
      BY <1>2 DEF Result, Types
    <3> QED
      BY <1>5, <3>1, SMTT(30)
  <2>2. result' = [result EXCEPT !.input_block_count = i, !.output_block_count = o,
                                 !.conv_normal_char_count = c]
    BY <1>8, <1>13 DEF Result
  <2>3. i = m.input_block_count /\ c = m.conv_normal_char_count
    BY <1>7, <1>15 DEF Agree, Moved
  <2> HIDE DEF i, o, c
  <2>4. result' \in Result
    BY <1>13, <2>1, <2>2, ResultIs
  <2>5. Agree(result', m, Over(capacity, m))
    BY <1>7, <1>13, <1>15, <2>2, <2>3 DEF Agree, Moved, Result
  <2>6. result'.output_block_count = o
    BY <1>13, <2>2 DEF Result
  <2> QED
    BY <2>4, <2>5, <2>6 DEF o
<1>17. Follows(m)'
  <2>1. capacity >= m.need_output_block_count => Len(output') = m.need_output_block_count
    BY <1>12, <1>13, <1>14, <1>15
  <2>2. out_mode # "full" => capacity >= m.need_output_block_count
    BY <1>11, <1>14 DEF Follows
  <2>3. perf_mode' = "simd"
    BY <1>8, <1>9 DEF Kept, options
  <2> QED
    BY <1>8, <1>16, <2>1, <2>2, <2>3 DEF Follows
<1>18. Len(output') <= capacity /\ result'.output_block_count = Len(output')
  <2>1. Len(output') <= capacity
    <3>1. CASE capacity >= counted.need_output_block_count
      <4>1. capacity >= m.need_output_block_count
        BY <1>10, <1>12, <1>13, <3>1
      <4> QED
        BY <1>12, <1>13, <1>14, <1>15, <4>1
    <3>2. CASE k <= BlockLength(to)
      BY <1>5, <1>9, <1>12, <3>2
    <3> QED
      BY <1>9, <3>1, <3>2
  <2> QED
    BY <1>2, <1>12, <1>13, <1>16, <2>1 DEF WritesStayInside
<1>19. in_str' \in P /\ R[in_str'] = m
  BY <1>4, <1>7, <1>8
<1> QED
  BY <1>1, <1>8, <1>12, <1>16, <1>17, <1>18, <1>19, Advanced

-----------------------------------------------------------------------------
(* The texts: every unit of the output fits the width of the output's format.  *)

Texts ==
  /\ IsText(output, to) /\ in_str \in 0 .. Len(input)
  /\ out_mode \in OutModes

LEMMA TextsJoin ==
  ASSUME NEW f, NEW a, NEW b, IsText(a, f), IsText(b, f)
  PROVE  IsText(a \o b, f)
<1>1. a \in Seq(Nat) /\ b \in Seq(Nat) /\ a \o b \in Seq(Nat) /\ Len(a \o b) = Len(a) + Len(b)
  BY DEF IsText
<1>2. ASSUME NEW k \in 1 .. Len(a \o b)
      PROVE  (a \o b)[k] < Limit(f)
  <2>1. CASE k <= Len(a)
    BY <1>1, <2>1 DEF IsText
  <2>2. CASE ~(k <= Len(a))
    <3>1. k - Len(a) \in 1 .. Len(b) /\ (a \o b)[k] = b[k - Len(a)]
      BY <1>1, <2>2
    <3> QED
      BY <3>1 DEF IsText
  <2> QED
    BY <2>1, <2>2
<1> QED
  BY <1>1, <1>2 DEF IsText

\* ASCII units fit every format.
LEMMA BlockFits ==
  ASSUME Types, in_str \in 0 .. Len(input), BlockAhead
  PROVE  IsText(Block, to)
<1>1. Block \in Seq(Nat) /\ DOMAIN Block = 1 .. Len(Block)
  BY BlockIs
<1>2. \A k \in 1 .. Len(Block) : Block[k] \in Nat /\ Block[k] < 128
  BY <1>1 DEF BlockAhead
<1>3. Limit(to) \in Nat /\ 128 < Limit(to)
  BY SMT DEF Limit
<1> QED
  BY <1>1, <1>2, <1>3, SMT DEF IsText

LEMMA TextsInit == Init => Texts
<1> SUFFICES ASSUME Init PROVE Texts
  OBVIOUS
<1>1. input \in Seq(Nat)
  BY InputsAssumption DEF Init, IsText
<1> QED
  BY <1>1 DEF Init, Texts, IsText, OutModes

LEMMA TextsNext == UInv /\ Texts /\ [Next]_vars => Texts'
<1> SUFFICES ASSUME UInv, Texts, [Next]_vars PROVE Texts'
  OBVIOUS
<1>1. Types /\ Options /\ in_str \in 0 .. Len(input) /\ IsText(output, to)
  BY DEF UInv, Types, Texts
<1>2. CASE UNCHANGED vars
  BY <1>1, <1>2 DEF vars, options, Texts, IsText
<1>0. out_mode' \in OutModes
  <2>1. out_mode \in OutModes
    BY DEF Texts
  <2> QED
    BY <2>1 DEF Next, CopyBlock, Finish, StartConversion, Stop, Skip, Write, Count, Overflow,
       CountOverflow, Accept, Turn, vars
<1>3. CASE CopyBlock
  <2>1. BlockAhead /\ in_str < Len(input) /\ UNCHANGED <<input, to>>
        /\ in_str' = in_str + Len(Block) /\ output' = output \o Block
    BY <1>3 DEF CopyBlock, options
  <2>2. Len(Block) = BlockLength(from) /\ Plain(in_str, BlockLength(from))
    BY <1>1, <2>1, BlockIs
  <2>3. BlockLength(from) \in {1, 2, 4, 8} /\ Len(input) \in Nat
    BY <1>1, BlockLengths DEF Options
  <2>4. in_str' \in 0 .. Len(input)
    BY <1>1, <2>1, <2>2, <2>3 DEF Plain
  <2>5. IsText(output', to)
    BY <1>1, <2>1, BlockFits, TextsJoin
  <2> QED
    BY <1>0, <2>1, <2>4, <2>5 DEF Texts, IsText
<1>4. CASE Finish \/ StartConversion \/ Stop
  <2>1. UNCHANGED <<input, output, to>> /\ in_str' \in {0, in_str}
    BY <1>4 DEF Finish, StartConversion, Stop, Turn, options
  <2>2. Len(input) \in Nat
    BY <1>1 DEF Options
  <2>3. in_str' \in 0 .. Len(input)
    BY <1>1, <2>1, <2>2
  <2> QED
    BY <1>0, <1>1, <2>1, <2>3 DEF Texts, IsText
<1>5. CASE Skip \/ Write \/ Count \/ Overflow \/ CountOverflow
  <2>1. /\ in_str < Len(input) /\ UNCHANGED <<input, to>> /\ in_str' = After(in_str)
        /\ output' \in {output, output \o Written(in_str)}
        /\ Ahead(in_str).error # "in_truncated"
    BY <1>5, AtPosition DEF Skip, Write, Count, Overflow, CountOverflow, Accept, Turn, options, Malformed
  <2>2. in_str' \in 0 .. Len(input)
    BY <1>1, <2>1, AheadIsSound
  <2>3. IsText(Written(in_str), to)
    BY <1>1, <2>1, WrittenFits
  <2>4. IsText(output', to)
    BY <1>1, <2>1, <2>3, TextsJoin
  <2> QED
    BY <1>0, <2>1, <2>2, <2>4 DEF Texts, IsText
<1> QED
  BY <1>2, <1>3, <1>4, <1>5 DEF Next

-----------------------------------------------------------------------------
(* The fast path that does not keep to the buffer.                         *)

\* A conversion whose fast path may write past the buffer: nothing of the log is claimed
\* of it, only how far it writes.
LEMMA ConversionAstray ==
  ASSUME UInv, Texts, pc = "converting", ~FastPathFits,
         CopyBlock \/ Finish \/ Stop \/ Skip \/ Write \/ Overflow \/ CountOverflow
  PROVE  UInv'
<1> USE DEF UInv
<1>1. /\ Types /\ Options /\ Buffer /\ WritesStayInside /\ in_str \in 0 .. Len(input)
      /\ output \in Seq(Nat) /\ result \in Result /\ capacity \in Nat
  BY DEF Types, Converting, Texts
<1>2. /\ Kept /\ UNCHANGED <<out_mode, capacity, counted>> /\ pc' \in {"converting", "done"}
  BY DEF CopyBlock, Finish, Stop, Skip, Write, Overflow, CountOverflow, Accept, Turn, Continue,
         Return, Kept, options
<1>3. /\ BlockLength(from) \in Nat /\ BlockLength(to) \in Nat
      /\ Overshoot \in Nat /\ Overshoot = BlockLength(from) - BlockLength(to)
  <2>1. from \in Formats /\ to \in Formats /\ ~(to <= from)
    BY <1>1 DEF Options, FastPathFits
  <2>2. Overshoot = BlockLength(from) - BlockLength(to)
    BY DEF Overshoot
  <2> QED
    BY <2>1, <2>2, BlockLengths, OvershootType
<1>4. /\ Len(output) <= capacity + Overshoot /\ result.output_block_count = Len(output)
      /\ Len(output) \in Nat
  BY <1>1 DEF WritesStayInside
<1>5. SUFFICES /\ result' \in Result /\ output' \in Seq(Nat)
               /\ Len(output') <= capacity + Overshoot
               /\ result'.output_block_count = Len(output')
  <2>1. Types'
    BY <1>1, <1>2, <1>5, OptionsKept DEF Types
  <2>2. WritesStayInside'
    BY <1>2, <1>5, SameOvershoot DEF WritesStayInside
  <2>3. Buffer' /\ ~FastPathFits'
    BY <1>1, <1>2, SameOvershoot DEF Buffer
  <2> QED
    BY <1>2, <2>1, <2>2, <2>3 DEF Counting, Counted, Converting, CountPredicts
<1>6. CASE Finish
  BY <1>1, <1>4, <1>6 DEF Finish
<1>7. CASE Stop \/ Skip
  <2>1. in_str < Len(input) /\ output' = output /\ result' = ReadFrom(result, in_str)
    BY <1>7, AtPosition DEF Stop, Skip, Turn
  <2> QED
    BY <1>1, <1>4, <2>1, ReadFields
<1>8. CASE CopyBlock
  <2>1. PICK b, k : b = Block /\ k = BlockLength(from)
    OBVIOUS
  <2>2. BlockAhead /\ b \in Seq(Nat) /\ Len(b) = k
    BY <1>1, <1>8, <2>1, BlockIs DEF CopyBlock
  <2>3. /\ output' = output \o b
        /\ result' = [result EXCEPT !.input_block_count = @ + k, !.output_block_count = @ + k,
                                    !.conv_normal_char_count = @ + k]
    BY <1>8, <2>1, <2>2 DEF CopyBlock
  <2>4. Len(output') = Len(output) + k /\ output' \in Seq(Nat)
    BY <1>1, <2>2, <2>3, Joined
  <2>5. Len(output') <= capacity + Overshoot
    <3>1. Len(output) + BlockLength(to) <= capacity
      BY <2>2 DEF BlockAhead
    <3>2. Len(output') = Len(output) + BlockLength(from)
      BY <2>1, <2>4
    <3>3. /\ Len(output) \in Nat /\ capacity \in Nat
          /\ BlockLength(from) \in Nat /\ BlockLength(to) \in Nat
          /\ Overshoot = BlockLength(from) - BlockLength(to)
      BY <1>1, <1>3, <1>4
    <3> HIDE DEF UInv
    <3> QED
      BY <3>1, <3>2, <3>3, SMTT(30)
  <2> DEFINE i == result.input_block_count + k
             o == result.output_block_count + k
             c == result.conv_normal_char_count + k
  <2>6. i \in Nat /\ o \in Nat /\ c \in Nat
    <3>1. /\ result.input_block_count \in Nat /\ result.output_block_count \in Nat
          /\ result.conv_normal_char_count \in Nat
      BY <1>1 DEF Result
    <3> QED
      BY <1>3, <2>1, <3>1, SMTT(30)
  <2>7. result' = [result EXCEPT !.input_block_count = i, !.output_block_count = o,
                                 !.conv_normal_char_count = c]
    BY <1>1, <2>3 DEF Result
  <2>8. o = Len(output')
    BY <1>4, <2>4
  <2> HIDE DEF i, o, c
  <2>9. result' \in Result
    BY <1>1, <2>6, <2>7, ResultIs
  <2>10. result'.output_block_count = o
    BY <1>1, <2>7 DEF Result
  <2> QED
    BY <2>4, <2>5, <2>8, <2>9, <2>10
<1> DEFINE a == ReadFrom(result, in_str)
           w == Written(in_str)
<1>9. ASSUME Write \/ Overflow \/ CountOverflow
      PROVE  /\ in_str < Len(input) /\ a \in Result
             /\ a.need_output_block_count = result.need_output_block_count
             /\ a.output_block_count = Len(output)
             /\ a.need_output_block_count \in Nat
             /\ w \in Seq(Nat) /\ Len(w) \in Nat
  <2>1. in_str < Len(input)
    BY <1>9 DEF Write, Overflow, CountOverflow, Accept, Turn
  <2>2. w \in Seq(Nat) /\ Len(w) \in Nat
    BY <1>1, <2>1, WrittenType
  <2>3. /\ a \in Result /\ a.need_output_block_count = result.need_output_block_count
        /\ a.output_block_count = Len(output)
    BY <1>1, <1>4, <2>1, ReadFields
  <2>4. a.need_output_block_count \in Nat
    BY <2>3 DEF Result
  <2> QED
    BY <2>1, <2>2, <2>3, <2>4
<1>10. CASE Write
  <2>1. /\ output' = output \o w
        /\ result' = [a EXCEPT
             !.output_block_count = @ + Len(w),
             !.need_output_block_count = @ + IF out_mode = "full" THEN Len(w) ELSE 0]
        /\ out_mode = "none_check_buffer" \/ Len(output) + Len(w) <= capacity
    BY <1>10, AtPosition DEF Write, Accept, Fits
  <2> HIDE DEF a, w
  <2>2. out_mode # "none_check_buffer"
    BY <1>1 DEF Buffer, FastPathFits
  <2>3. Len(output') = Len(output) + Len(w) /\ output' \in Seq(Nat)
    BY <1>1, <1>9, <1>10, <2>1, Joined
  <2>4. Len(output') <= capacity + Overshoot
    <3>1. Len(output) + Len(w) <= capacity
      BY <2>1, <2>2
    <3>2. Overshoot \in Nat /\ capacity \in Nat /\ Len(output) \in Nat /\ Len(w) \in Nat
      BY <1>1, <1>3, <1>4, <1>9
    <3> HIDE DEF UInv
    <3> QED
      BY <2>3, <3>1, <3>2, SMTT(30)
  <2> DEFINE o == a.output_block_count + Len(w)
             k == a.need_output_block_count + IF out_mode = "full" THEN Len(w) ELSE 0
  <2>5. o \in Nat /\ k \in Nat /\ o = Len(output')
    <3>1. /\ a.output_block_count = Len(output) /\ a.need_output_block_count \in Nat
          /\ Len(w) \in Nat
      BY <1>9, <1>10
    <3>2. Len(output) \in Nat
      BY <1>4
    <3> HIDE DEF UInv
    <3> QED
      BY <2>3, <3>1, <3>2, SMTT(30)
  <2>6. result' = [a EXCEPT !.output_block_count = o, !.need_output_block_count = k]
    BY <1>9, <1>10, <2>1 DEF Result
  <2> HIDE DEF o, k
  <2>7. result' \in Result
    BY <1>9, <1>10, <2>5, <2>6 DEF Result
  <2>8. result'.output_block_count = o
    BY <1>9, <1>10, <2>6 DEF Result
  <2> QED
    BY <2>3, <2>4, <2>5, <2>7, <2>8
<1>11. CASE Overflow \/ CountOverflow
  <2>1. output' = output
    BY <1>11 DEF Overflow, CountOverflow
  <2> DEFINE x == a.error \cup {"out_overflow"}
             k == a.need_output_block_count + Len(w)
  <2>2. /\ x \in SUBSET Errors /\ "error" \in Statuses /\ "partial" \in Statuses
    BY <1>9, <1>11, SMTT(30) DEF Result, Errors, Statuses
  <2>3. k \in Nat
    BY <1>9, <1>11
  <2>4. \/ result' = [a EXCEPT !.error = x, !.status = "error"]
        \/ result' = [a EXCEPT !.need_output_block_count = k, !.error = x, !.status = "partial"]
    <3>1. CASE Overflow
      BY <3>1, AtPosition DEF Overflow
    <3>2. CASE CountOverflow
      BY <1>9, <3>2, AtPosition DEF CountOverflow, Result
    <3> QED
      BY <1>11, <3>1, <3>2
  <2> HIDE DEF a, w, x, k
  <2>5. result' \in Result
    BY <1>9, <1>11, <2>2, <2>3, <2>4, SetOverflow, SetOverflowCount
  <2>6. result'.output_block_count = a.output_block_count
    BY <1>9, <1>11, <2>4 DEF Result
  <2> QED
    BY <1>1, <1>4, <1>9, <1>11, <2>1, <2>5, <2>6
<1> QED
  BY <1>6, <1>7, <1>8, <1>10, <1>11

-----------------------------------------------------------------------------
(* The theorems.                                                           *)

LEMMA UInvNext == UInv /\ Texts /\ [Next]_vars => UInv'
<1> SUFFICES ASSUME UInv, Texts, [Next]_vars PROVE UInv'
  OBVIOUS
<1>0. SUFFICES ASSUME pc # "converting" \/ FastPathFits \/ UNCHANGED vars
               PROVE  UInv'
  <2> SUFFICES ASSUME pc = "converting", ~FastPathFits, Next PROVE UInv'
    OBVIOUS
  <2>1. out_mode # "count" /\ ~StartConversion
    BY DEF UInv, Converting, Buffer, StartConversion
  <2> QED
    BY <2>1, ConversionAstray DEF Next, Count
<1>1. pc \in {"counting", "counted", "converting", "done"}
  BY DEF UInv
<1>2. CASE UNCHANGED vars
  <2>1. Kept /\ UNCHANGED <<out_mode, capacity, in_str, output, result, counted, pc>>
    BY <1>2 DEF vars, Kept
  <2>2. perf_mode' = perf_mode
    BY <2>1 DEF Kept, options
  <2> QED
    BY <2>1, <2>2, SameLog, SameOvershoot DEF UInv, Types, WritesStayInside, Counting, Counted,
       Converting, CountPredicts, NoBuffer, Buffer, Follows
<1>3. CASE CopyBlock
  <2>1. CASE pc = "counting"
    <3>1. Types /\ NoBuffer
      BY <2>1 DEF UInv, Counting
    <3> QED
      BY <1>3, <3>1, NoBlock DEF CopyBlock
  <2>2. CASE pc = "converting"
    BY <1>3, <2>2, <1>0, <1>2, ConversionCopies
  <2> QED
    BY <1>3, <2>1, <2>2 DEF CopyBlock
<1>4. CASE Finish \/ Stop
  BY <1>0, <1>2, <1>4, CountingStops, ConversionEnds DEF Finish, Stop, Turn
<1>5. CASE StartConversion
  BY <1>5, ConversionStarts
<1>6. CASE Skip
  BY <1>0, <1>2, <1>6, CountingGoesOn, ConversionSkips DEF Skip, Turn
<1>7. CASE Count
  <2>1. pc \in {"counting", "converting"} /\ out_mode = "count"
    BY <1>7 DEF Count, Accept, Turn
  <2>2. pc # "converting"
    BY <2>1 DEF UInv, Converting, Buffer
  <2> QED
    BY <1>7, <2>1, <2>2, CountingGoesOn
<1>8. CASE Write \/ Overflow \/ CountOverflow
  <2>1. pc \in {"counting", "converting"} /\ out_mode # "count"
    BY <1>8 DEF Write, Overflow, CountOverflow, Accept, Turn
  <2>2. pc = "converting"
    BY <2>1 DEF UInv, Counting, NoBuffer
  <2> QED
    BY <1>0, <1>2, <1>8, <2>2, ConversionWrites, ConversionOverflows, ConversionCountsOn
<1> QED
  BY <1>2, <1>3, <1>4, <1>5, <1>6, <1>7, <1>8 DEF Next

\* The inductive invariant: every pass follows the log of the counting pass, character by
\* character or in blocks, until the end of the input.
THEOREM UtfInductive == Spec => [](UInv /\ Texts)
BY UInvInit, TextsInit, UInvNext, TextsNext, PTL DEF Spec

\* The variables keep their types: every unit that is written fits the width of the
\* output's format, and the pass never leaves the input, whatever the input holds.
THEOREM TypeCorrect == Spec => []TypeOK
<1>1. Spec => []Texts
  BY UtfInductive, PTL
<1>2. UInv /\ Texts => TypeOK
  <2>1. SUFFICES ASSUME UInv, Texts PROVE TypeOK
    OBVIOUS
  <2> QED
    BY <2>1 DEF UInv, Types, Options, Texts, TypeOK
<1> QED
  BY <1>1, <1>2, UtfInductive, PTL

\* For every input, all formats, modes and buffers: the result of the counting pass
\* predicts that of the conversion, on the slow path always, on the fast path, whichever
\* characters it took, where it keeps to the buffer (FastPathFits).
THEOREM CountIsRight == Spec => []CountPredicts
<1>1. UInv => CountPredicts
  BY DEF UInv
<1> QED
  BY <1>1, UtfInductive, PTL

\* Nothing is written past the end of the output buffer, in any mode, except that the fast
\* path from a narrower format into a buffer smaller than was counted may overstep it, by
\* less than a block (Overshoot).
THEOREM NoWriteOutside == Spec => []WritesStayInside
<1>1. UInv => WritesStayInside
  BY DEF UInv
<1> QED
  BY <1>1, UtfInductive, PTL

-----------------------------------------------------------------------------
(* Characters: reading and writing are inverse to each other.             *)

Scalar(c) == c \in Nat /\ c <= 1114111 /\ ~Surrogate(c) /\ ~NonCharacter(c)

\* The forms that UTF-8 has for c, by their length, and the parts of a form.
Bytes(c) == IF c <= 127 THEN 1 ELSE IF c <= 2047 THEN 2 ELSE IF c <= 65535 THEN 3 ELSE 4

Lead2(c) == 192 + c \div 64
Lead3(c) == 224 + c \div 4096
Lead4(c) == 240 + c \div 262144
Trail(x) == 128 + (x % 64)

Middle(c) == c \div 64
Upper(c) == c \div 4096
Two(a, z) == (a % 32) * 64 + (z % 64)
Three(a, y, z) == (a % 16) * 4096 + (y % 64) * 64 + (z % 64)
Four(a, x, y, z) == (a % 8) * 262144 + (x % 64) * 4096 + (y % 64) * 64 + (z % 64)

\* The surrogates of c.
High(c) == 55296 + (c - 65536) \div 1024
Following(c) == 56320 + (c % 1024)
IsHigh(u) == u \in Nat /\ 55296 <= u /\ u < 56320
IsFollowing(u) == u \in Nat /\ 56320 <= u /\ u <= 57343

LEMMA TrailIs ==
  ASSUME NEW x \in Nat
  PROVE  /\ Trail(x) \in Nat /\ Trail(x) \div 64 = 2 /\ Trail(x) % 64 = x % 64
         /\ Middle(x) \in Nat /\ Upper(x) \in Nat
BY SMT DEF Trail, Middle, Upper

LEMMA LeadTwo ==
  ASSUME NEW c \in Nat, Bytes(c) = 2
  PROVE  Announced(Lead2(c)) = 2 /\ Two(Lead2(c), Trail(c)) = c
<1>1. c <= 2047
  BY SMT DEF Bytes
<1>2. PICK x : x = c \div 64
  OBVIOUS
<1>3. x \in Nat /\ x < 32 /\ c = x * 64 + (c % 64)
  BY <1>1, <1>2, SMT
<1>4. Announced(192 + x) = 2 /\ (192 + x) % 32 = x
  BY <1>3, SMT DEF Announced
<1>5. Lead2(c) = 192 + x /\ Trail(c) % 64 = c % 64
  BY <1>2, TrailIs DEF Lead2
<1> QED
  BY <1>3, <1>4, <1>5, SMT DEF Two

LEMMA LeadThree ==
  ASSUME NEW c \in Nat, Bytes(c) = 3
  PROVE  Announced(Lead3(c)) = 3 /\ Three(Lead3(c), Trail(Middle(c)), Trail(c)) = c
<1>1. c <= 65535
  BY SMT DEF Bytes
<1>2. PICK x : x = c \div 4096
  OBVIOUS
<1>3. x \in Nat /\ x < 16 /\ c = x * 4096 + (Middle(c) % 64) * 64 + (c % 64)
  BY <1>1, <1>2, SMT DEF Middle
<1>4. Announced(224 + x) = 3 /\ (224 + x) % 16 = x
  BY <1>3, SMT DEF Announced
<1> QED
  BY <1>2, <1>3, <1>4, TrailIs, SMTT(40) DEF Lead3, Three

LEMMA LeadFour ==
  ASSUME NEW c, Scalar(c), Bytes(c) = 4
  PROVE  /\ Announced(Lead4(c)) = 4
         /\ Four(Lead4(c), Trail(Upper(c)), Trail(Middle(c)), Trail(c)) = c
<1>1. c \in Nat /\ c <= 1114111
  BY SMT DEF Scalar
<1>2. PICK x : x = c \div 262144
  OBVIOUS
<1>3. x \in Nat /\ x < 5
      /\ c = x * 262144 + (Upper(c) % 64) * 4096 + (Middle(c) % 64) * 64 + (c % 64)
  BY <1>1, <1>2, SMT DEF Upper, Middle
<1>4. Announced(240 + x) = 4 /\ (240 + x) % 8 = x
  BY <1>3, SMT DEF Announced
<1> QED
  BY <1>1, <1>2, <1>3, <1>4, TrailIs, SMTT(40) DEF Lead4, Four

LEMMA PairIs ==
  ASSUME NEW c, Scalar(c), Bytes(c) = 4
  PROVE  /\ IsHigh(High(c)) /\ IsFollowing(Following(c))
         /\ Pair(High(c), Following(c)) = c
BY SMT DEF Pair, High, Following, Scalar, Bytes, IsHigh, IsFollowing

LEMMA BytesIs ==
  ASSUME NEW c \in Nat
  PROVE  Bytes(c) \in {1, 2, 3, 4}
BY SMT DEF Bytes

\* The units u stand in s from position i on.
Placed(u, s, i) ==
  /\ i + Len(u) - 1 <= Len(s)
  /\ \A k \in 1 .. Len(u) : s[i + k - 1] = u[k]

LEMMA ScalarVerdict ==
  ASSUME NEW c, Scalar(c), char_mode \in CharModes, NEW n
  PROVE  /\ Judged(n, c, Least[Bytes(c)]) = Char(n, c, "none")
         /\ Judged(n, c, 0) = Char(n, c, "none")
<1>1. Verdict(c, 0) = "none"
  BY SMT DEF Scalar, Verdict
<1>2. PICK least : least = Least[Bytes(c)]
  OBVIOUS
<1>3. ~(c < least)
  BY <1>2, SMT DEF Scalar, Least, Bytes
<1>4. Verdict(c, least) = "none"
  BY <1>3, SMT DEF Scalar, Verdict
<1> QED
  BY <1>1, <1>2, <1>4 DEF Judged

LEMMA Utf8Parts ==
  ASSUME NEW s, NEW i
  PROVE  /\ Utf8Value(s, i, 1) = s[i]
         /\ Utf8Value(s, i, 2) = Two(s[i], s[i + 1])
         /\ Utf8Value(s, i, 3) = Three(s[i], s[i + 1], s[i + 2])
         /\ Utf8Value(s, i, 4) = Four(s[i], s[i + 1], s[i + 2], s[i + 3])
BY SMT DEF Utf8Value, Low, Two, Three, Four

\* A form that announces n bytes and has them is judged by its value.
Formed(s, i, n) ==
  /\ Announced(s[i]) = n /\ i + n - 1 <= Len(s)
  /\ \A k \in 1 .. n - 1 : s[i + k] \div 64 = 2

LEMMA Utf8Form ==
  ASSUME NEW s, NEW i \in Nat, NEW n \in 1 .. 4, Formed(s, i, n), Len(s) \in Nat
  PROVE  FromUtf8(s, i) = Judged(n, Utf8Value(s, i, n), Least[n])
<1>1. ~(i + n - 1 > Len(s)) /\ n # 0
  BY DEF Formed
<1> QED
  BY <1>1 DEF FromUtf8, Formed

LEMMA TwoSurrogates ==
  ASSUME NEW s, NEW i \in Nat, IsHigh(s[i]), IsFollowing(s[i + 1]),
         Len(s) \in Nat, i + 2 - 1 <= Len(s)
  PROVE  FromUtf16(s, i) = Judged(2, Pair(s[i], s[i + 1]), Least[4])
<1>1. Surrogate(s[i]) /\ ~(s[i] >= 56320)
  BY SMT DEF IsHigh, Surrogate
<1>2. ~(s[i + 1] < 56320 \/ s[i + 1] > 57343) /\ ~(i + 1 > Len(s))
  BY SMT DEF IsFollowing
<1>3. Least[4] = 65536
  BY SMT DEF Least
<1> QED
  BY <1>1, <1>2, <1>3, SMT DEF FromUtf16, Pair

LEMMA EncodeForms ==
  ASSUME NEW c \in Nat
  PROVE  /\ Encode(32, c) = <<c>>
         /\ Bytes(c) # 4 => Encode(16, c) = <<c>>
         /\ Bytes(c) = 4 => Encode(16, c) = <<High(c), Following(c)>>
         /\ Bytes(c) = 1 => Encode(8, c) = <<c>>
         /\ Bytes(c) = 2 => Encode(8, c) = <<Lead2(c), Trail(c)>>
         /\ Bytes(c) = 3 => Encode(8, c) = <<Lead3(c), Trail(Middle(c)), Trail(c)>>
         /\ Bytes(c) = 4 =>
              Encode(8, c) = <<Lead4(c), Trail(Upper(c)), Trail(Middle(c)), Trail(c)>>
BY SMTT(30) DEF Encode, Trail, Middle, Upper, Lead2, Lead3, Lead4, High, Following, Bytes

\* Where the units of a placed character are.
LEMMA PlacedOne ==
  ASSUME NEW s \in Seq(Nat), NEW i \in 1 .. Len(s), NEW a, Placed(<<a>>, s, i)
  PROVE  s[i] = a /\ i + 1 - 1 <= Len(s)
BY SMT DEF Placed

LEMMA PlacedTwo ==
  ASSUME NEW s \in Seq(Nat), NEW i \in 1 .. Len(s), NEW a, NEW b, Placed(<<a, b>>, s, i)
  PROVE  s[i] = a /\ s[i + 1] = b /\ i + 2 - 1 <= Len(s)
<1>1. s[i + 1 - 1] = a /\ s[i + 2 - 1] = b /\ i + 2 - 1 <= Len(s)
  BY DEF Placed
<1>2. i + 1 - 1 = i /\ i + 2 - 1 = i + 1
  OBVIOUS
<1> QED
  BY <1>1, <1>2

LEMMA PlacedThree ==
  ASSUME NEW s \in Seq(Nat), NEW i \in 1 .. Len(s), NEW a, NEW b, NEW c, Placed(<<a, b, c>>, s, i)
  PROVE  s[i] = a /\ s[i + 1] = b /\ s[i + 2] = c /\ i + 3 - 1 <= Len(s)
<1>1. s[i + 1 - 1] = a /\ s[i + 2 - 1] = b /\ s[i + 3 - 1] = c /\ i + 3 - 1 <= Len(s)
  BY SMTT(40) DEF Placed
<1>2. i + 1 - 1 = i /\ i + 2 - 1 = i + 1 /\ i + 3 - 1 = i + 2
  OBVIOUS
<1> QED
  BY <1>1, <1>2

LEMMA PlacedFour ==
  ASSUME NEW s \in Seq(Nat), NEW i \in 1 .. Len(s), NEW a, NEW b, NEW c, NEW d,
         Placed(<<a, b, c, d>>, s, i)
  PROVE  s[i] = a /\ s[i + 1] = b /\ s[i + 2] = c /\ s[i + 3] = d /\ i + 4 - 1 <= Len(s)
<1>1. PICK u : u = <<a, b, c, d>>
  OBVIOUS
<1>2. Len(u) = 4 /\ u[1] = a /\ u[2] = b /\ u[3] = c /\ u[4] = d
  BY <1>1
<1>3. Placed(u, s, i)
  BY <1>1
<1>4. /\ s[i + 1 - 1] = u[1] /\ s[i + 2 - 1] = u[2] /\ s[i + 3 - 1] = u[3] /\ s[i + 4 - 1] = u[4]
      /\ i + 4 - 1 <= Len(s)
  BY <1>2, <1>3 DEF Placed
<1>5. i + 1 - 1 = i /\ i + 2 - 1 = i + 1 /\ i + 3 - 1 = i + 2 /\ i + 4 - 1 = i + 3
  OBVIOUS
<1> QED
  BY <1>2, <1>4, <1>5

\* Reading what was written for a character, in each of the formats.
LEMMA Utf32Inverts ==
  ASSUME NEW c, Scalar(c), char_mode \in CharModes,
         NEW s \in Seq(Nat), NEW i \in 1 .. Len(s), Placed(Encode(32, c), s, i)
  PROVE  FromUtf32(s, i) = Char(Len(Encode(32, c)), c, "none")
<1>1. c \in Nat
  BY DEF Scalar
<1>2. Encode(32, c) = <<c>> /\ s[i] = c
  BY <1>1, EncodeForms, PlacedOne
<1>3. Judged(1, c, 0) = Char(1, c, "none")
  BY ScalarVerdict
<1> QED
  BY <1>2, <1>3 DEF FromUtf32

LEMMA Utf16Inverts ==
  ASSUME NEW c, Scalar(c), char_mode \in CharModes,
         NEW s \in Seq(Nat), NEW i \in 1 .. Len(s), Placed(Encode(16, c), s, i)
  PROVE  FromUtf16(s, i) = Char(Len(Encode(16, c)), c, "none")
<1>1. c \in Nat /\ ~Surrogate(c) /\ i \in Nat /\ Len(s) \in Nat
  BY DEF Scalar
<1>2. CASE Bytes(c) # 4
  <2>1. Encode(16, c) = <<c>> /\ s[i] = c
    BY <1>1, <1>2, EncodeForms, PlacedOne
  <2>2. Judged(1, c, 0) = Char(1, c, "none")
    BY ScalarVerdict
  <2>3. FromUtf16(s, i) = Judged(1, s[i], 0)
    BY <1>1, <2>1, BmpIsOneUnit
  <2> QED
    BY <2>1, <2>2, <2>3
<1>3. CASE Bytes(c) = 4
  <2>1. Encode(16, c) = <<High(c), Following(c)>>
    BY <1>1, <1>3, EncodeForms
  <2>2. s[i] = High(c) /\ s[i + 1] = Following(c) /\ i + 2 - 1 <= Len(s)
    BY <2>1, PlacedTwo
  <2>3. IsHigh(s[i]) /\ IsFollowing(s[i + 1]) /\ Pair(s[i], s[i + 1]) = c
    BY <1>3, <2>2, PairIs
  <2>4. FromUtf16(s, i) = Judged(2, c, Least[4])
    BY <1>1, <2>2, <2>3, TwoSurrogates
  <2>5. Judged(2, c, Least[4]) = Char(2, c, "none")
    BY <1>3, ScalarVerdict
  <2> QED
    BY <2>1, <2>4, <2>5
<1> QED
  BY <1>2, <1>3

LEMMA Utf8Inverts ==
  ASSUME NEW c, Scalar(c), char_mode \in CharModes,
         NEW s \in Seq(Nat), NEW i \in 1 .. Len(s), Placed(Encode(8, c), s, i)
  PROVE  FromUtf8(s, i) = Char(Len(Encode(8, c)), c, "none")
<1>1. c \in Nat /\ i \in Nat /\ Len(s) \in Nat
  BY DEF Scalar
<1>2. PICK x, y : x = Upper(c) /\ y = Middle(c)
  OBVIOUS
<1>3. x \in Nat /\ y \in Nat
  BY <1>1, <1>2, TrailIs
<1>4. Trail(x) \div 64 = 2 /\ Trail(y) \div 64 = 2 /\ Trail(c) \div 64 = 2
  BY <1>1, <1>3, TrailIs
<1>5. \A n : Bytes(c) = n => Judged(n, c, Least[n]) = Char(n, c, "none")
  BY ScalarVerdict
<1>6. CASE Bytes(c) = 1
  <2>1. Encode(8, c) = <<c>> /\ s[i] = c /\ i + 1 - 1 <= Len(s)
    BY <1>1, <1>6, EncodeForms, PlacedOne
  <2>2. Announced(s[i]) = 1
    BY <1>1, <1>6, <2>1, SMT DEF Announced, Bytes
  <2>3. Utf8Value(s, i, 1) = c
    BY <2>1, Utf8Parts
  <2>4. Formed(s, i, 1)
    BY <2>1, <2>2 DEF Formed
  <2>5. FromUtf8(s, i) = Judged(1, c, Least[1])
    BY <1>1, <2>3, <2>4, Utf8Form
  <2> QED
    BY <1>5, <1>6, <2>1, <2>5
<1>7. CASE Bytes(c) = 2
  <2>1. Encode(8, c) = <<Lead2(c), Trail(c)>>
    BY <1>1, <1>7, EncodeForms
  <2>2. s[i] = Lead2(c) /\ s[i + 1] = Trail(c) /\ i + 2 - 1 <= Len(s)
    BY <2>1, PlacedTwo
  <2>3. Announced(s[i]) = 2 /\ Utf8Value(s, i, 2) = c
    <3>1. Announced(Lead2(c)) = 2 /\ Two(Lead2(c), Trail(c)) = c
      BY <1>1, <1>7, LeadTwo
    <3>2. Utf8Value(s, i, 2) = Two(s[i], s[i + 1])
      BY Utf8Parts
    <3> QED
      BY <2>2, <3>1, <3>2, Zenon
  <2>4. Formed(s, i, 2)
    BY <1>4, <2>2, <2>3 DEF Formed
  <2>5. FromUtf8(s, i) = Judged(2, c, Least[2])
    BY <1>1, <2>3, <2>4, Utf8Form
  <2> QED
    BY <1>5, <1>7, <2>1, <2>5
<1>8. CASE Bytes(c) = 3
  <2>1. Encode(8, c) = <<Lead3(c), Trail(y), Trail(c)>>
    BY <1>1, <1>2, <1>8, EncodeForms
  <2>2. s[i] = Lead3(c) /\ s[i + 1] = Trail(y) /\ s[i + 2] = Trail(c) /\ i + 3 - 1 <= Len(s)
    BY <2>1, PlacedThree
  <2>3. Announced(s[i]) = 3 /\ Utf8Value(s, i, 3) = c
    <3>1. Announced(Lead3(c)) = 3 /\ Three(Lead3(c), Trail(y), Trail(c)) = c
      BY <1>1, <1>2, <1>8, LeadThree
    <3>2. Utf8Value(s, i, 3) = Three(s[i], s[i + 1], s[i + 2])
      BY Utf8Parts
    <3> QED
      BY <2>2, <3>1, <3>2, Zenon
  <2>4. Formed(s, i, 3)
    BY <1>4, <2>2, <2>3, SMTT(40) DEF Formed
  <2>5. FromUtf8(s, i) = Judged(3, c, Least[3])
    BY <1>1, <2>3, <2>4, Utf8Form
  <2> QED
    BY <1>5, <1>8, <2>1, <2>5
<1>9. CASE Bytes(c) = 4
  <2>1. Encode(8, c) = <<Lead4(c), Trail(x), Trail(y), Trail(c)>>
    BY <1>1, <1>2, <1>9, EncodeForms
  <2>2. s[i] = Lead4(c) /\ s[i + 1] = Trail(x) /\ s[i + 2] = Trail(y) /\ s[i + 3] = Trail(c)
        /\ i + 4 - 1 <= Len(s)
    BY <2>1, PlacedFour
  <2>3. Announced(s[i]) = 4 /\ Utf8Value(s, i, 4) = c
    <3>1. Announced(Lead4(c)) = 4 /\ Four(Lead4(c), Trail(x), Trail(y), Trail(c)) = c
      BY <1>2, <1>9, LeadFour
    <3>2. Utf8Value(s, i, 4) = Four(s[i], s[i + 1], s[i + 2], s[i + 3])
      BY Utf8Parts
    <3> QED
      BY <2>2, <3>1, <3>2, Zenon
  <2>4. Formed(s, i, 4)
    <3>1. s[i + 1] \div 64 = 2 /\ s[i + 2] \div 64 = 2 /\ s[i + 3] \div 64 = 2
      BY <1>4, <2>2
    <3>2. \A k \in 1 .. 4 - 1 : k \in {1, 2, 3}
      OBVIOUS
    <3>3. \A k \in {1, 2, 3} : s[i + k] \div 64 = 2
      BY <3>1
    <3> QED
      BY <2>2, <2>3, <3>2, <3>3 DEF Formed
  <2>5. FromUtf8(s, i) = Judged(4, c, Least[4])
    BY <1>1, <2>3, <2>4, Utf8Form
  <2> QED
    BY <1>5, <1>9, <2>1, <2>5
<1> QED
  BY <1>1, <1>6, <1>7, <1>8, <1>9, BytesIs

\* What is written for a character is read as that character, in every format and in
\* every mode, wherever it stands and whatever follows it.
THEOREM DecodeInvertsEncode ==
  ASSUME NEW f \in Formats, NEW c, Scalar(c), char_mode \in CharModes,
         NEW s \in Seq(Nat), NEW i \in 1 .. Len(s), Placed(Encode(f, c), s, i)
  PROVE  Decode(f, s, i) = Char(Len(Encode(f, c)), c, "none")
BY Utf8Inverts, Utf16Inverts, Utf32Inverts DEF Decode, Formats

\* The bits of a form, and the forms of a sum of bits.
LEMMA ByteParts ==
  ASSUME NEW b \in Nat
  PROVE  /\ Announced(b) = 1 => b <= 127
         /\ Announced(b) = 2 => b = 192 + (b % 32)
         /\ Announced(b) = 3 => b = 224 + (b % 16)
         /\ Announced(b) = 4 => b = 240 + (b % 8)
         /\ b \div 64 = 2 => b = 128 + (b % 64)
BY SMT DEF Announced

LEMMA SumOfTwo ==
  ASSUME NEW a \in Nat, a < 32, NEW z \in Nat, z < 64
  PROVE  /\ (a * 64 + z) \div 64 = a /\ (a * 64 + z) % 64 = z /\ a * 64 + z <= 2047
BY SMT

LEMMA SumOfThree ==
  ASSUME NEW a \in Nat, a < 16, NEW y \in Nat, y < 64, NEW z \in Nat, z < 64,
         NEW c, c = a * 4096 + y * 64 + z
  PROVE  c \div 4096 = a /\ (c \div 64) % 64 = y /\ c % 64 = z /\ c <= 65535
BY SMT

FromBits(p, x, y, z) == p * 262144 + x * 4096 + y * 64 + z
Top(c) == c \div 262144

LEMMA SumOfFour ==
  ASSUME NEW p \in Nat, p < 8, NEW x \in Nat, x < 64, NEW y \in Nat, y < 64,
         NEW z \in Nat, z < 64
  PROVE  /\ FromBits(p, x, y, z) \in Nat /\ Top(FromBits(p, x, y, z)) = p
         /\ Upper(FromBits(p, x, y, z)) % 64 = x /\ Middle(FromBits(p, x, y, z)) % 64 = y
         /\ FromBits(p, x, y, z) % 64 = z
BY SMTT(30) DEF FromBits, Top, Upper, Middle

LEMMA TwoIs ==
  ASSUME NEW a \in Nat, NEW z \in Nat, Announced(a) = 2, z \div 64 = 2, NEW c, c = Two(a, z)
  PROVE  c \in Nat /\ a = Lead2(c) /\ z = Trail(c) /\ (c >= Least[2] => Bytes(c) = 2)
<1>1. a = 192 + (a % 32) /\ z = 128 + (z % 64)
  BY ByteParts
<1>2. a % 32 \in Nat /\ a % 32 < 32 /\ z % 64 \in Nat /\ z % 64 < 64
  BY LowBits
<1>3. c = (a % 32) * 64 + (z % 64)
  BY DEF Two
<1>4. c \div 64 = a % 32 /\ c % 64 = z % 64 /\ c <= 2047
  BY <1>2, <1>3, SumOfTwo
<1>5. c \in Nat
  BY <1>2, <1>3, SMT
<1>6. Least[2] = 128
  BY SMT DEF Least
<1>7. c >= Least[2] => Bytes(c) = 2
  BY <1>4, <1>5, <1>6, SMT DEF Bytes
<1> QED
  BY <1>1, <1>4, <1>5, <1>7 DEF Lead2, Trail

LEMMA ThreeIs ==
  ASSUME NEW a \in Nat, NEW y \in Nat, NEW z \in Nat,
         Announced(a) = 3, y \div 64 = 2, z \div 64 = 2, NEW c, c = Three(a, y, z)
  PROVE  c \in Nat /\ a = Lead3(c) /\ y = Trail(Middle(c)) /\ z = Trail(c)
         /\ (c >= Least[3] => Bytes(c) = 3)
<1>1. a = 224 + (a % 16) /\ y = 128 + (y % 64) /\ z = 128 + (z % 64)
  BY ByteParts
<1>2. /\ a % 16 \in Nat /\ a % 16 < 16 /\ y % 64 \in Nat /\ y % 64 < 64
      /\ z % 64 \in Nat /\ z % 64 < 64
  BY LowBits
<1>3. c = (a % 16) * 4096 + (y % 64) * 64 + (z % 64)
  BY DEF Three
<1>4. c \div 4096 = a % 16 /\ (c \div 64) % 64 = y % 64 /\ c % 64 = z % 64 /\ c <= 65535
  BY <1>2, <1>3, SumOfThree
<1>5. c \in Nat
  BY <1>2, <1>3, SMT
<1>6. Least[3] = 2048
  BY SMT DEF Least
<1>7. c >= Least[3] => Bytes(c) = 3
  BY <1>4, <1>5, <1>6, SMT DEF Bytes
<1> QED
  BY <1>1, <1>4, <1>5, <1>7 DEF Lead3, Trail, Middle

\* The shape of a form of four bytes.
FourBytes(a, x, y, z) ==
  /\ a \in Nat /\ x \in Nat /\ y \in Nat /\ z \in Nat
  /\ Announced(a) = 4 /\ x \div 64 = 2 /\ y \div 64 = 2 /\ z \div 64 = 2

LEMMA FourIs ==
  ASSUME NEW a, NEW x, NEW y, NEW z, FourBytes(a, x, y, z), NEW c, c = Four(a, x, y, z)
  PROVE  /\ c \in Nat /\ a = Lead4(c) /\ x = Trail(Upper(c)) /\ y = Trail(Middle(c))
         /\ z = Trail(c) /\ (c >= Least[4] => Bytes(c) = 4)
<1>1. /\ a = 240 + (a % 8) /\ x = 128 + (x % 64) /\ y = 128 + (y % 64)
      /\ z = 128 + (z % 64)
  BY ByteParts DEF FourBytes
<1>2. /\ a % 8 \in Nat /\ a % 8 < 8 /\ x % 64 \in Nat /\ x % 64 < 64
      /\ y % 64 \in Nat /\ y % 64 < 64 /\ z % 64 \in Nat /\ z % 64 < 64
  BY LowBits DEF FourBytes
<1>3. PICK p, q, r, t : p = a % 8 /\ q = x % 64 /\ r = y % 64 /\ t = z % 64
  OBVIOUS
<1>4. c = FromBits(p, q, r, t)
  BY <1>3, SMT DEF Four, FromBits
<1>0. /\ p \in Nat /\ p < 8 /\ q \in Nat /\ q < 64 /\ r \in Nat /\ r < 64
      /\ t \in Nat /\ t < 64
  BY <1>2, <1>3
<1>5. c \in Nat /\ Top(c) = p /\ Upper(c) % 64 = q /\ Middle(c) % 64 = r /\ c % 64 = t
  BY <1>0, <1>4, SumOfFour
<1>6. a = Lead4(c)
  BY <1>1, <1>3, <1>5, SMT DEF Lead4, Top
<1>7. x = Trail(Upper(c)) /\ y = Trail(Middle(c)) /\ z = Trail(c)
  BY <1>1, <1>3, <1>5, SMT DEF Trail
<1>8. c >= Least[4] => Bytes(c) = 4
  <2>1. Least[4] = 65536
    BY SMT DEF Least
  <2> QED
    BY <1>5, <2>1, SMT DEF Bytes
<1> QED
  BY <1>5, <1>6, <1>7, <1>8, Zenon

\* The surrogates of a pair.
LEMMA PairParts ==
  ASSUME NEW a, NEW b, IsHigh(a), IsFollowing(b), NEW c, c = Pair(a, b)
  PROVE  c \in Nat /\ a = High(c) /\ b = Following(c) /\ Bytes(c) = 4
BY SMTT(30) DEF IsHigh, IsFollowing, Pair, High, Following, Bytes

\* The other way: units that stand in s, as a placed sequence.
LEMMA PlaceOne ==
  ASSUME NEW s \in Seq(Nat), NEW i \in 1 .. Len(s), NEW a, s[i] = a
  PROVE  Placed(<<a>>, s, i) /\ Len(<<a>>) = 1
BY SMT DEF Placed

LEMMA PlaceAll ==
  ASSUME NEW s \in Seq(Nat), NEW i \in 1 .. Len(s), NEW u, Len(u) \in {2, 3, 4},
         i + Len(u) - 1 <= Len(s), s[i] = u[1], s[i + 1] = u[2],
         Len(u) >= 3 => s[i + 2] = u[3], Len(u) >= 4 => s[i + 3] = u[4]
  PROVE  Placed(u, s, i)
<1>1. ASSUME NEW k \in 1 .. Len(u) PROVE s[i + k - 1] = u[k]
  <2>1. CASE k = 1
    BY <2>1
  <2>2. CASE k = 2
    BY <2>2
  <2>3. CASE k = 3
    <3>1. Len(u) >= 3 /\ i + k - 1 = i + 2
      BY <2>3
    <3> QED
      BY <2>3, <3>1
  <2>4. CASE k = 4
    <3>1. Len(u) >= 4 /\ i + k - 1 = i + 3
      BY <2>4
    <3> QED
      BY <2>4, <3>1
  <2>5. k \in {1, 2, 3, 4}
    <3>1. PICK l : l = Len(u)
      OBVIOUS
    <3>2. l \in {2, 3, 4} /\ k \in 1 .. l
      BY <3>1
    <3> QED
      BY <3>2, SMTT(30)
  <2> QED
    BY <2>1, <2>2, <2>3, <2>4, <2>5
<1> QED
  BY <1>1 DEF Placed

LEMMA PlaceTwo ==
  ASSUME NEW s \in Seq(Nat), NEW i \in 1 .. Len(s), NEW a, NEW b, s[i] = a, s[i + 1] = b,
         i + 2 - 1 <= Len(s)
  PROVE  Placed(<<a, b>>, s, i) /\ Len(<<a, b>>) = 2
<1>1. PICK u : u = <<a, b>>
  OBVIOUS
<1>2. Len(u) = 2 /\ u[1] = a /\ u[2] = b
  BY <1>1
<1>3. /\ Len(u) \in {2, 3, 4} /\ i + Len(u) - 1 <= Len(s) /\ s[i] = u[1] /\ s[i + 1] = u[2]
      /\ Len(u) >= 3 => s[i + 2] = u[3]
      /\ Len(u) >= 4 => s[i + 3] = u[4]
  BY <1>2
<1>4. Placed(u, s, i)
  BY <1>3, PlaceAll
<1> QED
  BY <1>1, <1>2, <1>4

LEMMA PlaceThree ==
  ASSUME NEW s \in Seq(Nat), NEW i \in 1 .. Len(s), NEW a, NEW b, NEW c,
         s[i] = a, s[i + 1] = b, s[i + 2] = c, i + 3 - 1 <= Len(s)
  PROVE  Placed(<<a, b, c>>, s, i) /\ Len(<<a, b, c>>) = 3
<1>1. PICK u : u = <<a, b, c>>
  OBVIOUS
<1>2. Len(u) = 3 /\ u[1] = a /\ u[2] = b /\ u[3] = c
  BY <1>1
<1>3. /\ Len(u) \in {2, 3, 4} /\ i + Len(u) - 1 <= Len(s) /\ s[i] = u[1] /\ s[i + 1] = u[2]
      /\ Len(u) >= 3 => s[i + 2] = u[3]
      /\ Len(u) >= 4 => s[i + 3] = u[4]
  BY <1>2
<1>4. Placed(u, s, i)
  BY <1>3, PlaceAll, SMTT(40)
<1> QED
  BY <1>1, <1>2, <1>4

LEMMA PlaceFour ==
  ASSUME NEW s \in Seq(Nat), NEW i \in 1 .. Len(s), NEW a, NEW b, NEW c, NEW d,
         s[i] = a, s[i + 1] = b, s[i + 2] = c, s[i + 3] = d, i + 4 - 1 <= Len(s)
  PROVE  Placed(<<a, b, c, d>>, s, i) /\ Len(<<a, b, c, d>>) = 4
<1>1. PICK u : u = <<a, b, c, d>>
  OBVIOUS
<1>2. Len(u) = 4 /\ u[1] = a /\ u[2] = b /\ u[3] = c /\ u[4] = d
  BY <1>1
<1>3. i + 4 - 1 <= Len(s) /\ 1 .. Len(u) = {1, 2, 3, 4}
  BY <1>2
<1>4. i + 1 - 1 = i /\ i + 2 - 1 = i + 1 /\ i + 3 - 1 = i + 2 /\ i + 4 - 1 = i + 3
  OBVIOUS
<1>5. \A k \in {1, 2, 3, 4} : s[i + k - 1] = u[k]
  BY <1>2, <1>4, Zenon
<1>6. \A k \in 1 .. Len(u) : s[i + k - 1] = u[k]
  BY <1>3, <1>5, Zenon
<1>7. i + Len(u) - 1 <= Len(s)
  BY <1>2, <1>3
<1>8. Placed(u, s, i)
  BY <1>6, <1>7, Zenon DEF Placed
<1> QED
  BY <1>1, <1>2, <1>8, Zenon

\* What strict mode accepts.
LEMMA StrictVerdict ==
  ASSUME char_mode = "strict", NEW c \in Nat, NEW least \in Nat, NEW n,
         Judged(n, c, least).error = "none"
  PROVE  Scalar(c) /\ c >= least /\ Judged(n, c, least) = Char(n, c, "none")
<1>1. Verdict(c, least) = "none" /\ Judged(n, c, least) = Char(n, c, "none")
  BY DEF Judged, Char
<1>2. Scalar(c) /\ c >= least
  BY <1>1, SMT DEF Verdict, Scalar
<1> QED
  BY <1>1, <1>2

Exact(d, f, s, i) ==
  /\ Scalar(d.unicode) /\ d = Char(Len(Encode(f, d.unicode)), d.unicode, "none")
  /\ Placed(Encode(f, d.unicode), s, i)

LEMMA ExactIs ==
  ASSUME NEW c, Scalar(c), NEW f, NEW n, Len(Encode(f, c)) = n, NEW s, NEW i,
         Placed(Encode(f, c), s, i), NEW d, d = Char(n, c, "none")
  PROVE  Exact(d, f, s, i)
BY DEF Exact, Char

LEMMA Utf32Exact ==
  ASSUME char_mode = "strict", NEW s \in Seq(Nat), NEW i \in 1 .. Len(s),
         NEW d, d = FromUtf32(s, i), d.error = "none"
  PROVE  Exact(d, 32, s, i)
<1>1. PICK c : c = s[i]
  OBVIOUS
<1>2. c \in Nat /\ d = Judged(1, c, 0)
  BY <1>1 DEF FromUtf32
<1>3. Scalar(c) /\ d = Char(1, c, "none")
  BY <1>2, StrictVerdict
<1>4. Encode(32, c) = <<c>>
  BY <1>2, EncodeForms
<1>5. Placed(<<c>>, s, i) /\ Len(<<c>>) = 1
  BY <1>1, PlaceOne
<1> QED
  BY <1>3, <1>4, <1>5, ExactIs

LEMMA Utf16Accepts ==
  ASSUME char_mode = "strict", NEW s, NEW i, FromUtf16(s, i).error = "none"
  PROVE  \/ ~Surrogate(s[i]) /\ FromUtf16(s, i) = Judged(1, s[i], 0)
         \/ /\ Surrogate(s[i]) /\ ~(s[i] >= 56320) /\ ~(i + 1 > Len(s))
            /\ ~(s[i + 1] < 56320) /\ ~(s[i + 1] > 57343)
            /\ FromUtf16(s, i) = Judged(2, Pair(s[i], s[i + 1]), Least[4])
BY SMT DEF FromUtf16, Bad, Char, Pair, Least

LEMMA SmallBytes ==
  ASSUME NEW c \in Nat, c < Limit(16)
  PROVE  Bytes(c) # 4
BY SMT DEF Limit, Bytes

LEMMA HalvesAre ==
  ASSUME NEW a \in Nat, NEW b \in Nat, Surrogate(a), ~(a >= 56320), ~(b < 56320), ~(b > 57343)
  PROVE  IsHigh(a) /\ IsFollowing(b)
BY SMT DEF Surrogate, IsHigh, IsFollowing

LEMMA Utf16Exact ==
  ASSUME char_mode = "strict", NEW s \in Seq(Nat), IsText(s, 16), NEW i \in 1 .. Len(s),
         NEW d, d = FromUtf16(s, i), d.error = "none"
  PROVE  Exact(d, 16, s, i)
<1>1. s[i] \in Nat /\ s[i] < Limit(16)
  BY DEF IsText
<1>2. CASE d = Judged(1, s[i], 0)
  <2>1. PICK c : c = s[i]
    OBVIOUS
  <2>2. Scalar(c) /\ d = Char(1, c, "none")
    BY <1>1, <1>2, <2>1, StrictVerdict
  <2>3. Encode(16, c) = <<c>>
    BY <1>1, <2>1, SmallBytes, EncodeForms
  <2>4. Placed(<<c>>, s, i) /\ Len(<<c>>) = 1
    BY <2>1, PlaceOne
  <2> QED
    BY <2>2, <2>3, <2>4, ExactIs
<1>3. CASE ~(d = Judged(1, s[i], 0))
  <2>1. PICK a, b, c : a = s[i] /\ b = s[i + 1] /\ c = Pair(a, b)
    OBVIOUS
  <2>2. /\ Surrogate(a) /\ ~(a >= 56320) /\ ~(i + 1 > Len(s)) /\ ~(b < 56320) /\ ~(b > 57343)
        /\ d = Judged(2, c, Least[4])
    BY <1>3, <2>1, Utf16Accepts
  <2>3. i + 2 - 1 <= Len(s) /\ b \in Nat
    BY <2>1, <2>2, SMTT(40)
  <2>4. IsHigh(a) /\ IsFollowing(b)
    BY <1>1, <2>1, <2>2, <2>3, HalvesAre, SMTT(40)
  <2>5. c \in Nat /\ a = High(c) /\ b = Following(c) /\ Bytes(c) = 4
    BY <2>1, <2>4, PairParts
  <2>6. Least[4] \in Nat
    BY SMT DEF Least
  <2>7. Scalar(c) /\ d = Char(2, c, "none")
    BY <2>2, <2>5, <2>6, StrictVerdict
  <2>8. Encode(16, c) = <<a, b>>
    BY <2>5, EncodeForms
  <2>9. Placed(<<a, b>>, s, i) /\ Len(<<a, b>>) = 2
    BY <2>1, <2>3, PlaceTwo
  <2> QED
    BY <2>7, <2>8, <2>9, ExactIs
<1> QED
  BY <1>2, <1>3

LEMMA Utf8Accepts ==
  ASSUME char_mode = "strict", NEW s, Len(s) \in Nat, NEW i \in Nat,
         Announced(s[i]) \in 0 .. 4, FromUtf8(s, i).error = "none"
  PROVE  \E n \in 1 .. 4 :
           Formed(s, i, n) /\ FromUtf8(s, i) = Judged(n, Utf8Value(s, i, n), Least[n])
<1>1. PICK n : n = Announced(s[i])
  OBVIOUS
<1>2. n # 0 /\ ~(i + n - 1 > Len(s)) /\ (\A k \in 1 .. n - 1 : s[i + k] \div 64 = 2)
      /\ FromUtf8(s, i) = Judged(n, Utf8Value(s, i, n), Least[n])
  BY <1>1 DEF FromUtf8, Bad, Char
<1>3. n \in 1 .. 4
  BY <1>1, <1>2
<1>4. i + n - 1 <= Len(s)
  BY <1>2, <1>3
<1> QED
  BY <1>1, <1>2, <1>3, <1>4 DEF Formed

LEMMA Utf8Exact ==
  ASSUME char_mode = "strict", NEW s \in Seq(Nat), NEW i \in 1 .. Len(s),
         NEW d, d = FromUtf8(s, i), d.error = "none"
  PROVE  Exact(d, 8, s, i)
<1>1. s[i] \in Nat /\ Announced(s[i]) \in 0 .. 4 /\ i \in Nat /\ Len(s) \in Nat
  BY AnnouncedType
<1>2. PICK n \in 1 .. 4 : Formed(s, i, n) /\ d = Judged(n, Utf8Value(s, i, n), Least[n])
  BY <1>1, Utf8Accepts
<1>3. PICK c : c = Utf8Value(s, i, n)
  OBVIOUS
<1>4. Least[n] \in Nat
  BY SMT DEF Least
<1>5. c \in Nat => Scalar(c) /\ c >= Least[n] /\ d = Char(n, c, "none")
  BY <1>2, <1>3, <1>4, StrictVerdict
<1>6. /\ Announced(s[i]) = n /\ i + n - 1 <= Len(s)
      /\ \A k \in 1 .. n - 1 : s[i + k] \div 64 = 2
  BY <1>2 DEF Formed
<1>7. ASSUME NEW k \in 1 .. n - 1
      PROVE  s[i + k] \in Nat /\ s[i + k] \div 64 = 2
  <2>1. i + k \in 1 .. Len(s)
    BY <1>1, <1>6
  <2>2. s[i + k] \in Nat
    BY <2>1
  <2> QED
    BY <1>6, <2>2
<1>8. CASE n = 1
  <2>1. c = s[i] /\ c \in Nat
    BY <1>1, <1>3, <1>8, Utf8Parts
  <2>2. Bytes(c) = 1
    BY <1>6, <1>8, <2>1, ByteParts, SMT DEF Bytes
  <2>3. Encode(8, c) = <<c>>
    BY <2>1, <2>2, EncodeForms
  <2>4. Placed(<<c>>, s, i) /\ Len(<<c>>) = 1
    BY <2>1, PlaceOne
  <2> QED
    BY <1>5, <1>8, <2>1, <2>3, <2>4, ExactIs
<1>9. CASE n = 2
  <2>1. PICK a, z : a = s[i] /\ z = s[i + 1]
    OBVIOUS
  <2>2. a \in Nat /\ z \in Nat /\ z \div 64 = 2 /\ Announced(a) = 2 /\ i + 2 - 1 <= Len(s)
    BY <1>1, <1>6, <1>7, <1>9, <2>1
  <2>3. c = Two(a, z)
    BY <1>3, <1>9, <2>1, Utf8Parts
  <2>4. c \in Nat /\ a = Lead2(c) /\ z = Trail(c) /\ (c >= Least[2] => Bytes(c) = 2)
    BY <2>2, <2>3, TwoIs
  <2>5. Encode(8, c) = <<a, z>>
    BY <1>5, <1>9, <2>4, EncodeForms
  <2>6. Placed(<<a, z>>, s, i) /\ Len(<<a, z>>) = 2
    BY <2>1, <2>2, PlaceTwo
  <2> QED
    BY <1>5, <1>9, <2>4, <2>5, <2>6, ExactIs
<1>10. CASE n = 3
  <2>1. PICK a, y, z : a = s[i] /\ y = s[i + 1] /\ z = s[i + 2]
    OBVIOUS
  <2>2. /\ a \in Nat /\ y \in Nat /\ y \div 64 = 2 /\ z \in Nat /\ z \div 64 = 2
        /\ Announced(a) = 3 /\ i + 3 - 1 <= Len(s)
    BY <1>1, <1>6, <1>7, <1>10, <2>1
  <2>3. c = Three(a, y, z)
    BY <1>3, <1>10, <2>1, Utf8Parts
  <2>4. /\ c \in Nat /\ a = Lead3(c) /\ y = Trail(Middle(c)) /\ z = Trail(c)
        /\ (c >= Least[3] => Bytes(c) = 3)
    BY <2>2, <2>3, ThreeIs, SMTT(40)
  <2>5. Encode(8, c) = <<a, y, z>>
    BY <1>5, <1>10, <2>4, EncodeForms
  <2>6. Placed(<<a, y, z>>, s, i) /\ Len(<<a, y, z>>) = 3
    BY <2>1, <2>2, PlaceThree
  <2> QED
    BY <1>5, <1>10, <2>4, <2>5, <2>6, ExactIs
<1>11. CASE n = 4
  <2>1. PICK a, x, y, z : a = s[i] /\ x = s[i + 1] /\ y = s[i + 2] /\ z = s[i + 3]
    OBVIOUS
  <2>2. FourBytes(a, x, y, z) /\ i + 4 - 1 <= Len(s)
    BY <1>1, <1>6, <1>7, <1>11, <2>1 DEF FourBytes
  <2>3. c = Four(a, x, y, z)
    BY <1>3, <1>11, <2>1, Utf8Parts
  <2>4. /\ c \in Nat /\ a = Lead4(c) /\ x = Trail(Upper(c)) /\ y = Trail(Middle(c))
        /\ z = Trail(c) /\ (c >= Least[4] => Bytes(c) = 4)
    BY <2>2, <2>3, FourIs
  <2>5. Encode(8, c) = <<a, x, y, z>>
    BY <1>5, <1>11, <2>4, EncodeForms
  <2>6. Placed(<<a, x, y, z>>, s, i) /\ Len(<<a, x, y, z>>) = 4
    BY <2>1, <2>2, PlaceFour
  <2> QED
    BY <1>5, <1>11, <2>4, <2>5, <2>6, ExactIs
<1> QED
  BY <1>8, <1>9, <1>10, <1>11

\* In strict mode a character has one form: what is read without an error is a scalar
\* value, and stands in the input as it would have been written.
THEOREM EncodeInvertsDecode ==
  ASSUME char_mode = "strict", NEW f \in Formats, NEW s, IsText(s, f), NEW i \in 1 .. Len(s),
         NEW d, d = Decode(f, s, i), d.error = "none"
  PROVE  /\ Scalar(d.unicode) /\ d.input_block = Len(Encode(f, d.unicode))
         /\ Placed(Encode(f, d.unicode), s, i)
<1>1. s \in Seq(Nat) /\ f \in {8, 16, 32}
  BY DEF IsText, Formats
<1>2. Exact(d, f, s, i)
  BY <1>1, Utf8Exact, Utf16Exact, Utf32Exact DEF Decode
<1> QED
  BY <1>2 DEF Exact, Char

-----------------------------------------------------------------------------
(* Well-formed output.                                                     *)

\* A scalar value starts after the first p units of s, and ends where P says.
Starts(s, f, P, p) ==
  \E c \in Codes : Scalar(c) /\ Placed(Encode(f, c), s, p + 1) /\ p + Len(Encode(f, c)) \in P

\* s falls into scalar values: every position of P starts one, which ends at the next.
Splits(s, f, P) ==
  /\ P \subseteq 0 .. Len(s) /\ 0 \in P /\ Len(s) \in P
  /\ \A p \in P : p < Len(s) => Starts(s, f, P, p)

WellFormed(s, f) == \E P : Splits(s, f, P)

LEMMA ScalarIsCode ==
  ASSUME NEW c, Scalar(c)
  PROVE  c \in Codes
BY SMT DEF Scalar, Codes

LEMMA PlacedStays ==
  ASSUME NEW s \in Seq(Nat), NEW t \in Seq(Nat), NEW u \in Seq(Nat), NEW i \in 1 .. Len(s),
         Placed(u, s, i)
  PROVE  Placed(u, s \o t, i)
<1>1. Len(s \o t) = Len(s) + Len(t) /\ Len(u) \in Nat /\ Len(s) \in Nat /\ Len(t) \in Nat
  OBVIOUS
<1>2. i + Len(u) - 1 <= Len(s \o t)
  BY <1>1 DEF Placed
<1>3. ASSUME NEW k \in 1 .. Len(u) PROVE (s \o t)[i + k - 1] = u[k]
  <2>1. i + k - 1 \in 1 .. Len(s)
    BY <1>1 DEF Placed
  <2>2. (s \o t)[i + k - 1] = s[i + k - 1]
    BY <2>1
  <2> QED
    BY <2>2 DEF Placed
<1> QED
  BY <1>2, <1>3 DEF Placed

LEMMA PlacedShifts ==
  ASSUME NEW s \in Seq(Nat), NEW t \in Seq(Nat), NEW u \in Seq(Nat), NEW i \in 1 .. Len(t),
         Placed(u, t, i)
  PROVE  Placed(u, s \o t, Len(s) + i)
<1>1. Len(s \o t) = Len(s) + Len(t) /\ Len(u) \in Nat /\ Len(s) \in Nat /\ Len(t) \in Nat
  OBVIOUS
<1>2. Len(s) + i + Len(u) - 1 <= Len(s \o t)
  BY <1>1 DEF Placed
<1>3. ASSUME NEW k \in 1 .. Len(u) PROVE (s \o t)[Len(s) + i + k - 1] = u[k]
  <2>1. i + k - 1 \in 1 .. Len(t) /\ Len(s) + i + k - 1 = Len(s) + (i + k - 1)
    BY <1>1, SMTT(40) DEF Placed
  <2>2. PICK j : j = i + k - 1
    OBVIOUS
  <2>3. j \in 1 .. Len(t)
    BY <2>1, <2>2
  <2>4. (s \o t)[Len(s) + j] = t[j]
    BY <2>3
  <2> QED
    BY <2>1, <2>2, <2>4 DEF Placed
<1> QED
  BY <1>2, <1>3 DEF Placed

LEMMA StartsStays ==
  ASSUME NEW f \in Formats, NEW s \in Seq(Nat), NEW t \in Seq(Nat), NEW p \in Nat, p < Len(s),
         NEW P, NEW Q, P \subseteq Q, Starts(s, f, P, p)
  PROVE  Starts(s \o t, f, Q, p)
<1>1. PICK c \in Codes :
        Scalar(c) /\ Placed(Encode(f, c), s, p + 1) /\ p + Len(Encode(f, c)) \in P
  BY DEF Starts
<1>2. Encode(f, c) \in Seq(Nat) /\ p + 1 \in 1 .. Len(s)
  BY EncodeType, CodesAreNat
<1>3. Placed(Encode(f, c), s \o t, p + 1)
  BY <1>1, <1>2, PlacedStays
<1> QED
  BY <1>1, <1>3 DEF Starts

LEMMA StartsShifts ==
  ASSUME NEW f \in Formats, NEW s \in Seq(Nat), NEW t \in Seq(Nat), NEW p \in Nat, p < Len(t),
         NEW P, NEW Q, \A q \in P : Len(s) + q \in Q, Starts(t, f, P, p)
  PROVE  Starts(s \o t, f, Q, Len(s) + p)
<1>1. PICK c \in Codes :
        Scalar(c) /\ Placed(Encode(f, c), t, p + 1) /\ p + Len(Encode(f, c)) \in P
  BY DEF Starts
<1>2. PICK u : u = Encode(f, c)
  OBVIOUS
<1>3. u \in Seq(Nat) /\ p + 1 \in 1 .. Len(t) /\ Len(u) \in Nat /\ Len(s) \in Nat
  <2>1. u \in Seq(Nat) /\ Len(u) \in 1 .. 4
    BY <1>2, EncodeType, CodesAreNat
  <2> QED
    BY <2>1
<1>4. Placed(u, s \o t, Len(s) + (p + 1))
  BY <1>1, <1>2, <1>3, PlacedShifts
<1>5. Len(s) + (p + 1) = Len(s) + p + 1 /\ Len(s) + (p + Len(u)) = Len(s) + p + Len(u)
  BY <1>3
<1>6. Len(s) + (p + Len(u)) \in Q
  BY <1>1, <1>2
<1> QED
  BY <1>1, <1>2, <1>4, <1>5, <1>6 DEF Starts

\* Well-formed strings can be joined.
LEMMA WellFormedJoin ==
  ASSUME NEW f \in Formats, NEW s \in Seq(Nat), NEW t \in Seq(Nat),
         WellFormed(s, f), WellFormed(t, f)
  PROVE  WellFormed(s \o t, f)
<1>1. PICK P, R : Splits(s, f, P) /\ Splits(t, f, R)
  BY DEF WellFormed
<1>2. PICK Q : Q = P \cup {Len(s) + q : q \in R}
  OBVIOUS
<1>3. Len(s \o t) = Len(s) + Len(t) /\ s \o t \in Seq(Nat) /\ Len(s) \in Nat /\ Len(t) \in Nat
  OBVIOUS
<1>4. P \subseteq Q /\ \A q \in R : Len(s) + q \in Q
  BY <1>2
<1>5. ASSUME NEW q \in Q PROVE q \in 0 .. Len(s \o t)
  <2>1. CASE q \in P
    BY <1>1, <1>3, <2>1 DEF Splits
  <2>2. ASSUME NEW r \in R, q = Len(s) + r PROVE q \in 0 .. Len(s \o t)
    BY <1>1, <1>3, <2>2 DEF Splits
  <2> QED
    BY <1>2, <2>1, <2>2
<1>6. 0 \in Q /\ Len(s \o t) \in Q
  BY <1>1, <1>3, <1>4 DEF Splits
<1>7. ASSUME NEW q \in Q, q < Len(s \o t) PROVE Starts(s \o t, f, Q, q)
  <2>1. ASSUME NEW r \in R, q = Len(s) + r PROVE Starts(s \o t, f, Q, q)
    <3>1. r \in Nat /\ r < Len(t)
      BY <1>1, <1>3, <1>7, <2>1 DEF Splits
    <3>2. Starts(t, f, R, r)
      BY <1>1, <3>1 DEF Splits
    <3> QED
      BY <1>4, <2>1, <3>1, <3>2, StartsShifts
  <2>2. CASE q \in P /\ q < Len(s)
    <3>1. q \in Nat /\ Starts(s, f, P, q)
      BY <1>1, <2>2 DEF Splits
    <3> QED
      BY <1>4, <2>2, <3>1, StartsStays
  <2>3. CASE q \in P /\ ~(q < Len(s))
    <3>1. q = Len(s) + 0 /\ 0 \in R
      BY <1>1, <1>3, <2>3 DEF Splits
    <3> QED
      BY <2>1, <3>1
  <2> QED
    BY <1>2, <2>1, <2>2, <2>3
<1>8. Splits(s \o t, f, Q)
  BY <1>5, <1>6, <1>7 DEF Splits
<1> QED
  BY <1>8 DEF WellFormed

\* The form of one scalar value, and a block of ASCII.
LEMMA OneIsWellFormed ==
  ASSUME NEW f \in Formats, NEW c, Scalar(c)
  PROVE  WellFormed(Encode(f, c), f) /\ Encode(f, c) \in Seq(Nat)
<1>1. c \in Codes /\ c \in Nat
  BY ScalarIsCode, CodesAreNat
<1>2. PICK u : u = Encode(f, c)
  OBVIOUS
<1>3. u \in Seq(Nat) /\ Len(u) \in 1 .. 4
  BY <1>1, <1>2, EncodeType
<1>4. Placed(u, u, 0 + 1) /\ 0 + Len(u) = Len(u)
  BY <1>3 DEF Placed
<1>5. Starts(u, f, {0, Len(u)}, 0)
  BY <1>1, <1>2, <1>4 DEF Starts
<1>6. Splits(u, f, {0, Len(u)})
  BY <1>3, <1>5 DEF Splits
<1> QED
  BY <1>2, <1>3, <1>6 DEF WellFormed

LEMMA AsciiScalar ==
  ASSUME NEW f \in Formats, NEW c \in Nat, c < 128
  PROVE  Scalar(c) /\ Encode(f, c) = <<c>> /\ c \in Codes
<1>1. Scalar(c) /\ c \in Codes
  BY SMT DEF Scalar, Surrogate, NonCharacter, Codes
<1>2. Encode(f, c) = <<c>>
  BY SMT DEF Encode
<1> QED
  BY <1>1, <1>2

LEMMA AsciiIsWellFormed ==
  ASSUME NEW f \in Formats, NEW s \in Seq(Nat), \A k \in 1 .. Len(s) : s[k] < 128
  PROVE  WellFormed(s, f)
<1>1. Len(s) \in Nat
  OBVIOUS
<1>2. ASSUME NEW p \in 0 .. Len(s), p < Len(s) PROVE Starts(s, f, 0 .. Len(s), p)
  <2>1. p + 1 \in 1 .. Len(s) /\ p + 1 \in 0 .. Len(s)
    BY <1>1, <1>2
  <2>2. PICK c : c = s[p + 1]
    OBVIOUS
  <2>3. c \in Nat /\ c < 128
    BY <2>1, <2>2
  <2>4. Scalar(c) /\ Encode(f, c) = <<c>> /\ c \in Codes
    BY <2>3, AsciiScalar
  <2>5. Placed(<<c>>, s, p + 1) /\ Len(<<c>>) = 1
    BY <2>1, <2>2, PlaceOne
  <2> QED
    BY <2>1, <2>4, <2>5 DEF Starts
<1>3. Splits(s, f, 0 .. Len(s))
  BY <1>1, <1>2 DEF Splits
<1> QED
  BY <1>3 DEF WellFormed

\* In strict mode every character that is written is a scalar value.
LEMMA WrittenIsScalar ==
  ASSUME Options, char_mode = "strict", NEW p \in 0 .. Len(input), p < Len(input)
  PROVE  WellFormed(Written(p), to) /\ Written(p) \in Seq(Nat)
<1>1. Scalar(replace_char)
  BY SMT DEF Scalar, replace_char, Surrogate, NonCharacter
<1>2. PICK d : d = Ahead(p)
  OBVIOUS
<1>3. from \in Formats /\ to \in Formats /\ IsText(input, from) /\ p + 1 \in 1 .. Len(input)
  BY DEF Options
<1>4. d.error = "none" => Scalar(d.unicode)
  BY <1>2, <1>3, EncodeInvertsDecode DEF Ahead
<1>5. PICK c : c = IF d.error = "none" THEN d.unicode ELSE replace_char
  OBVIOUS
<1>6. Scalar(c)
  BY <1>1, <1>4, <1>5
<1>7. Written(p) = Encode(to, c)
  BY <1>2, <1>5 DEF Written
<1> QED
  BY <1>3, <1>6, <1>7, OneIsWellFormed

NoHalf == char_mode = "strict" => WellFormed(output, to)

LEMMA NoHalfInit == Init => NoHalf
<1> SUFFICES ASSUME Init PROVE NoHalf
  OBVIOUS
<1>1. output = <<>> /\ to \in Formats
  BY DEF Init
<1>2. <<>> \in Seq(Nat) /\ \A k \in 1 .. Len(<<>>) : <<>>[k] < 128
  OBVIOUS
<1> QED
  BY <1>1, <1>2, AsciiIsWellFormed DEF NoHalf

LEMMA NoHalfNext == UInv /\ Texts /\ NoHalf /\ [Next]_vars => NoHalf'
<1> SUFFICES ASSUME UInv, Texts, NoHalf, [Next]_vars, char_mode' = "strict"
             PROVE  WellFormed(output', to')
  BY DEF NoHalf
<1>1. /\ Types /\ Options /\ in_str \in 0 .. Len(input) /\ output \in Seq(Nat)
      /\ from \in Formats /\ to \in Formats
  BY DEF UInv, Types, Texts, Options
<1>2. to' = to /\ char_mode' = char_mode
  BY KeptStep DEF Kept, options, vars
<1>3. WellFormed(output, to)
  BY <1>2 DEF NoHalf
<1>4. CASE UNCHANGED output
  BY <1>2, <1>3, <1>4
<1>5. CASE CopyBlock
  <2>1. BlockAhead /\ output' = output \o Block
    BY <1>5 DEF CopyBlock
  <2>2. PICK b : b = Block
    OBVIOUS
  <2>3. b \in Seq(Nat) /\ DOMAIN b = 1 .. Len(b)
    BY <1>1, <2>1, <2>2, BlockIs
  <2>4. \A k \in 1 .. Len(b) : b[k] < 128
    BY <2>1, <2>2, <2>3 DEF BlockAhead
  <2>5. WellFormed(b, to)
    BY <1>1, <2>3, <2>4, AsciiIsWellFormed
  <2> QED
    BY <1>1, <1>2, <1>3, <2>1, <2>2, <2>3, <2>5, WellFormedJoin
<1>6. CASE Write
  <2>1. in_str < Len(input) /\ output' = output \o Written(in_str)
    BY <1>6, AtPosition DEF Write, Accept, Turn
  <2>2. WellFormed(Written(in_str), to) /\ Written(in_str) \in Seq(Nat)
    BY <1>1, <1>2, <2>1, WrittenIsScalar
  <2> QED
    BY <1>1, <1>2, <1>3, <2>1, <2>2, WellFormedJoin
<1> QED
  BY <1>4, <1>5, <1>6 DEF Next, Finish, StartConversion, Stop, Skip, Count, Overflow,
     CountOverflow, vars

\* In strict mode the output consists of whole scalar values at every moment, whatever
\* the input, the error mode and the buffer.
THEOREM OutputWellFormed == Spec => [](char_mode = "strict" => WellFormed(output, to))
<1>1. Spec => []Texts
  BY UtfInductive, PTL
<1>2. Spec => []NoHalf
  BY <1>1, UtfInductive, NoHalfInit, NoHalfNext, PTL DEF Spec
<1>3. NoHalf => (char_mode = "strict" => WellFormed(output, to))
  BY DEF NoHalf
<1> QED
  BY <1>2, <1>3, PTL

-----------------------------------------------------------------------------
(* Nothing is lost: input and output say the same.                         *)

\* The same scalar value stands at position p of the input and at g[p] of t, and after
\* it come the next positions.
Paired(t, P, g, p) ==
  \E c \in Codes :
    /\ Scalar(c) /\ Placed(Encode(from, c), input, p + 1) /\ Placed(Encode(to, c), t, g[p] + 1)
    /\ p + Len(Encode(from, c)) \in P
    /\ g[p + Len(Encode(from, c))] = g[p] + Len(Encode(to, c))

\* The units of the input from a to m and those of t encode the same scalar values.
Matches(t, P, g, a, m) ==
  /\ a \in 0 .. Len(input) /\ m \in a .. Len(input)
  /\ P \subseteq a .. m /\ a \in P /\ m \in P
  /\ \A p \in P : g[p] \in 0 .. Len(t)
  /\ g[a] = 0 /\ g[m] = Len(t)
  /\ \A p \in P : p < m => g[p] < Len(t) /\ Paired(t, P, g, p)

SameText(t, a, m) == \E P, g : Matches(t, P, g, a, m)

LEMMA SameTextJoin ==
  ASSUME Options, NEW t \in Seq(Nat), NEW u \in Seq(Nat), NEW a, NEW m, NEW n,
         SameText(t, a, m), SameText(u, m, n)
  PROVE  SameText(t \o u, a, n)
<1>1. PICK P, g, R, h : Matches(t, P, g, a, m) /\ Matches(u, R, h, m, n)
  BY DEF SameText
<1>2. PICK Q : Q = P \cup R
  OBVIOUS
<1>3. PICK f : f = [p \in Q |-> IF p < m THEN g[p] ELSE Len(t) + h[p]]
  OBVIOUS
<1>4. /\ a \in Nat /\ m \in Nat /\ n \in Nat /\ a <= m /\ m <= n /\ n <= Len(input)
      /\ Len(input) \in Nat
  BY <1>1 DEF Matches, Options
<1>5. Len(t \o u) = Len(t) + Len(u) /\ Len(t) \in Nat /\ Len(u) \in Nat /\ t \o u \in Seq(Nat)
  OBVIOUS
<1>6. /\ \A p \in P : p \in Nat /\ a <= p /\ p <= m /\ g[p] \in Nat /\ g[p] <= Len(t)
      /\ \A r \in R : r \in Nat /\ m <= r /\ r <= n /\ h[r] \in Nat /\ h[r] <= Len(u)
  BY <1>1, <1>4, <1>5 DEF Matches
<1>7. a \in P /\ m \in P /\ m \in R /\ n \in R /\ g[a] = 0 /\ g[m] = Len(t) /\ h[m] = 0
      /\ h[n] = Len(u)
  BY <1>1 DEF Matches
<1>8. \A p \in P : f[p] = g[p]
  <2> TAKE p \in P
  <2>1. CASE p < m
    BY <1>2, <1>3, <2>1
  <2>2. CASE p = m
    BY <1>2, <1>3, <1>4, <1>5, <1>7, <2>2
  <2> QED
    BY <1>4, <1>6, <2>1, <2>2
<1>9. \A r \in R : f[r] = Len(t) + h[r]
  BY <1>2, <1>3, <1>4, <1>6
<1>10. Q \subseteq a .. n /\ a \in Q /\ n \in Q
  BY <1>2, <1>4, <1>6, <1>7
<1>11. f[a] = 0 /\ f[n] = Len(t \o u)
  BY <1>5, <1>7, <1>8, <1>9
<1>12. \A p \in Q : f[p] \in 0 .. Len(t \o u)
  BY <1>2, <1>5, <1>6, <1>8, <1>9, SMTT(40)
<1>13. ASSUME NEW p \in P, p < m
       PROVE  f[p] < Len(t \o u) /\ Paired(t \o u, Q, f, p)
  <2>1. g[p] < Len(t) /\ Paired(t, P, g, p)
    BY <1>1, <1>13 DEF Matches
  <2>2. f[p] < Len(t \o u)
    BY <1>5, <1>6, <1>8, <2>1
  <2>3. PICK c \in Codes :
          /\ Scalar(c) /\ Placed(Encode(from, c), input, p + 1)
          /\ Placed(Encode(to, c), t, g[p] + 1)
          /\ p + Len(Encode(from, c)) \in P
          /\ g[p + Len(Encode(from, c))] = g[p] + Len(Encode(to, c))
    BY <2>1 DEF Paired
  <2>4. Encode(to, c) \in Seq(Nat) /\ g[p] + 1 \in 1 .. Len(t)
    <3>1. Encode(to, c) \in Seq(Nat)
      BY EncodeType, CodesAreNat DEF Options
    <3>2. g[p] + 1 \in 1 .. Len(t)
      BY <1>5, <1>6, <2>1
    <3> QED
      BY <3>1, <3>2
  <2>5. Placed(Encode(to, c), t \o u, g[p] + 1)
    BY <2>3, <2>4, PlacedStays
  <2>6. Paired(t \o u, Q, f, p)
    BY <1>2, <1>8, <2>3, <2>5 DEF Paired
  <2> QED
    BY <2>2, <2>6
<1>14. ASSUME NEW r \in R, r < n
       PROVE  f[r] < Len(t \o u) /\ Paired(t \o u, Q, f, r)
  <2>1. h[r] < Len(u) /\ Paired(u, R, h, r)
    BY <1>1, <1>14 DEF Matches
  <2>2. f[r] < Len(t \o u)
    BY <1>5, <1>6, <1>9, <2>1
  <2>3. PICK c \in Codes :
          /\ Scalar(c) /\ Placed(Encode(from, c), input, r + 1)
          /\ Placed(Encode(to, c), u, h[r] + 1)
          /\ r + Len(Encode(from, c)) \in R
          /\ h[r + Len(Encode(from, c))] = h[r] + Len(Encode(to, c))
    BY <2>1 DEF Paired
  <2>4. PICK w, q : w = Encode(to, c) /\ q = r + Len(Encode(from, c))
    OBVIOUS
  <2>5. w \in Seq(Nat) /\ Len(w) \in 1 .. 4 /\ h[r] + 1 \in 1 .. Len(u)
    <3>1. w \in Seq(Nat) /\ Len(w) \in 1 .. 4
      BY <2>4, EncodeType, CodesAreNat DEF Options
    <3> QED
      BY <1>5, <1>6, <2>1, <3>1
  <2>6. Placed(w, t \o u, Len(t) + (h[r] + 1))
    BY <2>3, <2>4, <2>5, PlacedShifts
  <2>7. Len(t) + (h[r] + 1) = f[r] + 1
    BY <1>5, <1>6, <1>9
  <2>8. f[q] = f[r] + Len(w)
    <3>1. q \in R /\ h[q] = h[r] + Len(w)
      BY <2>3, <2>4
    <3>2. f[q] = Len(t) + h[q] /\ f[r] = Len(t) + h[r] /\ h[r] \in Nat /\ Len(w) \in Nat
      BY <1>6, <1>9, <2>5, <3>1
    <3> QED
      BY <1>5, <3>1, <3>2
  <2>9. Paired(t \o u, Q, f, r)
    BY <1>2, <2>3, <2>4, <2>6, <2>7, <2>8 DEF Paired
  <2> QED
    BY <2>2, <2>9
<1>15. ASSUME NEW p \in Q, p < n
       PROVE  f[p] < Len(t \o u) /\ Paired(t \o u, Q, f, p)
  <2>1. p \in R \/ (p \in P /\ p < m)
    BY <1>2, <1>4, <1>6, <1>7
  <2> QED
    BY <1>13, <1>14, <1>15, <2>1
<1>16. Matches(t \o u, Q, f, a, n)
  <2>1. a \in 0 .. Len(input) /\ n \in a .. Len(input)
    BY <1>4
  <2> QED
    BY <1>10, <1>11, <1>12, <1>15, <2>1 DEF Matches
<1> QED
  BY <1>16 DEF SameText

LEMMA PlacedWhole ==
  ASSUME NEW u \in Seq(Nat)
  PROVE  Placed(u, u, 0 + 1)
BY DEF Placed

\* One character, and one block of ASCII.
LEMMA OneSameText ==
  ASSUME Options, char_mode = "strict", NEW p \in 0 .. Len(input), p < Len(input),
         Ahead(p).error = "none"
  PROVE  SameText(Written(p), p, After(p))
<1>1. PICK d, w, q : d = Ahead(p) /\ w = Written(p) /\ q = After(p)
  OBVIOUS
<1>2. PICK c : c = d.unicode
  OBVIOUS
<1>3. /\ from \in Formats /\ IsText(input, from) /\ p + 1 \in 1 .. Len(input)
      /\ p \in Nat /\ Len(input) \in Nat
  BY DEF Options
<1>4. /\ Scalar(c) /\ d.input_block = Len(Encode(from, c))
      /\ Placed(Encode(from, c), input, p + 1)
  BY <1>1, <1>2, <1>3, EncodeInvertsDecode DEF Ahead
<1>5. w = Encode(to, c) /\ w \in Seq(Nat) /\ Len(w) \in 1 .. 4
  BY <1>1, <1>2, WrittenType DEF Written
<1>6. q \in 0 .. Len(input) /\ p < q
  BY <1>1, AheadIsSound
<1>7. q = p + Len(Encode(from, c))
  BY <1>1, <1>4 DEF After
<1>8. PICK P, g : P = {p, q} /\ g = [r \in P |-> IF r = p THEN 0 ELSE Len(w)]
  OBVIOUS
<1>9. g[p] = 0 /\ g[q] = Len(w) /\ p \in P /\ q \in P /\ P \subseteq p .. q
  BY <1>3, <1>6, <1>8
<1>10. c \in Codes /\ Placed(w, w, 0 + 1) /\ Len(w) = 0 + Len(w)
  BY <1>4, <1>5, ScalarIsCode, PlacedWhole
<1>11. Paired(w, P, g, p)
  BY <1>4, <1>5, <1>7, <1>9, <1>10 DEF Paired
<1>12. \A r \in P : g[r] \in 0 .. Len(w)
  BY <1>5, <1>8, <1>9
<1>13. \A r \in P : r < q => r = p
  BY <1>6, <1>8
<1>14. Matches(w, P, g, p, q)
  <2>1. q \in p .. Len(input)
    BY <1>3, <1>6
  <2>2. PICK l : l = Len(w)
    OBVIOUS
  <2>3. l \in 1 .. 4 /\ 0 < l
    BY <1>5, <2>2, SMTT(40)
  <2> QED
    BY <1>9, <1>11, <1>12, <1>13, <2>1, <2>2, <2>3 DEF Matches
<1> QED
  BY <1>1, <1>14 DEF SameText

LEMMA BlockSameText ==
  ASSUME Options, NEW a \in 0 .. Len(input), NEW k \in Nat, Plain(a, k),
         NEW b \in Seq(Nat), Len(b) = k, \A j \in 1 .. k : b[j] = input[a + j]
  PROVE  SameText(b, a, a + k)
<1>1. /\ a \in Nat /\ Len(input) \in Nat /\ a + k <= Len(input) /\ input \in Seq(Nat)
      /\ from \in Formats /\ to \in Formats
  BY DEF Options, Plain
<1>2. PICK P, g : P = a .. a + k /\ g = [p \in P |-> p - a]
  OBVIOUS
<1>3. \A p \in P : p \in Nat /\ a <= p /\ p <= a + k /\ g[p] = p - a /\ g[p] \in 0 .. k
  BY <1>1, <1>2
<1>4. a \in P /\ a + k \in P /\ g[a] = 0 /\ g[a + k] = k
  BY <1>1, <1>2, <1>3
<1>5. ASSUME NEW p \in P, p < a + k
      PROVE  g[p] < k /\ Paired(b, P, g, p)
  <2>1. p - a + 1 \in 1 .. k /\ p + 1 \in 1 .. Len(input) /\ a + (p - a + 1) = p + 1
    BY <1>1, <1>3, <1>5
  <2>2. PICK c, j : c = input[p + 1] /\ j = p - a + 1
    OBVIOUS
  <2>3. c \in Nat /\ c < 128 /\ b[p - a + 1] = c
    <3>1. j \in 1 .. k /\ input[a + j] = c
      BY <2>1, <2>2
    <3>2. c \in Nat
      BY <1>1, <2>1, <2>2, SMTT(40)
    <3> QED
      BY <2>2, <3>1, <3>2 DEF Plain
  <2>4. Scalar(c) /\ Encode(from, c) = <<c>> /\ Encode(to, c) = <<c>> /\ c \in Codes
    BY <1>1, <2>3, AsciiScalar
  <2>5. Placed(<<c>>, input, p + 1) /\ Len(<<c>>) = 1
    BY <1>1, <2>1, <2>2, PlaceOne
  <2>6. Placed(<<c>>, b, p - a + 1)
    BY <2>1, <2>3, PlaceOne
  <2>7. p + 1 \in P /\ g[p] < k /\ g[p + 1] = g[p] + 1 /\ g[p] = p - a
    BY <1>1, <1>2, <1>3, <1>5
  <2> QED
    BY <2>4, <2>5, <2>6, <2>7 DEF Paired
<1>6. Matches(b, P, g, a, a + k)
  BY <1>1, <1>2, <1>3, <1>4, <1>5 DEF Matches
<1> QED
  BY <1>6 DEF SameText

\* Nothing has been read and nothing written.
LEMMA NothingSameText ==
  ASSUME Options
  PROVE  SameText(<<>>, 0, 0)
<1>1. Plain(0, 0) /\ 0 \in 0 .. Len(input) /\ 0 + 0 = 0
  BY DEF Plain, Options
<1>2. <<>> \in Seq(Nat) /\ Len(<<>>) = 0 /\ \A j \in 1 .. 0 : <<>>[j] = input[0 + j]
  OBVIOUS
<1> QED
  BY <1>1, <1>2, BlockSameText

LEMMA SameTextKept ==
  ASSUME Kept
  PROVE  \A t, a, m : SameText(t, a, m)' <=> SameText(t, a, m)
BY DEF Kept, options, SameText, Matches, Paired

\* A conversion in strict mode without an error so far.
FaithfulSoFar ==
  char_mode = "strict" /\ pc \in {"converting", "done"} /\ result.error = {} =>
    SameText(output, 0, in_str) /\ (pc = "done" => in_str = Len(input))

LEMMA OverflowSeen ==
  ASSUME Types, in_str < Len(input), in_str \in 0 .. Len(input), Overflow \/ CountOverflow
  PROVE  "out_overflow" \in result'.error
<1>1. PICK r : r = ReadFrom(result, in_str)
  OBVIOUS
<1>2. r \in Result
  BY <1>1, ReadFields DEF Types
<1>3. CASE Overflow
  <2>1. result' = [r EXCEPT !.error = @ \cup {"out_overflow"}, !.status = "error"]
    BY <1>1, <1>3, AtPosition DEF Overflow
  <2>2. result'.error = r.error \cup {"out_overflow"}
    BY <1>2, <2>1 DEF Result
  <2> QED
    BY <2>2
<1>4. CASE CountOverflow
  <2>1. PICK n : n = r.need_output_block_count + Len(OutUnits)
    OBVIOUS
  <2>2. result' = [r EXCEPT !.need_output_block_count = n,
                            !.error = @ \cup {"out_overflow"}, !.status = "partial"]
    BY <1>1, <1>2, <1>4, <2>1, AtPosition DEF CountOverflow, Result
  <2>3. result'.error = r.error \cup {"out_overflow"}
    BY <1>2, <2>2 DEF Result
  <2> QED
    BY <2>3
<1> QED
  BY <1>3, <1>4

LEMMA FaithfulInit == Init => FaithfulSoFar
BY DEF Init, FaithfulSoFar

LEMMA FaithfulNext ==
  UInv /\ Texts /\ FaithfulSoFar /\ [Next]_vars => FaithfulSoFar'
<1> SUFFICES ASSUME UInv, Texts, FaithfulSoFar, [Next]_vars,
                    char_mode' = "strict", pc' \in {"converting", "done"}, result'.error = {}
             PROVE  SameText(output, 0, in_str)' /\ (pc' = "done" => in_str' = Len(input'))
  BY DEF FaithfulSoFar
<1>1. /\ Types /\ Options /\ in_str \in 0 .. Len(input) /\ output \in Seq(Nat)
      /\ result \in Result
  BY DEF UInv, Types, Texts, Options
<1>2. /\ Kept /\ char_mode = "strict" /\ input' = input
      /\ \A t, a, m : SameText(t, a, m)' <=> SameText(t, a, m)
  <2>1. Kept
    BY KeptStep DEF Kept, vars
  <2> QED
    BY <2>1, SameTextKept DEF Kept, options
<1>3. SUFFICES SameText(output', 0, in_str') /\ (pc' = "done" => in_str' = Len(input))
  BY <1>2
<1>4. CASE UNCHANGED vars
  BY <1>2, <1>4 DEF vars, FaithfulSoFar
<1>5. CASE CopyBlock
  <2>1. /\ BlockAhead /\ output' = output \o Block /\ in_str' = in_str + Len(Block)
        /\ pc' = pc /\ pc \in {"counting", "converting"}
    BY <1>5 DEF CopyBlock
  <2>2. PICK b, k : b = Block /\ k = BlockLength(from)
    OBVIOUS
  <2>3. b \in Seq(Nat) /\ Len(b) = k /\ Plain(in_str, k) /\ k \in Nat
    BY <1>1, <2>1, <2>2, BlockIs, BlockLengths DEF Options
  <2>4. \A j \in 1 .. k : b[j] = input[in_str + j]
    <3>1. b = SubSeq(input, in_str + 1, in_str + k) /\ in_str + k <= Len(input)
      BY <2>1, <2>2 DEF Block, BlockAhead
    <3>2. in_str \in Nat /\ input \in Seq(Nat)
      BY <1>1 DEF Options
    <3> QED
      BY <2>3, <3>1, <3>2, Stretch
  <2>5. SameText(b, in_str, in_str + k)
    BY <1>1, <2>3, <2>4, BlockSameText
  <2>6. result.error = {} /\ pc = "converting"
    BY <1>1, <1>5, <2>1 DEF CopyBlock, Result
  <2>7. SameText(output, 0, in_str)
    BY <1>2, <2>6 DEF FaithfulSoFar
  <2> QED
    BY <1>1, <2>1, <2>2, <2>3, <2>5, <2>6, <2>7, SameTextJoin
<1>6. CASE Finish
  BY <1>2, <1>6 DEF Finish, Return, FaithfulSoFar
<1>7. CASE StartConversion
  <2>1. output' = <<>> /\ in_str' = 0 /\ pc' = "converting"
    BY <1>7 DEF StartConversion, UInv, Counted, NoBuffer
  <2> QED
    BY <1>1, <2>1, NothingSameText
<1>8. CASE Write
  <2>1. /\ in_str < Len(input) /\ output' = output \o Written(in_str)
        /\ in_str' = After(in_str) /\ pc' = pc /\ pc \in {"counting", "converting"}
        /\ result'.error = ReadFrom(result, in_str).error
    <3>1. PICK r : r = ReadFrom(result, in_str)
      OBVIOUS
    <3>2. result'.error = r.error
      BY <1>8, <3>1, AtPosition DEF Write
    <3> QED
      BY <1>8, <3>1, <3>2, AtPosition DEF Write, Accept, Turn, Continue
  <2>2. Ahead(in_str).error = "none" /\ result.error = {}
    BY <1>1, <2>1 DEF ReadFrom, Result
  <2>3. pc = "converting" /\ SameText(output, 0, in_str)
    BY <1>2, <2>1, <2>2 DEF FaithfulSoFar
  <2>4. SameText(Written(in_str), in_str, After(in_str))
    BY <1>1, <1>2, <2>1, <2>2, OneSameText
  <2>5. Written(in_str) \in Seq(Nat)
    BY <1>1, <2>1, WrittenType
  <2> QED
    BY <1>1, <2>1, <2>3, <2>4, <2>5, SameTextJoin
<1>9. CASE Stop \/ Skip
  <2>1. result' = ReadFrom(result, in_str) /\ Ahead(in_str).error # "none"
    BY <1>9, AtPosition DEF Stop, Skip, Malformed
  <2> QED
    BY <1>1, <2>1 DEF ReadFrom, Result
<1>10. CASE Overflow \/ CountOverflow
  <2>1. "out_overflow" \in result'.error
    BY <1>1, <1>10, OverflowSeen DEF Overflow, CountOverflow, Accept, Turn
  <2> QED
    BY <2>1
<1>11. CASE Count
  BY <1>11 DEF Count, Accept, Turn, Continue, UInv, Converting, Buffer
<1> QED
  BY <1>4, <1>5, <1>6, <1>7, <1>8, <1>9, <1>10, <1>11 DEF Next

\* A conversion in strict mode that ends without an error loses nothing: input and output
\* are the forms of the same scalar values, one after the other.
THEOREM NothingLost ==
  Spec =>
    [](pc = "done" /\ char_mode = "strict" /\ result.error = {} => SameText(output, 0, Len(input)))
<1>1. Spec => []Texts
  BY UtfInductive, PTL
<1>2. Spec => []FaithfulSoFar
  BY <1>1, UtfInductive, FaithfulInit, FaithfulNext, PTL DEF Spec
<1>3. FaithfulSoFar =>
        (pc = "done" /\ char_mode = "strict" /\ result.error = {} => SameText(output, 0, Len(input)))
  BY DEF FaithfulSoFar
<1> QED
  BY <1>2, <1>3, PTL

-----------------------------------------------------------------------------
(* The readings of a text, from the last unit to the first.                *)

\* What the reading from unit i on is, if read has those of the later units.
ReadFirst(f, s, read, i) ==
  IF i > Len(s) THEN <<>>
  ELSE LET d == Decode(f, s, i)
       IN IF d.error = "none" THEN <<d.unicode>> \o read[i + d.input_block] ELSE <<-1>>

IsReading(f, s, read) == read = [i \in 1 .. Len(s) + 4 |-> ReadFirst(f, s, read, i)]

\* Whatever is read is a character of one to four units.
LEMMA DecodeIsSound ==
  ASSUME char_mode \in CharModes, NEW f \in Formats, NEW s, IsText(s, f), NEW i \in 1 .. Len(s)
  PROVE  Decode(f, s, i).input_block \in 1 .. 4 /\ Decode(f, s, i).unicode \in Codes
<1>1. s \in Seq(Nat) /\ f \in {8, 16, 32} /\ \A k \in 1 .. Len(s) : s[k] \in Codes
  BY UnitsAreCodes DEF IsText, Formats
<1>2. Sound(FromUtf32(s, i), i, s)
  BY <1>1, JudgedIsSound DEF FromUtf32
<1>3. Sound(Decode(f, s, i), i, s)
  BY <1>1, <1>2, Utf8IsSound, Utf16IsSound DEF Decode
<1> QED
  BY <1>3 DEF Sound

\* There is such a function: it is made from the end of the text.
LEMMA ReadingExists ==
  ASSUME char_mode \in CharModes, NEW f \in Formats, NEW s, IsText(s, f)
  PROVE  \E read : IsReading(f, s, read)
<1> DEFINE n == Len(s)
           V == Seq(Codes \cup {-1})
           H == [1 .. n + 4 -> V]
           first == [i \in 1 .. n + 4 |-> <<>>]
           step == [k \in 1 .. n |-> [h \in H |->
                      [h EXCEPT ![n + 1 - k] = ReadFirst(f, s, h, n + 1 - k)]]]
<1>1. n \in Nat
  BY DEF IsText
<1>2. ASSUME NEW h \in H, NEW i \in 1 .. n + 4 PROVE ReadFirst(f, s, h, i) \in V
  <2>1. CASE i > n
    BY <2>1 DEF ReadFirst
  <2>2. CASE ~(i > n)
    <3>1. PICK d : d = Decode(f, s, i)
      OBVIOUS
    <3>2. i \in 1 .. n
      BY <1>1, <2>2
    <3>3. d.input_block \in 1 .. 4 /\ d.unicode \in Codes
      BY <3>1, <3>2, DecodeIsSound
    <3>4. i + d.input_block \in 1 .. n + 4
      BY <1>1, <3>2, <3>3
    <3>5. h[i + d.input_block] \in V /\ <<d.unicode>> \in V /\ <<-1>> \in V
      BY <3>3, <3>4
    <3>6. ReadFirst(f, s, h, i) =
            IF d.error = "none" THEN <<d.unicode>> \o h[i + d.input_block] ELSE <<-1>>
      BY <2>2, <3>1 DEF ReadFirst
    <3>7. \A a \in V, b \in V : a \o b \in V
      OBVIOUS
    <3> HIDE DEF V
    <3> QED
      BY <3>5, <3>6, <3>7
  <2> QED
    BY <2>1, <2>2
<1>3. first \in H
  OBVIOUS
<1>4. step \in [1 .. n -> [H -> H]] /\
      \A k \in 1 .. n, h \in H :
        step[k][h] = [h EXCEPT ![n + 1 - k] = ReadFirst(f, s, h, n + 1 - k)]
  <2>1. ASSUME NEW k \in 1 .. n, NEW h \in H
        PROVE  [h EXCEPT ![n + 1 - k] = ReadFirst(f, s, h, n + 1 - k)] \in H
    <3>1. n + 1 - k \in 1 .. n + 4
      BY <1>1
    <3>2. ReadFirst(f, s, h, n + 1 - k) \in V
      BY <1>2, <3>1
    <3> HIDE DEF V
    <3> QED
      BY <3>2
  <2> HIDE DEF H
  <2> QED
    BY <2>1
<1> HIDE DEF step, first
<1>5. PICK r : IsRun(r, n, H, first, step)
  <2> HIDE DEF H, n
  <2> QED
    BY <1>1, <1>3, <1>4, BoundedRecursion
<1>6. r \in [0 .. n -> H] /\ r[0] = first /\ \A i \in 1 .. n : r[i] = step[i][r[i - 1]]
  <2> HIDE DEF H, n
  <2> QED
    BY <1>5 DEF IsRun
<1> DEFINE T == {k \in Nat : \A i \in 1 .. n + 4 :
                               i > n - k => r[k][i] = ReadFirst(f, s, r[k], i)}
<1>7. 0 \in T
  BY <1>1, <1>6 DEF first, ReadFirst
<1>8. ASSUME NEW k \in Nat, k < n, k \in T PROVE k + 1 \in T
  <2> DEFINE j == n - k
             old == r[k]
             new == r[k + 1]
  <2>1. k + 1 \in 1 .. n /\ (k + 1) - 1 = k /\ k \in 0 .. n /\ n + 1 - (k + 1) = j
        /\ j \in 1 .. n /\ n - (k + 1) = j - 1
    BY <1>1, <1>8
  <2>2. old \in H /\ new = [old EXCEPT ![j] = ReadFirst(f, s, old, j)]
    <3> HIDE DEF H, j
    <3> QED
      BY <1>4, <1>6, <2>1
  <2>3. \A i \in 1 .. n + 4 : i > j => old[i] = ReadFirst(f, s, old, i)
    BY <1>8
  <2> HIDE DEF old, new, j, T
  <2>4. \A i \in 1 .. n + 4 : i # j => new[i] = old[i]
    BY <2>2
  <2>5. new[j] = ReadFirst(f, s, old, j)
    BY <1>1, <2>1, <2>2
  <2>6. ASSUME NEW i \in 1 .. n + 4, i >= j
        PROVE  ReadFirst(f, s, new, i) = ReadFirst(f, s, old, i)
    <3>1. CASE i > n
      BY <3>1 DEF ReadFirst
    <3>2. CASE ~(i > n)
      <4>1. PICK d : d = Decode(f, s, i)
        OBVIOUS
      <4>2. i \in 1 .. n
        BY <1>1, <3>2
      <4>3. d.input_block \in 1 .. 4
        BY <4>1, <4>2, DecodeIsSound
      <4>4. i + d.input_block \in 1 .. n + 4 /\ i + d.input_block # j
        BY SMTT(30), <1>1, <2>1, <2>6, <4>2, <4>3
      <4>5. new[i + d.input_block] = old[i + d.input_block]
        BY <2>4, <4>4
      <4> QED
        BY <4>1, <4>5 DEF ReadFirst
    <3> QED
      BY <3>1, <3>2
  <2>7. ASSUME NEW i \in 1 .. n + 4, i > n - (k + 1)
        PROVE  new[i] = ReadFirst(f, s, new, i)
    <3>1. i = j \/ i > j
      BY <1>1, <2>1, <2>7
    <3>2. CASE i = j
      BY <2>1, <2>5, <2>6, <3>2
    <3>3. CASE i > j
      <4>1. i # j /\ i >= j
        BY <1>1, <2>1, <3>3
      <4> QED
        BY <2>3, <2>4, <2>6, <3>3, <4>1
    <3> QED
      BY <3>1, <3>2, <3>3
  <2> QED
    BY <2>7 DEF new, T
<1>9. n \in T
  <2>1. \A k \in 0 .. n : k \in T
    <3> HIDE DEF T, n
    <3> QED
      BY <1>1, <1>7, <1>8, BoundedInduction
  <2> HIDE DEF T
  <2> QED
    BY <1>1, <2>1
<1> DEFINE q == r[n]
<1>10. q \in H /\ \A i \in 1 .. n + 4 : q[i] = ReadFirst(f, s, q, i)
  <2>1. q \in H
    <3> HIDE DEF H, n
    <3> QED
      BY <1>1, <1>6
  <2>2. ASSUME NEW i \in 1 .. n + 4 PROVE q[i] = ReadFirst(f, s, q, i)
    <3>1. i > n - n
      BY <1>1
    <3> QED
      BY <1>9, <3>1
  <2> QED
    BY <2>1, <2>2
<1> HIDE DEF q
<1>11. q = [i \in 1 .. n + 4 |-> ReadFirst(f, s, q, i)]
  BY <1>10
<1> QED
  BY <1>11 DEF IsReading

\* Reading is the first of such readings.
LEMMA ReadingIs ==
  ASSUME char_mode \in CharModes, NEW f \in Formats, NEW s, IsText(s, f)
  PROVE  \E read : IsReading(f, s, read) /\ Reading(f, s) = read[1]
<1> DEFINE Is(p) == p = [i \in 1 .. Len(s) + 4 |->
                           IF i > Len(s) THEN <<>>
                           ELSE LET d == Decode(f, s, i)
                                IN IF d.error = "none" THEN <<d.unicode>> \o p[i + d.input_block]
                                   ELSE <<-1>>]
           F == CHOOSE p : Is(p)
<1>1. \A p : Is(p) <=> IsReading(f, s, p)
  BY Zenon DEF IsReading, ReadFirst
<1>2. PICK p : Is(p)
  BY <1>1, ReadingExists
<1>3. Is(F)
  <2> HIDE DEF Is
  <2> QED
    BY <1>2, Zenon
<1>4. Reading(f, s) = F[1]
  BY Zenon DEF Reading
<1> HIDE DEF F, Is
<1> QED
  BY <1>1, <1>3, <1>4

\* The characters of r, each in format f, stand one after the other in s from p to the end.
Spells(r, f, s, p) ==
  \E cut \in [0 .. Len(r) -> Nat] :
    /\ cut[0] = p /\ cut[Len(r)] = Len(s)
    /\ \A k \in 1 .. Len(r) :
         /\ Placed(Encode(f, r[k]), s, cut[k - 1] + 1)
         /\ cut[k] = cut[k - 1] + Len(Encode(f, r[k]))

\* One more character at the front.
LEMMA SpellsOneMore ==
  ASSUME NEW c \in Codes, NEW r \in Seq(Codes), NEW f \in Formats, NEW s, NEW p \in Nat,
         Placed(Encode(f, c), s, p + 1), Spells(r, f, s, p + Len(Encode(f, c)))
  PROVE  <<c>> \o r \in Seq(Codes) /\ Spells(<<c>> \o r, f, s, p)
<1> DEFINE t == <<c>> \o r
           n == Len(r)
<1>1. t \in Seq(Codes) /\ n \in Nat /\ Len(t) = n + 1 /\ t[1] = c
      /\ \A k \in 1 .. n : t[k + 1] = r[k]
  OBVIOUS
<1>2. PICK cut \in [0 .. n -> Nat] :
        /\ cut[0] = p + Len(Encode(f, c)) /\ cut[n] = Len(s)
        /\ \A k \in 1 .. n : /\ Placed(Encode(f, r[k]), s, cut[k - 1] + 1)
                             /\ cut[k] = cut[k - 1] + Len(Encode(f, r[k]))
  BY DEF Spells
<1> HIDE DEF t, n
<1> DEFINE new == [k \in 0 .. n + 1 |-> IF k = 0 THEN p ELSE cut[k - 1]]
<1>3. new \in [0 .. n + 1 -> Nat] /\ new[0] = p /\ \A k \in 0 .. n : new[k + 1] = cut[k]
  BY <1>1
<1> HIDE DEF new
<1>4. new[n + 1] = Len(s)
  BY <1>1, <1>2, <1>3
<1>5. ASSUME NEW k \in 1 .. n + 1
      PROVE  /\ Placed(Encode(f, t[k]), s, new[k - 1] + 1)
             /\ new[k] = new[k - 1] + Len(Encode(f, t[k]))
  <2>1. CASE k = 1
    <3>1. new[1] = cut[0] /\ 1 - 1 = 0
      BY <1>1, <1>3
    <3> QED
      BY <1>1, <1>2, <1>3, <2>1, <3>1
  <2>2. CASE k # 1
    <3>1. PICK j \in 1 .. n : k = j + 1 /\ k - 1 = j
      <4>1. k - 1 \in 1 .. n /\ k = (k - 1) + 1
        BY <1>1, <2>2
      <4> QED
        BY <4>1
    <3>2. new[k] = cut[j] /\ new[k - 1] = cut[j - 1] /\ t[k] = r[j]
      <4>1. j - 1 \in 0 .. n /\ (j - 1) + 1 = j /\ j \in 0 .. n
        BY <1>1
      <4> QED
        BY <1>1, <1>3, <3>1, <4>1
    <3> QED
      BY <1>2, <3>2
  <2> QED
    BY <2>1, <2>2
<1>6. Spells(t, f, s, p)
  <2>1. new \in [0 .. Len(t) -> Nat] /\ new[0] = p /\ new[Len(t)] = Len(s)
    BY <1>1, <1>3, <1>4
  <2>2. \A k \in 1 .. Len(t) : /\ Placed(Encode(f, t[k]), s, new[k - 1] + 1)
                               /\ new[k] = new[k - 1] + Len(Encode(f, t[k]))
    BY <1>1, <1>5
  <2> QED
    BY <2>1, <2>2, Zenon DEF Spells
<1> QED
  BY <1>1, <1>6 DEF t

\* The same characters stand in u, in format h, and in s, in format f: g says where those
\* of s start that start at the places P of u.
Abreast(h, u, f, s, P, g) ==
  /\ P \subseteq 0 .. Len(u) /\ 0 \in P /\ Len(u) \in P
  /\ \A p \in P : g[p] \in 0 .. Len(s)
  /\ g[0] = 0 /\ g[Len(u)] = Len(s)
  /\ \A p \in P : p < Len(u) =>
       /\ g[p] < Len(s)
       /\ \E c \in Codes :
            /\ Scalar(c) /\ Placed(Encode(h, c), u, p + 1) /\ Placed(Encode(f, c), s, g[p] + 1)
            /\ p + Len(Encode(h, c)) \in P
            /\ g[p + Len(Encode(h, c))] = g[p] + Len(Encode(f, c))

\* Reading s gives the characters of u.
LEMMA ReadingSpells ==
  ASSUME char_mode \in CharModes, NEW f \in Formats, NEW h \in Formats,
         NEW s, IsText(s, f), NEW u \in Seq(Nat), NEW P, NEW g, Abreast(h, u, f, s, P, g)
  PROVE  Reading(f, s) \in Seq(Codes) /\ Spells(Reading(f, s), h, u, 0)
<1>1. PICK read : IsReading(f, s, read) /\ Reading(f, s) = read[1]
  BY ReadingIs
<1>2. s \in Seq(Nat) /\ Len(s) \in Nat /\ Len(u) \in Nat
  BY DEF IsText
<1> DEFINE Good(p) == read[g[p] + 1] \in Seq(Codes) /\ Spells(read[g[p] + 1], h, u, p)
           T == {k \in Nat : \A p \in P : p + k >= Len(u) => Good(p)}
<1>3. \A p \in P : p \in 0 .. Len(u) /\ g[p] \in 0 .. Len(s)
  BY DEF Abreast
<1>4. \A i \in 1 .. Len(s) + 4 : read[i] = ReadFirst(f, s, read, i)
  BY <1>1 DEF IsReading
<1>5. Good(Len(u))
  <2>1. g[Len(u)] = Len(s)
    BY DEF Abreast
  <2>2. Len(s) + 1 \in 1 .. Len(s) + 4 /\ Len(s) + 1 > Len(s)
    BY <1>2
  <2>3. read[Len(s) + 1] = <<>>
    BY <1>4, <2>2 DEF ReadFirst
  <2>4. Spells(<<>>, h, u, Len(u))
    <3> DEFINE cut == [k \in 0 .. 0 |-> Len(u)]
    <3>1. cut \in [0 .. 0 -> Nat] /\ cut[0] = Len(u) /\ Len(<<>>) = 0
      BY <1>2
    <3> HIDE DEF cut
    <3> QED
      BY <3>1 DEF Spells
  <2> QED
    BY <2>1, <2>3, <2>4
<1>6. 0 \in T
  <2>1. \A p \in P : p + 0 >= Len(u) => p = Len(u)
    BY <1>2, <1>3
  <2> HIDE DEF Good
  <2> QED
    BY <1>5, <2>1
<1>7. ASSUME NEW k \in Nat, k \in T PROVE k + 1 \in T
  <2> SUFFICES ASSUME NEW p \in P, p + (k + 1) >= Len(u) PROVE Good(p)
    BY <1>7
  <2>1. CASE p = Len(u)
    <3> HIDE DEF Good
    <3> QED
      BY <1>5, <2>1
  <2>2. CASE p # Len(u)
    <3>1. p \in Nat /\ p < Len(u) /\ g[p] \in Nat
      BY <1>2, <1>3, <2>2
    <3>2. g[p] < Len(s)
      BY <3>1 DEF Abreast
    <3>3. PICK c \in Codes :
            /\ Scalar(c) /\ Placed(Encode(h, c), u, p + 1) /\ Placed(Encode(f, c), s, g[p] + 1)
            /\ p + Len(Encode(h, c)) \in P
            /\ g[p + Len(Encode(h, c))] = g[p] + Len(Encode(f, c))
      BY <3>1 DEF Abreast
    <3>4. PICK m, l : m = Len(Encode(h, c)) /\ l = Len(Encode(f, c))
      OBVIOUS
    <3>5. m \in 1 .. 4 /\ l \in 1 .. 4
      BY <3>4, EncodeType, CodesAreNat
    <3>6. PICK r : r = read[g[p + m] + 1]
      OBVIOUS
    <3>7. r \in Seq(Codes) /\ Spells(r, h, u, p + m)
      <4>1. p + m \in P /\ (p + m) + k >= Len(u)
        <5>1. p + m \in P
          BY <3>3, <3>4
        <5>2. p + (k + 1) >= Len(u) /\ m >= 1
          BY <3>5
        <5>3. m \in Int /\ p \in Int /\ Len(u) \in Int
          BY <1>2, <3>1, <3>5
        <5> QED
          BY <5>1, <5>2, <5>3
      <4> QED
        BY <1>7, <3>6, <4>1
    <3>8. g[p] + 1 \in 1 .. Len(s) /\ g[p] + 1 \in 1 .. Len(s) + 4 /\ ~(g[p] + 1 > Len(s))
      BY SMTT(30), <1>2, <3>1, <3>2
    <3>9. Decode(f, s, g[p] + 1) = Char(l, c, "none")
      BY <1>2, <3>3, <3>4, <3>8, DecodeInvertsEncode
    <3>10. read[g[p] + 1] = <<c>> \o r
      <4>1. Char(l, c, "none").error = "none" /\ Char(l, c, "none").unicode = c
            /\ Char(l, c, "none").input_block = l
        BY DEF Char
      <4>2. (g[p] + 1) + l = g[p + m] + 1
        BY SMTT(30), <3>1, <3>3, <3>4, <3>5
      <4>3. ReadFirst(f, s, read, g[p] + 1) = <<c>> \o read[(g[p] + 1) + l]
        BY <3>8, <3>9, <4>1 DEF ReadFirst
      <4> QED
        BY <1>4, <3>6, <3>8, <4>2, <4>3
    <3>11. <<c>> \o r \in Seq(Codes) /\ Spells(<<c>> \o r, h, u, p)
      BY <3>1, <3>3, <3>4, <3>7, SpellsOneMore
    <3> QED
      BY <3>10, <3>11
  <2> QED
    BY <2>1, <2>2
<1>8. Good(0)
  <2>1. \A k \in Nat : k \in T
    <3> HIDE DEF T
    <3> QED
      BY <1>6, <1>7, NaturalInduction
  <2>2. Len(u) \in T
    <3> HIDE DEF T
    <3> QED
      BY <1>2, <2>1
  <2>3. 0 \in P /\ 0 + Len(u) >= Len(u)
    BY <1>2 DEF Abreast
  <2> HIDE DEF Good
  <2> QED
    BY <2>2, <2>3
<1>9. g[0] + 1 = 1
  BY DEF Abreast
<1> QED
  BY <1>1, <1>8, <1>9

\* The first units of a text, and those that follow.
LEMMA FirstUnits ==
  ASSUME NEW s \in Seq(Nat), NEW w \in Seq(Nat), NEW a \in Nat,
         a + Len(w) <= Len(s), \A i \in 1 .. Len(w) : s[a + i] = w[i]
  PROVE  SubSeq(s, 1, a) \o w = SubSeq(s, 1, a + Len(w))
<1> DEFINE x == SubSeq(s, 1, a)
           y == SubSeq(s, 1, a + Len(w))
           z == x \o w
<1>1. Len(w) \in Nat /\ a <= Len(s) /\ a + Len(w) \in Nat /\ 0 \in Nat
      /\ \A n \in Nat : 0 + n = n /\ 0 + 1 = 1
  OBVIOUS
<1>2. x \in Seq(Nat) /\ Len(x) = a /\ \A i \in 1 .. a : x[i] = s[i]
  <2>1. /\ SubSeq(s, 0 + 1, 0 + a) \in Seq(Nat) /\ Len(SubSeq(s, 0 + 1, 0 + a)) = a
        /\ \A j \in 1 .. a : SubSeq(s, 0 + 1, 0 + a)[j] = s[0 + j]
    BY <1>1, Stretch
  <2> QED
    BY <1>1, <2>1
<1>3. y \in Seq(Nat) /\ Len(y) = a + Len(w) /\ \A i \in 1 .. a + Len(w) : y[i] = s[i]
  <2> DEFINE b == a + Len(w)
  <2>0. b \in Nat /\ b <= Len(s)
    OBVIOUS
  <2> HIDE DEF b
  <2>1. /\ SubSeq(s, 0 + 1, 0 + b) \in Seq(Nat) /\ Len(SubSeq(s, 0 + 1, 0 + b)) = b
        /\ \A j \in 1 .. b : SubSeq(s, 0 + 1, 0 + b)[j] = s[0 + j]
    BY <1>1, <2>0, Stretch
  <2>2. \A j \in 1 .. b : 0 + j = j
    OBVIOUS
  <2> QED
    BY <1>1, <2>0, <2>1, <2>2 DEF b
<1> HIDE DEF x, y
<1>4. z \in Seq(Nat) /\ Len(z) = a + Len(w)
  BY <1>2, Joined
<1>5. \A i \in 1 .. a : z[i] = x[i]
  BY <1>1, <1>2
<1>6. \A i \in 1 .. Len(w) : z[a + i] = w[i]
  <2> TAKE i \in 1 .. Len(w)
  <2>1. \A c \in Seq(Nat), d \in Seq(Nat), n \in Nat :
          n \in 1 .. Len(d) => (c \o d)[Len(c) + n] = d[n]
    OBVIOUS
  <2>2. i \in Nat /\ i \in 1 .. Len(w) /\ w \in Seq(Nat)
    OBVIOUS
  <2>3. (x \o w)[Len(x) + i] = w[i]
    BY <1>2, <2>1, <2>2, Zenon
  <2> QED
    BY <1>2, <2>3, Zenon
<1> HIDE DEF z
<1>7. ASSUME NEW i \in 1 .. a + Len(w) PROVE z[i] = y[i]
  <2>1. CASE i <= a
    <3>1. i \in 1 .. a
      BY <2>1
    <3> QED
      BY <1>2, <1>3, <1>5, <3>1
  <2>2. CASE ~(i <= a)
    <3>1. PICK j \in 1 .. Len(w) : i = a + j
      <4>1. i - a \in 1 .. Len(w) /\ i = a + (i - a)
        BY <1>1, <2>2
      <4> QED
        BY <4>1
    <3> QED
      BY <1>3, <1>6, <3>1
  <2> QED
    BY <2>1, <2>2
<1>8. z = y
  BY <1>3, <1>4, <1>7
<1> QED
  BY <1>8 DEF x, y, z

\* What is spelt by the characters of r is what their forms make when they are joined.
LEMMA SpellsJoined ==
  ASSUME NEW r \in Seq(Codes), NEW f \in Formats, NEW s \in Seq(Nat), Spells(r, f, s, 0)
  PROVE  FlattenSeq([k \in DOMAIN r |-> Encode(f, r[k])]) = s
<1> DEFINE n == Len(r)
           m == [k \in DOMAIN r |-> Encode(f, r[k])]
<1>1. n \in Nat /\ DOMAIN r = 1 .. n /\ \A k \in 1 .. n : r[k] \in Codes
  OBVIOUS
<1>2. m \in Seq(Seq(Nat)) /\ Len(m) = n /\ \A k \in 1 .. n : m[k] = Encode(f, r[k])
  <2>1. \A k \in 1 .. n : Encode(f, r[k]) \in Seq(Nat)
    BY <1>1, EncodeType, CodesAreNat
  <2> QED
    BY <1>1, <2>1
<1> HIDE DEF m, n
<1>3. PICK cut \in [0 .. n -> Nat] :
        /\ cut[0] = 0 /\ cut[n] = Len(s)
        /\ \A k \in 1 .. n : /\ Placed(m[k], s, cut[k - 1] + 1)
                             /\ cut[k] = cut[k - 1] + Len(m[k])
  BY <1>2 DEF Spells, n
<1>4. CASE n = 0
  <2>1. m = <<>> /\ s = <<>>
    BY <1>2, <1>3, <1>4
  <2> QED
    BY <1>2, <1>4, <2>1 DEF FlattenSeq, m
<1>5. CASE n # 0
  <2> DEFINE V == Seq(Nat)
             step == [k \in 1 .. n |-> [v \in V |-> v \o m[k]]]
             Is(p) == p = [i \in 1 .. Len(m) |-> IF i = 1 THEN m[i] ELSE p[i - 1] \o m[i]]
             F == CHOOSE p : Is(p)
  <2>1. \A k \in 1 .. n, v \in V : v \o m[k] \in V
    <3>1. \A k \in 1 .. n : m[k] \in V
      BY <1>2
    <3>2. \A v \in V, w \in V : v \o w \in V
      OBVIOUS
    <3> HIDE DEF V
    <3> QED
      BY <3>1, <3>2
  <2>2. step \in [1 .. n -> [V -> V]] /\ <<>> \in V
        /\ \A k \in 1 .. n, v \in V : step[k][v] = v \o m[k]
    <3>1. <<>> \in V
      OBVIOUS
    <3> HIDE DEF V
    <3> QED
      BY <2>1, <3>1
  <2> HIDE DEF step
  <2>3. PICK p : IsRun(p, n, V, <<>>, step)
    <3> HIDE DEF V
    <3> QED
      BY <1>1, <2>2, BoundedRecursion
  <2>4. p \in [0 .. n -> V] /\ p[0] = <<>> /\ \A k \in 1 .. n : p[k] = p[k - 1] \o m[k]
    <3>1. p \in [0 .. n -> V] /\ p[0] = <<>> /\ \A k \in 1 .. n : p[k] = step[k][p[k - 1]]
      BY <2>3 DEF IsRun
    <3>2. \A k \in 1 .. n : p[k - 1] \in V
      <4>1. \A k \in 1 .. n : k - 1 \in 0 .. n
        BY <1>1
      <4> HIDE DEF V
      <4> QED
        BY <3>1, <4>1
    <3> HIDE DEF V
    <3> QED
      BY <2>2, <3>1, <3>2
  <2>5. Is([i \in 1 .. n |-> p[i]])
    <3> DEFINE q == [i \in 1 .. n |-> p[i]]
    <3>1. ASSUME NEW i \in 1 .. n PROVE p[i] = IF i = 1 THEN m[i] ELSE q[i - 1] \o m[i]
      <4>1. CASE i = 1
        <5>1. m[1] \in Seq(Nat) /\ 1 - 1 = 0 /\ 1 \in 1 .. n
          BY <1>1, <1>2, <1>5
        <5>2. p[1] = <<>> \o m[1]
          BY <2>4, <5>1
        <5> QED
          BY <4>1, <5>1, <5>2
      <4>2. CASE i # 1
        <5>1. i - 1 \in 1 .. n
          BY <1>1, <4>2
        <5>2. q[i - 1] = p[i - 1]
          BY <5>1
        <5> HIDE DEF q
        <5> QED
          BY <2>4, <4>2, <5>2
      <4> QED
        BY <4>1, <4>2
    <3> QED
      BY <1>2, <3>1
  <2>6. Is(F)
    <3> HIDE DEF Is
    <3> QED
      BY <2>5, Zenon
  <2>7. FlattenSeq(m) = F[n]
    BY <1>2, <1>5 DEF FlattenSeq
  <2> HIDE DEF F
  <2>8. F = [i \in 1 .. n |-> IF i = 1 THEN m[i] ELSE F[i - 1] \o m[i]]
    BY <1>2, <2>6
  <2> DEFINE T == {k \in Nat : k # 0 => F[k] = SubSeq(s, 1, cut[k]) /\ cut[k] <= Len(s)}
  <2>9. 0 \in T
    OBVIOUS
  <2>10. ASSUME NEW k \in Nat, k < n, k \in T PROVE k + 1 \in T
    <3>1. k + 1 \in 1 .. n /\ (k + 1) - 1 = k /\ k \in 0 .. n /\ k + 1 # 0 /\ k + 1 \in Nat
      BY <1>1, <2>10
    <3>2. PICK w, a : w = m[k + 1] /\ a = cut[k]
      OBVIOUS
    <3>3. w \in Seq(Nat) /\ a \in Nat /\ cut[k + 1] = a + Len(w) /\ Placed(w, s, a + 1)
      BY SMTT(30), <1>2, <1>3, <3>1, <3>2
    <3>4. a + Len(w) <= Len(s) /\ \A i \in 1 .. Len(w) : s[a + i] = w[i]
      <4>1. (a + 1) + Len(w) - 1 = a + Len(w) /\ \A i \in 1 .. Len(w) : (a + 1) + i - 1 = a + i
        BY <3>3
      <4> QED
        BY <3>3, <4>1 DEF Placed
    <3>5. F[k + 1] = SubSeq(s, 1, a) \o w
      <4>1. CASE k = 0
        <5>1. F[1] = w
          BY <1>1, <1>5, <2>8, <3>2, <4>1
        <5>2. a = 0 /\ SubSeq(s, 1, 0) = <<>> /\ <<>> \o w = w
          BY <1>3, <3>2, <3>3, <4>1
        <5>3. k + 1 = 1
          BY <4>1
        <5> QED
          BY <5>1, <5>2, <5>3, Zenon
      <4>2. CASE k # 0
        <5>1. F[k + 1] = F[k] \o w
          <6>1. k + 1 # 1
            BY <3>1, <4>2
          <6>2. F[k + 1] = F[(k + 1) - 1] \o m[k + 1]
            BY <2>8, <3>1, <6>1, Zenon
          <6> QED
            BY <3>1, <3>2, <6>2, Zenon
        <5>2. F[k] = SubSeq(s, 1, a)
          BY <2>10, <3>2, <4>2
        <5> QED
          BY <5>1, <5>2
      <4> QED
        BY <4>1, <4>2
    <3>6. SubSeq(s, 1, a) \o w = SubSeq(s, 1, a + Len(w))
      BY <3>3, <3>4, FirstUnits
    <3> QED
      BY <3>1, <3>3, <3>4, <3>5, <3>6
  <2>11. F[n] = SubSeq(s, 1, cut[n])
    <3>1. \A k \in 0 .. n : k \in T
      <4> HIDE DEF T
      <4> QED
        BY <1>1, <2>9, <2>10, BoundedInduction
    <3>2. n \in T
      <4> HIDE DEF T
      <4> QED
        BY <1>1, <3>1
    <3> QED
      BY <1>5, <3>2
  <2>12. SubSeq(s, 1, Len(s)) = s
    OBVIOUS
  <2> QED
    BY <1>3, <2>7, <2>11, <2>12 DEF m
<1> QED
  BY <1>4, <1>5

-----------------------------------------------------------------------------
(* Output that is read back.                                               *)

\* A well-formed text is read without an error.
LEMMA WellFormedReads ==
  ASSUME char_mode \in CharModes, NEW f \in Formats, NEW s, IsText(s, f), WellFormed(s, f)
  PROVE  Reading(f, s) \in Seq(Codes)
<1>1. PICK P : Splits(s, f, P)
  BY DEF WellFormed
<1> DEFINE g == [p \in P |-> p]
<1>2. s \in Seq(Nat) /\ Len(s) \in Nat
  BY DEF IsText
<1>3. P \subseteq 0 .. Len(s) /\ 0 \in P /\ Len(s) \in P
  BY <1>1 DEF Splits
<1>4. \A p \in P : g[p] = p
  OBVIOUS
<1> HIDE DEF g
<1>5. \A p \in P : p < Len(s) =>
        \E c \in Codes : /\ Scalar(c) /\ Placed(Encode(f, c), s, p + 1)
                         /\ p + Len(Encode(f, c)) \in P
  BY <1>1 DEF Splits, Starts
<1>6. Abreast(f, s, f, s, P, g)
  BY <1>2, <1>3, <1>4, <1>5, Zenon DEF Abreast
<1> QED
  BY <1>2, <1>6, ReadingSpells

\* In strict mode the output can be read to its end at every moment, whatever the input,
\* the error mode and the buffer.
THEOREM OutputIsRead == Spec => []OutputIsWellFormed
<1>1. Spec => []Texts
  BY UtfInductive, PTL
<1>2. Spec => [](char_mode = "strict" => WellFormed(output, to))
  BY OutputWellFormed
<1>3. UInv /\ Texts /\ (char_mode = "strict" => WellFormed(output, to)) => OutputIsWellFormed
  <2> SUFFICES ASSUME UInv, Texts, WellFormed(output, to), char_mode = "strict"
               PROVE  -1 \notin Range(Reading(to, output))
    BY DEF OutputIsWellFormed
  <2>1. to \in Formats /\ char_mode \in CharModes /\ IsText(output, to)
    BY DEF UInv, Types, Texts, Options
  <2>2. PICK r : r = Reading(to, output)
    OBVIOUS
  <2>3. r \in Seq(Codes)
    BY <2>1, <2>2, WellFormedReads
  <2>4. \A k \in DOMAIN r : r[k] \in Codes
    BY <2>3
  <2>5. -1 \notin Codes
    BY CodesAreNat
  <2> QED
    BY <2>2, <2>4, <2>5 DEF Range
<1> QED
  BY <1>1, <1>2, <1>3, UtfInductive, PTL

\* What strict mode converts without an error is converted back to the input.
THEOREM ConvertsBack == Spec => []RoundTrip
<1>1. Spec => []Texts
  BY UtfInductive, PTL
<1>2. UInv /\ Texts
      /\ (pc = "done" /\ char_mode = "strict" /\ result.error = {}
            => SameText(output, 0, Len(input)))
      => RoundTrip
  <2> SUFFICES ASSUME UInv, Texts, SameText(output, 0, Len(input))
               PROVE  FlattenSeq([k \in DOMAIN Reading(to, output) |->
                                    Encode(from, Reading(to, output)[k])]) = input
    BY DEF RoundTrip
  <2>1. /\ to \in Formats /\ from \in Formats /\ char_mode \in CharModes
        /\ IsText(output, to) /\ input \in Seq(Nat)
    BY DEF UInv, Types, Texts, Options
  <2>2. PICK P, g : Matches(output, P, g, 0, Len(input))
    BY DEF SameText
  <2>3. Abreast(from, input, to, output, P, g)
    BY <2>2, Zenon DEF Matches, Abreast, Paired
  <2>4. Reading(to, output) \in Seq(Codes) /\ Spells(Reading(to, output), from, input, 0)
    BY <2>1, <2>3, ReadingSpells
  <2> QED
    BY <2>1, <2>4, SpellsJoined
<1> QED
  BY <1>1, <1>2, NothingLost, UtfInductive, PTL

=============================================================================
