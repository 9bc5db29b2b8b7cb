------------------------------- MODULE MCUtf --------------------------------
(* Characters at the ends of their ranges, malformed and truncated forms, and runs *)
(* of ASCII as long as a block; blocks of 4 bytes instead of 8.                    *)
EXTENDS Utf

Utf8Pieces ==
  {<<65, 66, 67, 68>>,                          \* ASCII
   <<194, 128>>, <<223, 191>>,                  \* U+80, U+7FF
   <<224, 160, 128>>, <<239, 191, 189>>,        \* U+800, U+FFFD
   <<240, 144, 128, 128>>,                      \* U+10000
   <<193, 191>>, <<224, 159, 191>>, <<240, 143, 191, 191>>, \* too long for U+7F, U+7FF, U+FFFF
   <<237, 160, 128>>,                           \* a surrogate
   <<239, 183, 144>>, <<244, 143, 191, 191>>,   \* non-characters
   <<244, 144, 128, 128>>,                      \* above U+10FFFF
   <<128>>, <<255>>, <<226, 130>>}              \* no start, no start, truncated

Utf16Pieces ==
  {<<65, 66>>, <<127>>, <<128>>, <<2047>>, <<2048>>, <<65533>>,
   <<55296, 56320>>, <<56319, 57341>>,          \* U+10000, U+10FFFD
   <<64976>>, <<55359, 57342>>,                 \* non-characters
   <<55296>>, <<56320>>}                        \* half pairs

Utf32Pieces ==
  {<<65>>, <<127>>, <<128>>, <<2047>>, <<2048>>, <<65533>>, <<65536>>, <<1114109>>,
   <<55296>>, <<57343>>, <<64976>>, <<131070>>, <<1114112>>}

AllPieces == [f \in Formats |-> CASE f = 8 -> Utf8Pieces [] f = 16 -> Utf16Pieces
                                  [] f = 32 -> Utf32Pieces]
=============================================================================
