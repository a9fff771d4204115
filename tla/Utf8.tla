-------------------------------- MODULE Utf8 --------------------------------
(***************************************************************************)
(* sanitizeUtf8 of RnsshBridge.hpp: the output of a command becomes a      *)
(* JavaScript string only if it is valid UTF-8, so that every byte that    *)
(* starts no valid sequence is replaced by U+FFFD.  The second half is the *)
(* definition of UTF-8 it is compared with (Unicode, table 3-7).           *)
(***************************************************************************)
EXTENDS Integers, Sequences

Byte == 0..255
Continuation == 128..191

\* How many bytes must follow a lead byte; nothing starts with any other byte.
Need(c) ==
    CASE c \in 0..127   -> 0
      [] c \in 194..223 -> 1
      [] c \in 224..239 -> 2
      [] c \in 240..244 -> 3
      [] OTHER -> -1

\* The six low bits of each continuation byte below the bits of the lead byte.
CodePoint(b) ==
    CASE Len(b) = 1 -> b[1]
      [] Len(b) = 2 -> (b[1] % 32) * 64 + (b[2] % 64)
      [] Len(b) = 3 -> (b[1] % 16) * 4096 + (b[2] % 64) * 64 + (b[3] % 64)
      [] OTHER -> (b[1] % 8) * 262144 + (b[2] % 64) * 4096 + (b[3] % 64) * 64 + (b[4] % 64)

\* No overlong form, no surrogate, nothing above U+10FFFF.
InRange(need, cp) ==
    /\ need = 2 => cp >= 2048
    /\ need = 3 => 65536 <= cp /\ cp <= 1114111
    /\ ~(55296 <= cp /\ cp <= 57343)

\* The bytes b are one sequence that is copied.
Accepts(b) ==
    /\ Len(b) > 0
    /\ Len(b) = Need(b[1]) + 1
    /\ \A k \in 2..Len(b) : b[k] \in Continuation
    /\ InRange(Need(b[1]), CodePoint(b))

Replacement == <<239, 191, 189>>

\* One scan from left to right; a byte that starts nothing valid costs itself only.
Sanitize(data) ==
    LET out[i \in 1..(Len(data) + 1)] ==
          IF i > Len(data) THEN <<>>
          ELSE LET need == Need(data[i])
                   b == SubSeq(data, i, i + need)
               IN IF need >= 0 /\ i + need <= Len(data) /\ Accepts(b)
                  THEN b \o out[i + need + 1]
                  ELSE Replacement \o out[i + 1]
    IN out[1]

----------------------------------------------------------------------------
(* The reference *)

WellFormed(b) ==
    \/ Len(b) = 1 /\ b[1] \in 0..127
    \/ Len(b) = 2 /\ b[1] \in 194..223 /\ b[2] \in Continuation
    \/ /\ Len(b) = 3
       /\ \/ b[1] = 224 /\ b[2] \in 160..191
          \/ b[1] \in (225..236 \union {238, 239}) /\ b[2] \in Continuation
          \/ b[1] = 237 /\ b[2] \in 128..159
       /\ b[3] \in Continuation
    \/ /\ Len(b) = 4
       /\ \/ b[1] = 240 /\ b[2] \in 144..191
          \/ b[1] \in 241..243 /\ b[2] \in Continuation
          \/ b[1] = 244 /\ b[2] \in 128..143
       /\ b[3] \in Continuation /\ b[4] \in Continuation

Valid(data) ==
    LET from[i \in 1..(Len(data) + 1)] ==
          \/ i > Len(data)
          \/ \E j \in i..Len(data) :
               j < i + 4 /\ WellFormed(SubSeq(data, i, j)) /\ from[j + 1]
    IN from[1]

\* The characters below 128, in order.
Ascii(data) ==
    LET from[i \in 1..(Len(data) + 1)] ==
          IF i > Len(data) THEN <<>>
          ELSE IF data[i] < 128 THEN <<data[i]>> \o from[i + 1] ELSE from[i + 1]
    IN from[1]

\* A text repairs data if it is valid, is data itself where data was valid, and
\* keeps every ASCII character in its place among the others.
Repairs(text, data) ==
    /\ Valid(text)
    /\ Valid(data) => text = data
    /\ Ascii(text) = Ascii(data)
=============================================================================
