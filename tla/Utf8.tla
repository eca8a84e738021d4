-------------------------------- MODULE Utf8 --------------------------------
(***************************************************************************)
(* rts/idris_utf8.c: the functions on UTF-8 that end at a NUL.  A char* is *)
(* the sequence of the bytes before the NUL; positions count from 0.       *)
(***************************************************************************)
EXTENDS Integers, Sequences, FiniteSets, SequencesExt

CONSTANT SignedChar     \* TRUE on x86: a char is -128 .. 127

ASSUME CharAssumption == SignedChar \in BOOLEAN

Byte(s, i) == IF i < Len(s) THEN s[i + 1] ELSE 0
From(s, n) == SubSeq(s, n + 1, Len(s))

\* (c & 0xc0) == 0x80
Continues(c) == c \div 64 = 2
Starts(s) == {i \in 0 .. Len(s) - 1 : ~Continues(Byte(s, i))}

\* The first position from p on that does not continue a character.
Over(s, p) == CHOOSE q \in p .. Len(s) :
                 /\ ~Continues(Byte(s, q))
                 /\ \A i \in p .. q - 1 : Continues(Byte(s, i))

idris_utf8_strlen(s) == Cardinality(Starts(s))

ToInt(c) == IF SignedChar /\ c > 127 THEN c - 256 ELSE c
Invalid(c) == ToInt(c) > 244 \/ ToInt(c) \in {192, 193}

idris_utf8_charlen(s) ==
    IF Byte(s, 0) < 128 \/ Invalid(Byte(s, 0)) THEN 1 ELSE Over(s, 1)

\* The result may lie behind the NUL: charlen of the empty string is 1.
idris_utf8_findOffset(s, n) ==
    LET offset[i \in 0 .. n] ==
          IF i = 0 THEN 0
          ELSE LET o == offset[i - 1] IN o + idris_utf8_charlen(From(s, o))
    IN  IF n > 0 THEN offset[n] ELSE 0

\* After n starts of characters, or at the end, and then over the rest of one.
idris_utf8_advance(s, n) ==
    LET passed(p) == Cardinality({i \in Starts(s) : i < p})
        at == CHOOSE p \in 0 .. Len(s) :
                /\ p = Len(s) \/ passed(p) >= n
                /\ \A i \in 0 .. p - 1 : passed(i) < n
    IN  Over(s, at)

\* How many bytes the first byte of a character announces, and its bits.
LeadWidth(c) == CASE c < 128 -> 1 [] c \in 192 .. 223 -> 2 [] c \in 224 .. 239 -> 3
                  [] c \in 240 .. 247 -> 4 [] c \in 248 .. 251 -> 5 [] c \in 252 .. 253 -> 6
                  [] OTHER -> 0
Above == <<256, 32, 16, 8, 4, 2>>                       \* the lead bits are below it
LeadBits(c) == IF LeadWidth(c) = 0 THEN 0 ELSE c % Above[LeadWidth(c)]

\* init is read from s[1], wherever the character is.
idris_utf8_index(s, idx) ==
    LET i == idris_utf8_advance(s, idx)
        c == Byte(s, i)
        bytes == IF c >= 128 /\ Invalid(Byte(s, 1)) THEN 1 ELSE LeadWidth(c)
        top[n \in 1 .. bytes] ==
          IF n = 1 THEN (IF Invalid(Byte(s, 1)) /\ c >= 128 THEN ToInt(c) ELSE LeadBits(c))
          ELSE 64 * top[n - 1] + (Byte(s, i + n - 1) % 64)
    IN  IF bytes = 0 THEN 0 ELSE top[bytes]

\* The two, three and four bytes of a code point; nothing for other numbers.
Low(x, unit) == 128 + ((x \div unit) % 64)
idris_utf8_fromChar(x) ==
    IF x < 128 THEN <<x>>
    ELSE IF x <= 2047 THEN <<192 + (x \div 64), Low(x, 1)>>
    ELSE IF x <= 65535 THEN <<224 + (x \div 4096), Low(x, 64), Low(x, 1)>>
    ELSE IF x <= 1114111 THEN <<240 + (x \div 262144), Low(x, 4096), Low(x, 64), Low(x, 1)>>
    ELSE <<>>

\* reverse_char: the bytes of every character are turned around in place.
FirstOf(s, i) == CHOOSE j \in 0 .. i :
                    /\ j = 0 \/ ~Continues(Byte(s, j))
                    /\ \A k \in j + 1 .. i : Continues(Byte(s, k))
CharsTurned(s) == [i \in DOMAIN s |->
                     LET first == FirstOf(s, i - 1)
                         last == Over(s, first + 1) - 1
                     IN  Byte(s, first + last - (i - 1))]
idris_utf8_rev(s) == Reverse(CharsTurned(s))
=============================================================================
