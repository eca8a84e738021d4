------------------------------ MODULE Strings ------------------------------
(***************************************************************************)
(* The strings of a program: the primitives of rts/idris_rts.c (540-737)   *)
(* on STRING and STROFFSET cells, and the string buffer of                 *)
(* rts/idris_stdfgn.c.  A STROFFSET shares the bytes of a STRING from an   *)
(* offset on; a cell is never written to once it is made.                  *)
(*                                                                         *)
(* Whether there is room in the heap is a choice: one collection leaves    *)
(* the old bytes readable.  The second one, which an allocation may need,  *)
(* does not: that is NeverStale of Collector.                              *)
(* No string holds the character NUL.                                      *)
(***************************************************************************)
EXTENDS Utf8, Text

CONSTANTS
    Root,        \* the places where the program keeps strings
    Chars,       \* the characters it uses, as code points
    Encoding,    \* external: the bytes of each of them, by the UTF-8 standard
    Ints,        \* offsets and lengths it asks substr for
    MaxLens,     \* maximum lengths it makes string buffers with
    NoRoomFor,   \* what may find the heap full: "tail", "substr"
    Nothing,     \* the value without a buffer
    MaxBytes     \* bound: bytes of a string

ASSUME StringsAssumption ==
    /\ Chars \subseteq Nat \ {0}
    /\ NoRoomFor \subseteq {"tail", "substr"}
    /\ MaxLens \subseteq Nat
    /\ MaxBytes \in Nat

\* The standard: the first byte tells how many there are, and the rest of each is
\* six more bits of the number, of which no fewer bytes would do.
OneByte(c, e)    == Len(e) = 1 /\ e[1] \in 0 .. 127 /\ c = e[1]
TwoBytes(c, e)   == Len(e) = 2 /\ e[1] \in 192 .. 223 /\ c >= 128
                    /\ c = 64 * (e[1] - 192) + (e[2] - 128)
ThreeBytes(c, e) == Len(e) = 3 /\ e[1] \in 224 .. 239 /\ c >= 2048
                    /\ c = 4096 * (e[1] - 224) + 64 * (e[2] - 128) + (e[3] - 128)
FourBytes(c, e)  == Len(e) = 4 /\ e[1] \in 240 .. 247 /\ c >= 65536 /\ c <= 1114111
                    /\ c = 262144 * (e[1] - 240) + 4096 * (e[2] - 128) + 64 * (e[3] - 128)
                           + (e[4] - 128)
Standard(c, e) ==
    /\ OneByte(c, e) \/ TwoBytes(c, e) \/ ThreeBytes(c, e) \/ FourBytes(c, e)
    /\ \A j \in 2 .. Len(e) : 128 <= e[j] /\ e[j] <= 191

ASSUME EncodingAssumption ==
    \A c \in Chars : Encoding[c] \in Seq(Nat) /\ Standard(c, Encoding[c])

ASSUME AskedAssumption == Ints \subseteq Int

VARIABLES value,    \* Root -> the cells
          buffer,   \* StrBuffer: the bytes allocated and those in use
          fate,     \* "run", or "outside": bytes that are not the string's
          text,     \* history: what the strings are to the program
          built     \* history: and what is in the buffer

vars == <<value, buffer, fate, text, built>>

ISSTR(v) == v.kind = "STRING"
CT_STRING(bytes) == [kind |-> "STRING", str |-> bytes]

\* GETSTR up to its NUL; its length is GETSTRLEN.
GETSTR(v) == IF ISSTR(v) THEN v.str ELSE From(v.base.str, v.offset)
GETSTRLEN(v) == Len(GETSTR(v))

Init == /\ value = [x \in Root |-> CT_STRING(<<>>)]
        /\ buffer = Nothing
        /\ fate = "run"
        /\ text = [x \in Root |-> <<>>]
        /\ built = <<>>

Running == fate = "run"

Becomes(x, v) ==
    /\ Running
    /\ value' = [value EXCEPT ![x] = v]
    /\ UNCHANGED <<buffer, fate, built>>

Made(x, bytes) == Len(bytes) <= MaxBytes /\ Becomes(x, CT_STRING(bytes))

Outside ==
    /\ Running
    /\ fate' = "outside"
    /\ UNCHANGED <<value, buffer, built>>

\* The program takes it that x is t now.
Means(x, t) == text' = [text EXCEPT ![x] = t]

----------------------------------------------------------------------------
(* Strings from strings.                                                    *)

idris_strCons(x, c, y) ==
    /\ Made(x, (IF c < 128 THEN <<c>> ELSE idris_utf8_fromChar(c)) \o GETSTR(value[y]))
    /\ Means(x, <<c>> \o text[y])

idris_concat(x, y, z) ==
    /\ Made(x, GETSTR(value[y]) \o GETSTR(value[z]))
    /\ Means(x, text[y] \o text[z])

idris_strRev(x, y) ==
    /\ Made(x, idris_utf8_rev(GETSTR(value[y])))
    /\ Means(x, Reverse(text[y]))

Chained(v) == v                                         \* mutant of RootOf
RootOf(v) == IF ISSTR(v) THEN v ELSE v.base

OffsetOf(v) == IF ISSTR(v) THEN 0 ELSE v.offset

\* There is room for a StrOffset: share the bytes of the string, or of the
\* string that it shares itself.
Share(x, v, num) ==
    LET offset == OffsetOf(v) + idris_utf8_findOffset(GETSTR(v), num)
    IN  IF offset > OffsetOf(v) + GETSTRLEN(v) THEN Outside
        ELSE Becomes(x, [kind |-> "STROFFSET", base |-> RootOf(v), offset |-> offset])

\* There is none: MKSTR of what follows the first character.
CopyTail(x, v) ==
    IF GETSTRLEN(v) = 0 THEN Outside
    ELSE Made(x, From(GETSTR(v), idris_utf8_charlen(GETSTR(v))))

idris_strShift(x, v, num, caller) ==
    \/ Share(x, v, num)
    \/ caller \in NoRoomFor /\ CopyTail(x, v)

\* strTail of the Prelude refuses the empty string.
idris_strTail(x, y) ==
    /\ GETSTRLEN(value[y]) > 0
    /\ idris_strShift(x, value[y], 1, "tail")
    /\ Means(x, Tail(text[y]))

\* offset_val + length_val >= GETSTRLEN(str), as size_t: what is below 0 is
\* large.
Suffix(o, l, v) == o + l >= GETSTRLEN(v) \/ o + l < 0

CharsAreBytes(s, o, l) == SubSeq(s, o + 1, o + l)       \* mutant of Middle
Middle(s, o, l) ==
    LET rest == From(s, idris_utf8_advance(s, o))
    IN  SubSeq(rest, 1, idris_utf8_advance(rest, l))

idris_substr(x, o, l, y) ==
    /\ IF Suffix(o, l, value[y]) THEN idris_strShift(x, value[y], o, "substr")
       ELSE Made(x, Middle(GETSTR(value[y]), o, l))
    /\ Means(x, Substring(text[y], o, l))

MKSTR(x) == Made(x, <<>>) /\ Means(x, <<>>)

----------------------------------------------------------------------------
(* Questions, which change nothing.                                         *)

idris_strlen(v) == idris_utf8_strlen(GETSTR(v))

\* strHead is the index 0.
idris_strIndex(v, i) == idris_utf8_index(GETSTR(v), i)

\* strcmp: the first bytes that differ decide, as unsigned numbers; the NUL is
\* below all.
SignedLess(s, t) ==                                     \* mutant of strcmpLess
    \E i \in 0 .. Len(s) :
       /\ ToInt(Byte(s, i)) < ToInt(Byte(t, i))
       /\ \A j \in 0 .. i - 1 : Byte(s, j) = Byte(t, j)
strcmpLess(s, t) ==
    \E i \in 0 .. Len(s) :
       /\ Byte(s, i) < Byte(t, i)
       /\ \A j \in 0 .. i - 1 : Byte(s, j) = Byte(t, j)

idris_strlt(v, w) == strcmpLess(GETSTR(v), GETSTR(w))
idris_streq(v, w) == GETSTR(v) = GETSTR(w)

----------------------------------------------------------------------------
(* The string buffer: malloc(len), and a NUL after what was added.          *)

idris_makeStringBuffer(len) ==
    /\ Running
    /\ buffer = Nothing
    /\ IF len = 0 THEN fate' = "outside" /\ UNCHANGED buffer
       ELSE buffer' = [size |-> len, string |-> <<>>] /\ UNCHANGED fate
    /\ built' = <<>>
    /\ UNCHANGED <<value, text>>

\* The program adds no more than the buffer is for.
idris_addToString(y) ==
    /\ Running
    /\ buffer # Nothing
    /\ LET string == buffer.string \o GETSTR(value[y])
       IN  /\ Len(string) <= buffer.size
           /\ IF Len(string) + 1 > buffer.size THEN fate' = "outside" /\ UNCHANGED buffer
              ELSE buffer' = [buffer EXCEPT !.string = string] /\ UNCHANGED fate
    /\ built' = built \o text[y]
    /\ UNCHANGED <<value, text>>

idris_getString(x) ==
    /\ Running
    /\ buffer # Nothing
    /\ value' = [value EXCEPT ![x] = CT_STRING(buffer.string)]
    /\ Means(x, built)
    /\ buffer' = Nothing
    /\ built' = <<>>
    /\ UNCHANGED fate

Next == \E x, y \in Root :
    \/ MKSTR(x)
    \/ \E c \in Chars : idris_strCons(x, c, y)
    \/ \E z \in Root : idris_concat(x, y, z)
    \/ idris_strRev(x, y)
    \/ idris_strTail(x, y)
    \/ \E o, l \in Ints : idris_substr(x, o, l, y)
    \/ \E len \in MaxLens : idris_makeStringBuffer(len)
    \/ idris_addToString(y)
    \/ idris_getString(x)

Spec == Init /\ [][Next]_vars

----------------------------------------------------------------------------
(* Properties.                                                              *)

\* A string buffer holds no more than was allocated for it, with its NUL.  "In
\* theory, at most one step here!" (idris_rts.c:650): the base of a STROFFSET is
\* a STRING and not a STROFFSET, and the offset is where a character of the base
\* starts, or its end.
TypeOK ==
    /\ fate \in {"run", "outside"}
    /\ buffer # Nothing => Len(buffer.string) < buffer.size
    /\ \A x \in Root : ~ISSTR(value[x]) =>
          LET base == value[x].base IN
          /\ ISSTR(base)
          /\ value[x].offset \in Starts(base.str) \cup {Len(base.str)}

\* Each string is the encoding of the text the program made, however its bytes
\* are shared and wherever characters have several bytes.
Encoded(t) == FlattenSeq([k \in DOMAIN t |-> Encoding[t[k]]])
TextKept == fate = "run" => \A x \in Root : GETSTR(value[x]) = Encoded(text[x])

\* What the program asks of its strings is answered about their characters: the
\* length, each character, and the order of characters and not of bytes.
AnswersRight ==
    fate = "run" => \A x, y \in Root :
       /\ idris_strlen(value[x]) = Len(text[x])
       /\ \A i \in DOMAIN text[x] : idris_strIndex(value[x], i - 1) = text[x][i]
       /\ idris_strlt(value[x], value[y]) <=> Before(text[x], text[y])
       /\ idris_streq(value[x], value[y]) <=> text[x] = text[y]

\* What is outside is asked for: behind the end of a string, or in a buffer that
\* is filled up.
\* Prelude/Strings.idr, substr: "If this is beyond the end of the string, the
\* function returns the empty string."
NeverOutside == fate # "outside"
=============================================================================
