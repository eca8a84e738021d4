------------------------------ MODULE Buffers ------------------------------
(***************************************************************************)
(* Data.Buffer: blocks of bytes (rts/idris_buffer.c) and the records that   *)
(* libs/base/Data/Buffer.idr keeps about them.  A block is the sequence of  *)
(* its bytes, of W8 bits; a location counts from 0.  Locations and lengths  *)
(* are ints whose sums have room in an int.                                 *)
(***************************************************************************)
EXTENDS Words

Size(b) == Len(b)
Stored(b, loc, bytes) ==
    [i \in DOMAIN b |-> IF i > loc /\ i <= loc + Len(bytes) THEN bytes[i - loc] ELSE b[i]]
Loaded(b, loc, n) == SubSeq(b, loc + 1, loc + n)

idris_newBuffer(n) == [i \in 1 .. n |-> 0]

\* What memcpy can copy, something or nothing.  Only the room for it is looked at:
\* from outside of the source, or with a negative length, it leaves anything.
Inside(b, start, n) == n = 0 \/ (n > 0 /\ start >= 0 /\ start + n <= Size(b))
Clobbered(b) == [i \in DOMAIN b |-> Undefined]

HasRoom(len, loc, b) == loc >= 0 /\ loc + len <= Size(b)
idris_copyBuffer(from, start, len, to, loc) ==
    IF ~HasRoom(len, loc, to) THEN to
    ELSE IF Inside(from, start, len) THEN Stored(to, loc, Loaded(from, start, len))
    ELSE Clobbered(to)

idris_setBufferByte(b, loc, byte) ==
    IF loc >= 0 /\ loc < Size(b) THEN Stored(b, loc, <<byte>>) ELSE b
idris_getBufferByte(b, loc) ==
    IF loc >= 0 /\ loc < Size(b) THEN b[loc + 1] ELSE 0

\* An int is stored with its low byte first, and loaded from a sum in an int.
Last == Bytes(W32) - 1
OneTooMany(b, loc) == loc >= 0 /\ loc + Last <= Size(b)     \* mutant of HasInt
HasInt(b, loc) == loc >= 0 /\ loc + Last < Size(b)
IntBytes(n) == [k \in 1 .. Bytes(W32) |-> (n \div Pow(2, W8 * (k - 1))) % Pow(2, W8)]
idris_setBufferInt(b, loc, n) ==
    IF HasInt(b, loc) THEN Stored(b, loc, IntBytes(n)) ELSE b
idris_getBufferInt(b, loc) ==
    IF HasInt(b, loc) THEN Sign(W32, peek(W32, b, loc)) ELSE 0

\* strlen: a String is stored up to its first NUL.
BeforeNul(str) ==
    SubSeq(str, 1, CHOOSE n \in 0 .. Len(str) : /\ n = Len(str) \/ str[n + 1] = 0
                                               /\ \A i \in 1 .. n : str[i] # 0)
idris_setBufferString(b, loc, str) ==
    IF HasRoom(Len(BeforeNul(str)), loc, b) THEN Stored(b, loc, BeforeNul(str)) ELSE b
idris_getBufferString(b, loc, len) ==
    IF ~HasRoom(len, loc, b) THEN <<>>
    ELSE IF len < 0 THEN <<Undefined>> ELSE Loaded(b, loc, len)

----------------------------------------------------------------------------
(* Files.  fread gives what is left of the input.                           *)

idris_readBuffer(b, loc, max, input) ==
    IF loc >= 0 /\ loc < Size(b)
    THEN LET room == IF loc + max > Size(b) THEN Size(b) - loc ELSE max
             n == IF room > Len(input) THEN Len(input) ELSE room
         IN  [buf |-> Stored(b, loc, SubSeq(input, 1, n)), read |-> n]
    ELSE [buf |-> b, read |-> 0]

CutAtEnd(b, loc, len) == IF loc + len > Size(b) THEN Size(b) - loc ELSE len
idris_writeBuffer(b, loc, len) ==
    IF loc >= 0 /\ loc < Size(b) THEN Loaded(b, loc, CutAtEnd(b, loc, len)) ELSE <<>>

\* readBufferFromFile and writeBufferToFile move the location along.
readBufferFromFile(r, max, input) ==
    LET done == idris_readBuffer(r.buf, r.location, max, input)
    IN  [buf |-> done.buf, location |-> r.location + done.read]
written(r, max) ==
    LET maxwrite == Size(r.buf) - r.location IN IF maxwrite < max THEN maxwrite ELSE max
writeBufferToFile(r, max) == [r EXCEPT !.location = @ + written(r, max)]
resetBuffer(r) == [r EXCEPT !.location = 0]

\* 0 .. len bytes are kept, the rest are 0.
resizeBuffer(b, newsize) ==
    idris_copyBuffer(b, 0, IF newsize < Size(b) THEN newsize ELSE Size(b),
                     idris_newBuffer(newsize), 0)

----------------------------------------------------------------------------
(* Properties of a buffer, for a module that has some.                      *)

Changed(b, c) == {i - 1 : i \in {j \in DOMAIN b : b[j] # c[j]}}

\* Whatever is stored at a location is loaded from it and nothing around it
\* changes; out of bounds nothing changes and 0 is loaded.
StoredIsLoaded(b, n) ==
    \A loc \in -2 .. Size(b) + 2 :
       LET now == idris_setBufferInt(b, loc, n)
       IN  IF loc \in 0 .. Size(b) - Bytes(W32)
           THEN /\ idris_getBufferInt(now, loc) = Sign(W32, n % Pow(2, W32))
                /\ Changed(b, now) \subseteq loc .. loc + Last
                /\ \A k \in 0 .. Last : idris_getBufferByte(now, loc + k) = IntBytes(n)[k + 1]
           ELSE now = b /\ idris_getBufferInt(b, loc) = 0

\* A copy of what is in bounds is what setting a string to it is; a copy to where
\* there is no room changes nothing, whatever is copied; and resizing there and
\* back loses only what had no room.
CopiesArrive(b, c) ==
    /\ \A start, len \in -1 .. Size(b) + 1, loc \in -1 .. Size(c) + 1 :
          LET now == idris_copyBuffer(b, start, len, c, loc)
          IN  /\ loc < 0 \/ loc + len > Size(c) => now = c
              /\ /\ start \in 0 .. Size(b) /\ len \in 0 .. Size(b) - start
                 /\ 0 \notin {b[i] : i \in start + 1 .. start + len}
                 => now = idris_setBufferString(c, loc, idris_getBufferString(b, start, len))
    /\ \A len \in 0 .. Size(b) :
          LET back == resizeBuffer(resizeBuffer(b, len), Size(b))
          IN  Changed(b, back) \subseteq len .. Size(b) - 1

\* What copyData says of a location or a length out of the bounds of its source:
\* the copy changes nothing.
CopyInBounds(b, c) ==
    \A start, len \in -1 .. Size(b) + 1, loc \in -1 .. Size(c) + 1 :
       ~Inside(b, start, len) => idris_copyBuffer(b, start, len, c, loc) = c

\* A file that is read in pieces of any length and written in pieces of any
\* length is the same file, as far as the buffer goes.
Filled(b, max, input) ==
    LET after[k \in 0 .. Len(input)] ==
          IF k = 0 THEN [buf |-> b, location |-> 0]
          ELSE LET r == after[k - 1]
               IN  readBufferFromFile(r, max, SubSeq(input, r.location + 1, Len(input)))
    IN  after[Len(input)]
Output(r, max) ==
    LET after[k \in 0 .. Size(r.buf)] ==
          IF k = 0 THEN [rec |-> resetBuffer(r), out |-> <<>>]
          ELSE LET a == after[k - 1]
               IN  [rec |-> writeBufferToFile(a.rec, max),
                    out |-> a.out \o idris_writeBuffer(a.rec.buf, a.rec.location,
                                                       written(a.rec, max))]
    IN  after[Size(r.buf)].out
FilesPass(b, input) ==
    \A max \in 1 .. 3, out \in 1 .. 3 :
       LET r == Filled(b, max, input)
           n == IF Len(input) < Size(b) THEN Len(input) ELSE Size(b)
       IN  /\ r.location = n
           /\ Output(r, out) = SubSeq(input, 1, n) \o SubSeq(b, n + 1, Size(b))
=============================================================================
