--------------------------- MODULE StringsProofs ---------------------------
(***************************************************************************)
(* Proofs about Strings, for any characters and any strings: the functions *)
(* on UTF-8 count, cut, turn around and compare characters, and each cell  *)
(* holds the text that the program made, however its bytes are shared.     *)
(***************************************************************************)
EXTENDS Strings, LeastElements, SequenceTheorems

----------------------------------------------------------------------------
(* The bytes of a character                                                *)

Texts == Seq(Chars)
Strs  == Seq(Nat)

\* The same encoding, a number of six bits at a time.
OnePart(c, e) == Len(e) = 1 /\ e[1] = c /\ c < 128
TwoParts(c, e, x, y) ==
  /\ Len(e) = 2 /\ x < 32 /\ y < 64
  /\ e[1] = 192 + x /\ e[2] = 128 + y
  /\ c = 64 * x + y /\ c >= 128
ThreeParts(c, e, x, y, z) ==
  /\ Len(e) = 3 /\ x < 16 /\ y < 64 /\ z < 64
  /\ e[1] = 224 + x /\ e[2] = 128 + y /\ e[3] = 128 + z
  /\ c = 64 * (64 * x + y) + z /\ c >= 2048
FourParts(c, e, w, x, y, z) ==
  /\ Len(e) = 4 /\ w < 8 /\ x < 64 /\ y < 64 /\ z < 64
  /\ e[1] = 240 + w /\ e[2] = 128 + x /\ e[3] = 128 + y /\ e[4] = 128 + z
  /\ c = 64 * (64 * (64 * w + x) + y) + z /\ c >= 65536 /\ c <= 1114111

LEMMA StandardParts ==
  ASSUME NEW c \in Nat, NEW e \in Strs, Standard(c, e)
  PROVE  \/ OnePart(c, e)
         \/ \E x, y \in Nat : TwoParts(c, e, x, y)
         \/ \E x, y, z \in Nat : ThreeParts(c, e, x, y, z)
         \/ \E w, x, y, z \in Nat : FourParts(c, e, w, x, y, z)
  <1>1. \A j \in 2 .. Len(e) : e[j] \in Nat /\ 128 <= e[j] /\ e[j] <= 191
    <2>1. \A j \in 2 .. Len(e) : j \in 1 .. Len(e)
      OBVIOUS
    <2>2. \A j \in 2 .. Len(e) : e[j] \in Nat
      BY <2>1, ElementOfSeq DEF Strs
    <2> QED
      BY <2>2 DEF Standard
  <1>2. CASE OneByte(c, e)
    <2>1. Len(e) = 1 /\ e[1] = c /\ c < 128
      BY <1>2 DEF OneByte
    <2> QED
      BY <2>1 DEF OnePart
  <1>3. CASE TwoBytes(c, e)
    <2>1. /\ Len(e) = 2 /\ e[1] \in 192 .. 223 /\ c = 64 * (e[1] - 192) + (e[2] - 128) /\ c >= 128
      BY <1>3 DEF TwoBytes
    <2>2. e[2] \in Nat /\ 128 <= e[2] /\ e[2] <= 191
      BY <1>1, <2>1
    <2> DEFINE x == e[1] - 192
               y == e[2] - 128
    <2>3. x \in Nat /\ x < 32 /\ e[1] = 192 + x
      BY <2>1
    <2>4. y \in Nat /\ y < 64 /\ e[2] = 128 + y
      BY <2>2
    <2>5. c = 64 * x + y
      BY <2>1
    <2> HIDE DEF x, y
    <2> QED
      BY <2>1, <2>3, <2>4, <2>5 DEF TwoParts
  <1>4. CASE ThreeBytes(c, e)
    <2>1. /\ Len(e) = 3 /\ e[1] \in 224 .. 239 /\ c >= 2048
          /\ c = 4096 * (e[1] - 224) + 64 * (e[2] - 128) + (e[3] - 128)
      BY <1>4 DEF ThreeBytes
    <2>2. /\ e[2] \in Nat /\ 128 <= e[2] /\ e[2] <= 191
          /\ e[3] \in Nat /\ 128 <= e[3] /\ e[3] <= 191
      BY <1>1, <2>1
    <2> DEFINE x == e[1] - 224
               y == e[2] - 128
               z == e[3] - 128
    <2>3. x \in Nat /\ x < 16 /\ e[1] = 224 + x
      BY <2>1
    <2>4. y \in Nat /\ y < 64 /\ e[2] = 128 + y /\ z \in Nat /\ z < 64 /\ e[3] = 128 + z
      BY <2>2
    <2>5. c = 4096 * x + 64 * y + z
      BY <2>1
    <2> HIDE DEF x, y, z
    <2>6. c = 64 * (64 * x + y) + z
      BY <2>3, <2>4, <2>5
    <2> QED
      BY <2>1, <2>3, <2>4, <2>6 DEF ThreeParts
  <1>5. CASE FourBytes(c, e)
    <2>1. /\ Len(e) = 4 /\ e[1] \in 240 .. 247 /\ c >= 65536 /\ c <= 1114111
          /\ c = 262144 * (e[1] - 240) + 4096 * (e[2] - 128) + 64 * (e[3] - 128) + (e[4] - 128)
      BY <1>5 DEF FourBytes
    <2>2. /\ e[2] \in Nat /\ 128 <= e[2] /\ e[2] <= 191
          /\ e[3] \in Nat /\ 128 <= e[3] /\ e[3] <= 191
          /\ e[4] \in Nat /\ 128 <= e[4] /\ e[4] <= 191
      BY <1>1, <2>1
    <2> DEFINE w == e[1] - 240
               x == e[2] - 128
               y == e[3] - 128
               z == e[4] - 128
    <2>3. w \in Nat /\ w < 8 /\ e[1] = 240 + w
      BY <2>1
    <2>4. /\ x \in Nat /\ x < 64 /\ e[2] = 128 + x
          /\ y \in Nat /\ y < 64 /\ e[3] = 128 + y
          /\ z \in Nat /\ z < 64 /\ e[4] = 128 + z
      BY <2>2
    <2>5. c = 262144 * w + 4096 * x + 64 * y + z
      BY <2>1
    <2> HIDE DEF w, x, y, z
    <2>6. c = 64 * (64 * (64 * w + x) + y) + z
      BY <2>3, <2>4, <2>5
    <2> QED
      BY <2>1, <2>3, <2>4, <2>6 DEF FourParts
  <1> QED
    BY <1>2, <1>3, <1>4, <1>5 DEF Standard

\* The first byte of a character, and one that continues it.
Lead(b) == b \in Nat /\ b > 0 /\ (b < 128 \/ (b >= 194 /\ b <= 244))
Rest(b) == b \in Nat /\ b >= 128 /\ b <= 191

\* What the encoding of a character is like: one first byte, which no other byte
\* can be taken for, and up to three that continue it.
LEMMA StandardBytes ==
  ASSUME NEW c \in Nat, c # 0, NEW e \in Strs, Standard(c, e)
  PROVE  /\ Len(e) \in Nat \ {0} /\ Lead(e[1])
         /\ e[1] < 128 <=> Len(e) = 1
         /\ \A j \in 2 .. Len(e) : Rest(e[j])
  <1> DEFINE Goal == /\ Len(e) \in Nat \ {0} /\ Lead(e[1])
                     /\ e[1] < 128 <=> Len(e) = 1
                     /\ \A j \in 2 .. Len(e) : Rest(e[j])
  <1> USE DEF Lead, Rest
  <1>1. CASE OnePart(c, e)
    BY <1>1 DEF OnePart
  <1>2. ASSUME NEW x \in Nat, NEW y \in Nat, TwoParts(c, e, x, y) PROVE Goal
    BY <1>2 DEF TwoParts
  <1>3. ASSUME NEW x \in Nat, NEW y \in Nat, NEW z \in Nat, ThreeParts(c, e, x, y, z) PROVE Goal
    BY <1>3 DEF ThreeParts
  <1>4. ASSUME NEW w \in Nat, NEW x \in Nat, NEW y \in Nat, NEW z \in Nat,
               FourParts(c, e, w, x, y, z)
        PROVE  Goal
    <2>1. w <= 4
      BY <1>4 DEF FourParts
    <2> QED
      BY <1>4, <2>1 DEF FourParts
  <1> HIDE DEF Lead, Rest, Goal
  <1>5. Goal
    BY <1>1, <1>2, <1>3, <1>4, StandardParts DEF Goal
  <1> QED
    BY <1>5 DEF Goal

LEMMA CharBytes ==
  ASSUME NEW c \in Chars
  PROVE  /\ c \in Nat /\ c # 0 /\ Encoding[c] \in Strs /\ Standard(c, Encoding[c])
         /\ Len(Encoding[c]) \in Nat \ {0} /\ Lead(Encoding[c][1])
         /\ Encoding[c][1] < 128 <=> Len(Encoding[c]) = 1
         /\ \A j \in 2 .. Len(Encoding[c]) : Rest(Encoding[c][j])
  <1>1. Encoding[c] \in Strs /\ Standard(c, Encoding[c])
    BY EncodingAssumption DEF Strs
  <1>2. c \in Nat /\ c # 0
    BY StringsAssumption
  <1> DEFINE e == Encoding[c]
  <1>3. e \in Strs /\ Standard(c, e)
    BY <1>1
  <1> HIDE DEF e
  <1>4. /\ Len(e) \in Nat \ {0} /\ Lead(e[1])
        /\ e[1] < 128 <=> Len(e) = 1
        /\ \A j \in 2 .. Len(e) : Rest(e[j])
    BY <1>2, <1>3, StandardBytes
  <1> QED
    BY <1>1, <1>2, <1>4 DEF e

\* Bytes are told apart by the two highest bits, and no first byte is taken for
\* an invalid one, signed or not.
LEMMA WhatContinues ==
  ASSUME NEW b
  PROVE  /\ Rest(b) => Continues(b)
         /\ Lead(b) \/ b = 0 => b \in Nat /\ ~Continues(b)
         /\ Lead(b) \/ Rest(b) \/ b = 0 => ~Invalid(b)
  <1>1. Rest(b) => Continues(b)
    BY DEF Rest, Continues
  <1>2. Lead(b) \/ b = 0 => b \in Nat /\ ~Continues(b)
    BY DEF Lead, Continues
  <1>3. Lead(b) \/ Rest(b) \/ b = 0 => ~Invalid(b)
    BY CharAssumption DEF Lead, Rest, Invalid, ToInt
  <1> QED
    BY <1>1, <1>2, <1>3

----------------------------------------------------------------------------
(* Parts of strings                                                        *)

LEMMA FromBytes ==
  ASSUME NEW s \in Strs, NEW n \in 0 .. Len(s)
  PROVE  /\ From(s, n) \in Strs /\ Len(From(s, n)) = Len(s) - n
         /\ \A i \in 1 .. Len(s) - n : From(s, n)[i] = s[n + i]
         /\ \A i \in Nat : Byte(From(s, n), i) = Byte(s, n + i)
  <1>1. Len(s) \in Nat /\ \A i \in 1 .. Len(s) : s[i] \in Nat
    BY LenProperties, ElementOfSeq DEF Strs
  <1>2. /\ From(s, n) \in Strs
        /\ Len(From(s, n)) = IF n + 1 <= Len(s) THEN Len(s) - (n + 1) + 1 ELSE 0
        /\ \A i \in 1 .. Len(s) - (n + 1) + 1 : From(s, n)[i] = s[n + 1 + i - 1]
    <2>1. \A i \in n + 1 .. Len(s) : s[i] \in Nat
      BY <1>1
    <2>2. n + 1 \in Int /\ Len(s) \in Int
      BY <1>1
    <2> QED
      BY <2>1, <2>2, SubSeqProperties DEF From, Strs
  <1>3. Len(From(s, n)) = Len(s) - n /\ \A i \in 1 .. Len(s) - n : From(s, n)[i] = s[n + i]
    BY <1>1, <1>2
  <1>4. ASSUME NEW i \in Nat PROVE Byte(From(s, n), i) = Byte(s, n + i)
    <2>1. CASE i < Len(s) - n
      BY <1>1, <1>3, <2>1 DEF Byte
    <2>2. CASE ~(i < Len(s) - n)
      BY <1>1, <1>3, <2>2 DEF Byte
    <2> QED
      BY <2>1, <2>2
  <1> QED
    BY <1>2, <1>3, <1>4

LEMMA FromBehind ==
  ASSUME NEW s \in Strs, NEW n \in Nat, n >= Len(s)
  PROVE  From(s, n) = <<>>
  <1>1. Len(s) \in Nat
    BY LenProperties DEF Strs
  <1>2. n + 1 \in Int /\ Len(s) \in Int /\ Len(s) < n + 1
    BY <1>1
  <1> QED
    BY <1>2, SubSeqEmpty DEF From

LEMMA FromFrom ==
  ASSUME NEW s \in Strs, NEW m \in 0 .. Len(s), NEW n \in 0 .. Len(s) - m
  PROVE  From(From(s, m), n) = From(s, m + n)
  <1>1. Len(s) \in Nat
    BY LenProperties DEF Strs
  <1>2. /\ From(s, m) \in Strs /\ Len(From(s, m)) = Len(s) - m
        /\ \A i \in 1 .. Len(s) - m : From(s, m)[i] = s[m + i]
    BY FromBytes
  <1>3. /\ From(From(s, m), n) \in Strs /\ Len(From(From(s, m), n)) = Len(s) - m - n
        /\ \A i \in 1 .. Len(s) - m - n : From(From(s, m), n)[i] = From(s, m)[n + i]
    <2>1. n \in 0 .. Len(From(s, m))
      BY <1>2
    <2> DEFINE r == From(s, m)
    <2>2. r \in Strs /\ Len(r) = Len(s) - m /\ n \in 0 .. Len(r)
      BY <1>2, <2>1
    <2> HIDE DEF r
    <2>3. /\ From(r, n) \in Strs /\ Len(From(r, n)) = Len(r) - n
          /\ \A i \in 1 .. Len(r) - n : From(r, n)[i] = r[n + i]
      BY <2>2, FromBytes
    <2>4. Len(r) - n = Len(s) - m - n
      BY <2>2
    <2> QED
      BY <2>3, <2>4 DEF r
  <1>4. m + n \in 0 .. Len(s)
    BY <1>1
  <1>5. /\ From(s, m + n) \in Strs /\ Len(From(s, m + n)) = Len(s) - (m + n)
        /\ \A i \in 1 .. Len(s) - (m + n) : From(s, m + n)[i] = s[m + n + i]
    BY <1>4, FromBytes
  <1>6. \A i \in 1 .. Len(s) - m - n : From(From(s, m), n)[i] = From(s, m + n)[i]
    BY <1>1, <1>2, <1>3, <1>5
  <1>7. Len(From(From(s, m), n)) = Len(From(s, m + n))
    <2>1. Len(s) - m - n = Len(s) - (m + n)
      BY <1>1
    <2> QED
      BY <1>3, <1>5, <2>1
  <1> QED
    BY <1>3, <1>5, <1>6, <1>7, SeqEqual DEF Strs

\* A string of two parts.
LEMMA Parts ==
  ASSUME NEW s \in Strs, NEW r \in Strs
  PROVE  /\ s \o r \in Strs /\ Len(s \o r) = Len(s) + Len(r)
         /\ From(s \o r, Len(s)) = r
         /\ SubSeq(s \o r, 1, Len(s)) = s
         /\ \A i \in 0 .. Len(s) - 1 : Byte(s \o r, i) = Byte(s, i)
         /\ \A i \in Nat : Byte(s \o r, Len(s) + i) = Byte(r, i)
  <1>1. Len(s) \in Nat /\ Len(r) \in Nat
    BY LenProperties DEF Strs
  <1>2. /\ s \o r \in Strs /\ Len(s \o r) = Len(s) + Len(r)
        /\ \A i \in 1 .. Len(s) + Len(r) :
             (s \o r)[i] = IF i <= Len(s) THEN s[i] ELSE r[i - Len(s)]
    BY ConcatProperties DEF Strs
  <1>3. Len(s) \in 0 .. Len(s \o r)
    BY <1>1, <1>2
  <1>4. /\ From(s \o r, Len(s)) \in Strs /\ Len(From(s \o r, Len(s))) = Len(r)
        /\ \A i \in 1 .. Len(r) : From(s \o r, Len(s))[i] = (s \o r)[Len(s) + i]
        /\ \A i \in Nat : Byte(From(s \o r, Len(s)), i) = Byte(s \o r, Len(s) + i)
    <2>1. Len(s \o r) - Len(s) = Len(r)
      BY <1>1, <1>2
    <2> QED
      BY <1>2, <1>3, <2>1, FromBytes
  <1>5. From(s \o r, Len(s)) = r
    <2>1. \A i \in 1 .. Len(r) : From(s \o r, Len(s))[i] = r[i]
      BY <1>1, <1>2, <1>4
    <2> QED
      BY <1>4, <2>1, SeqEqual DEF Strs
  <1>6. SubSeq(s \o r, 1, Len(s)) = s
    <2>1. \A i \in 1 .. Len(s) : (s \o r)[i] \in Nat /\ (s \o r)[i] = s[i]
      BY <1>1, <1>2, ElementOfSeq DEF Strs
    <2>2. /\ SubSeq(s \o r, 1, Len(s)) \in Strs
          /\ Len(SubSeq(s \o r, 1, Len(s))) = IF 1 <= Len(s) THEN Len(s) - 1 + 1 ELSE 0
          /\ \A i \in 1 .. Len(s) - 1 + 1 : SubSeq(s \o r, 1, Len(s))[i] = (s \o r)[1 + i - 1]
      BY <1>1, <2>1, SubSeqProperties DEF Strs
    <2>3. Len(SubSeq(s \o r, 1, Len(s))) = Len(s)
          /\ \A i \in 1 .. Len(s) : SubSeq(s \o r, 1, Len(s))[i] = s[i]
      BY <1>1, <2>1, <2>2
    <2> QED
      BY <2>2, <2>3, SeqEqual DEF Strs
  <1>7. ASSUME NEW i \in 0 .. Len(s) - 1 PROVE Byte(s \o r, i) = Byte(s, i)
    BY <1>1, <1>2 DEF Byte
  <1> QED
    BY <1>2, <1>4, <1>5, <1>6, <1>7

----------------------------------------------------------------------------
(* The encoding of a text                                                  *)

\* The concatenation in Encoded, a step at a time.
Flat(t, f) ==
  f = [i \in 1 .. Len(t) |-> IF i = 1 THEN [k \in DOMAIN t |-> Encoding[t[k]]][i]
                             ELSE f[i - 1] \o [k \in DOMAIN t |-> Encoding[t[k]]][i]]

LEMMA TextChars ==
  ASSUME NEW t \in Texts
  PROVE  /\ Len(t) \in Nat /\ DOMAIN t = 1 .. Len(t)
         /\ \A i \in 1 .. Len(t) : t[i] \in Chars /\ Encoding[t[i]] \in Strs
  BY LenProperties, ElementOfSeq, CharBytes DEF Texts

LEMMA FlatSteps ==
  ASSUME NEW t \in Texts, NEW f
  PROVE  Flat(t, f) <=> f = [i \in 1 .. Len(t) |-> IF i = 1 THEN Encoding[t[i]]
                                                   ELSE f[i - 1] \o Encoding[t[i]]]
  <1>1. DOMAIN t = 1 .. Len(t)
    BY TextChars
  <1>2. \A i \in 1 .. Len(t) : [k \in DOMAIN t |-> Encoding[t[k]]][i] = Encoding[t[i]]
    BY <1>1
  <1> DEFINE f1 == [i \in 1 .. Len(t) |-> IF i = 1 THEN [k \in DOMAIN t |-> Encoding[t[k]]][i]
                                          ELSE f[i - 1] \o [k \in DOMAIN t |-> Encoding[t[k]]][i]]
             f2 == [i \in 1 .. Len(t) |-> IF i = 1 THEN Encoding[t[i]]
                                          ELSE f[i - 1] \o Encoding[t[i]]]
  <1>3. \A i \in 1 .. Len(t) : f1[i] = f2[i]
    BY <1>2
  <1>4. f1 = f2
    BY <1>3
  <1> QED
    BY <1>4 DEF Flat

LEMMA FlatExists ==
  ASSUME NEW t \in Texts
  PROVE  \E f : Flat(t, f)
  <1> DEFINE n == Len(t)
             g == [x \in (1 .. n) \X Strs |-> x[2] \o Encoding[t[x[1]]]]
  <1>1. n \in Nat /\ \A i \in 1 .. n : Encoding[t[i]] \in Strs
    BY TextChars
  <1>2. g \in [(1 .. n) \X Strs -> Strs]
    <2>1. ASSUME NEW x \in (1 .. n) \X Strs PROVE x[2] \o Encoding[t[x[1]]] \in Strs
      <3>1. x[1] \in 1 .. n /\ x[2] \in Strs
        OBVIOUS
      <3> QED
        BY <1>1, <3>1, ConcatProperties DEF Strs
    <2> QED
      BY <2>1
  <1>3. <<>> \in Strs
    BY EmptySeq DEF Strs
  <1>4. \A i \in 1 .. n : \A s \in Strs : g[<<i, s>>] = s \o Encoding[t[i]]
    OBVIOUS
  <1> HIDE DEF g
  <1>5. PICK h \in [0 .. n -> Strs] : h[0] = <<>> /\ \A i \in 1 .. n : h[i] = g[<<i, h[i - 1]>>]
    <2> HIDE DEF n
    <2> QED
      <3> DEFINE a == <<>>
      <3>1. a \in Strs
        BY <1>3
      <3> HIDE DEF a
      <3>2. \E f \in [0 .. n -> Strs] : Steps(f, n, a, g)
        BY <1>1, <1>2, <3>1, StepsExist
      <3> QED
        BY <3>2 DEF Steps, a
  <1> DEFINE f == [i \in 1 .. n |-> h[i]]
  <1>6. \A i \in 1 .. n : h[i] = h[i - 1] \o Encoding[t[i]]
    <2>1. ASSUME NEW i \in 1 .. n PROVE h[i] = h[i - 1] \o Encoding[t[i]]
      <3>1. i - 1 \in 0 .. n
        BY <1>1
      <3>2. h[i - 1] \in Strs
        BY <1>5, <3>1
      <3> QED
        BY <1>4, <1>5, <3>2
    <2> QED
      BY <2>1
  <1>7. \A i \in 1 .. n : f[i] = IF i = 1 THEN Encoding[t[i]] ELSE f[i - 1] \o Encoding[t[i]]
    <2>1. ASSUME NEW i \in 1 .. n
          PROVE  f[i] = IF i = 1 THEN Encoding[t[i]] ELSE f[i - 1] \o Encoding[t[i]]
      <3>1. CASE i = 1
        <4>1. h[1] = <<>> \o Encoding[t[1]] /\ Encoding[t[1]] \in Strs
          <5>1. 1 - 1 = 0
            OBVIOUS
          <5> QED
            BY <1>1, <1>5, <1>6, <3>1, <5>1
        <4>2. <<>> \o Encoding[t[1]] = Encoding[t[1]]
          BY <4>1, ConcatEmptySeq DEF Strs
        <4> QED
          BY <3>1, <4>1, <4>2
      <3>2. CASE i # 1
        <4>1. i - 1 \in 1 .. n
          BY <1>1, <3>2
        <4> QED
          BY <1>6, <3>2, <4>1
      <3> QED
        BY <3>1, <3>2
    <2> QED
      BY <2>1
  <1>8. f = [i \in 1 .. n |-> IF i = 1 THEN Encoding[t[i]] ELSE f[i - 1] \o Encoding[t[i]]]
    <2>1. f = [i \in 1 .. n |-> f[i]]
      OBVIOUS
    <2> HIDE DEF f
    <2> QED
      BY <1>7, <2>1
  <1>9. Flat(t, f)
    BY <1>8, FlatSteps
  <1> QED
    BY <1>9

LEMMA EncodedIsFlat ==
  ASSUME NEW t \in Texts, t # <<>>
  PROVE  \E f : Flat(t, f) /\ Encoded(t) = f[Len(t)]
  <1>1. Len(t) \in Nat \ {0} /\ DOMAIN t = 1 .. Len(t)
    BY TextChars, EmptySeq DEF Texts
  <1> DEFINE parts == [k \in DOMAIN t |-> Encoding[t[k]]]
             c == CHOOSE f : Flat(t, f)
  <1>2. Len(parts) = Len(t)
    BY <1>1
  <1>3. Flat(t, c)
    BY FlatExists
  <1>4. Encoded(t) = FlattenSeq(parts)
    BY DEF Encoded
  <1>5. FlattenSeq(parts) = c[Len(t)]
    <2> HIDE DEF parts
    <2>1. Len(parts) # 0
      BY <1>1, <1>2
    <2>2. FlattenSeq(parts) = (CHOOSE f : f = [i \in 1 .. Len(parts) |->
                                 IF i = 1 THEN parts[i] ELSE f[i - 1] \o parts[i]])[Len(parts)]
      BY <2>1 DEF FlattenSeq
    <2> USE DEF parts
    <2> QED
      BY <1>2, <2>2 DEF Flat
  <1> QED
    BY <1>3, <1>4, <1>5

\* The recursions for two texts agree as far as the texts do.
LEMMA SameFlat ==
  ASSUME NEW t \in Texts, NEW u \in Texts, NEW f, NEW g, Flat(t, f), Flat(u, g),
         Len(t) <= Len(u), \A i \in 1 .. Len(t) : t[i] = u[i]
  PROVE  \A i \in 1 .. Len(t) : f[i] = g[i] /\ f[i] \in Strs
  <1> DEFINE Bad == {i \in 1 .. Len(t) : ~(f[i] = g[i] /\ f[i] \in Strs)}
  <1>1. SUFFICES ASSUME Bad # {} PROVE FALSE
    OBVIOUS
  <1>2. PICK m \in Bad : \A k \in Bad : m <= k
    <2>1. Bad \subseteq Nat
      OBVIOUS
    <2> HIDE DEF Bad
    <2> QED
      BY <1>1, <2>1, LeastNumber
  <1>3. Len(t) \in Nat /\ Len(u) \in Nat
    BY TextChars
  <1>4. m \in 1 .. Len(t) /\ m \in 1 .. Len(u) /\ Encoding[t[m]] \in Strs /\ t[m] = u[m]
    BY <1>2, <1>3, TextChars
  <1>5. /\ f[m] = IF m = 1 THEN Encoding[t[m]] ELSE f[m - 1] \o Encoding[t[m]]
        /\ g[m] = IF m = 1 THEN Encoding[u[m]] ELSE g[m - 1] \o Encoding[u[m]]
    <2>1. f = [i \in 1 .. Len(t) |-> IF i = 1 THEN Encoding[t[i]] ELSE f[i - 1] \o Encoding[t[i]]]
      BY FlatSteps
    <2>2. g = [i \in 1 .. Len(u) |-> IF i = 1 THEN Encoding[u[i]] ELSE g[i - 1] \o Encoding[u[i]]]
      BY FlatSteps
    <2> QED
      BY <1>4, <2>1, <2>2
  <1>6. CASE m = 1
    BY <1>2, <1>4, <1>5, <1>6
  <1>7. CASE m # 1
    <2>1. m - 1 \in 1 .. Len(t) /\ m - 1 \notin Bad
      BY <1>2, <1>3, <1>4, <1>7
    <2>2. f[m - 1] = g[m - 1] /\ f[m - 1] \in Strs
      BY <2>1
    <2>3. f[m - 1] \o Encoding[t[m]] \in Strs
      BY <1>4, <2>2, ConcatProperties DEF Strs
    <2> QED
      BY <1>2, <1>4, <1>5, <1>7, <2>2, <2>3
  <1> QED
    BY <1>6, <1>7

\* What Encoded does with the empty text and with one more character.
LEMMA EncodedEmpty ==
  <<>> \in Texts /\ Encoded(<<>>) = <<>>
  <1>1. <<>> \in Texts /\ Len(<<>>) = 0 /\ DOMAIN <<>> = {}
    BY EmptySeq DEF Texts
  <1> DEFINE parts == [k \in DOMAIN <<>> |-> Encoding[<<>>[k]]]
  <1>2. parts = <<>>
    BY <1>1
  <1>3. FlattenSeq(parts) = parts
    BY <1>1, <1>2 DEF FlattenSeq
  <1> QED
    BY <1>1, <1>2, <1>3 DEF Encoded

LEMMA EncodedAppend ==
  ASSUME NEW t \in Texts, NEW c \in Chars
  PROVE  /\ Append(t, c) \in Texts /\ Encoded(t) \in Strs
         /\ Encoded(Append(t, c)) = Encoded(t) \o Encoding[c]
  <1> DEFINE u == Append(t, c)
  <1>1. /\ u \in Texts /\ u # <<>> /\ Len(u) = Len(t) + 1 /\ u[Len(t) + 1] = c
        /\ \A i \in 1 .. Len(t) : t[i] = u[i]
    BY AppendProperties DEF Texts
  <1>2. Len(t) \in Nat /\ Encoding[c] \in Strs
    BY TextChars, CharBytes
  <1> HIDE DEF u
  <1>3. PICK g : Flat(u, g) /\ Encoded(u) = g[Len(t) + 1]
    BY <1>1, EncodedIsFlat
  <1>4. g = [i \in 1 .. Len(u) |-> IF i = 1 THEN Encoding[u[i]] ELSE g[i - 1] \o Encoding[u[i]]]
    BY <1>1, <1>3, FlatSteps
  <1>5. CASE t = <<>>
    <2>1. Len(t) = 0
      BY <1>5, EmptySeq
    <2>2. Encoded(u) = Encoding[c]
      BY <1>1, <1>3, <1>4, <2>1
    <2>3. Encoded(t) = <<>> /\ <<>> \in Strs /\ <<>> \o Encoding[c] = Encoding[c]
      BY <1>2, <1>5, EncodedEmpty, EmptySeq, ConcatEmptySeq DEF Strs
    <2> QED
      BY <1>1, <2>2, <2>3 DEF u
  <1>6. CASE t # <<>>
    <2>1. Len(t) # 0
      BY <1>6, EmptySeq DEF Texts
    <2>2. PICK f : Flat(t, f) /\ Encoded(t) = f[Len(t)]
      BY <1>6, EncodedIsFlat
    <2>3. f[Len(t)] = g[Len(t)] /\ f[Len(t)] \in Strs
      <3>1. Len(t) <= Len(u) /\ Len(t) \in 1 .. Len(t)
        BY <1>1, <1>2, <2>1
      <3> QED
        BY <1>1, <1>3, <2>2, <3>1, SameFlat
    <2>4. g[Len(t) + 1] = g[Len(t)] \o Encoding[c]
      <3>1. Len(t) + 1 \in 1 .. Len(u) /\ Len(t) + 1 # 1 /\ Len(t) + 1 - 1 = Len(t)
        BY <1>1, <1>2, <2>1
      <3> QED
        <4>1. \A i \in 1 .. Len(u) : g[i] = IF i = 1 THEN Encoding[u[i]]
                                          ELSE g[i - 1] \o Encoding[u[i]]
          BY <1>4
        <4>2. g[Len(t) + 1] = g[Len(t)] \o Encoding[c]
          <5> DEFINE m == Len(t) + 1
          <5>1. m \in 1 .. Len(u) /\ m # 1 /\ m - 1 = Len(t) /\ u[m] = c
            BY <1>1, <1>2, <3>1
          <5> HIDE DEF m
          <5>2. g[m] = g[m - 1] \o Encoding[u[m]]
            BY <4>1, <5>1, Zenon
          <5> QED
            BY <5>1, <5>2 DEF m
        <4> QED
          BY <4>2
    <2> QED
      BY <1>1, <1>3, <2>2, <2>3, <2>4 DEF u
  <1> QED
    BY <1>5, <1>6

LEMMA EncodedType ==
  ASSUME NEW t \in Texts
  PROVE  Encoded(t) \in Strs /\ Len(Encoded(t)) \in Nat
  <1>1. Encoded(t) \in Strs
    <2>1. CASE t = <<>>
      BY <2>1, EncodedEmpty, EmptySeq DEF Strs
    <2>2. CASE t # <<>>
      <3>1. PICK v \in Texts, c \in Chars : t = Append(v, c)
        BY <2>2, SequenceEmptyOrAppend DEF Texts
      <3>2. Encoded(v) \in Strs /\ Encoding[c] \in Strs /\ Encoded(t) = Encoded(v) \o Encoding[c]
        BY <3>1, EncodedAppend, CharBytes
      <3> QED
        BY <3>2, ConcatProperties DEF Strs
    <2> QED
      BY <2>1, <2>2
  <1> QED
    BY <1>1, LenProperties DEF Strs

LEMMA Together ==
  ASSUME NEW r \in Strs, NEW s \in Strs, NEW u \in Strs
  PROVE  (r \o s) \o u = r \o (s \o u)
  BY ConcatAssociative, SMTT(30) DEF Strs

LEMMA EncodedConcat ==
  ASSUME NEW t \in Texts, NEW u \in Texts
  PROVE  t \o u \in Texts /\ Encoded(t \o u) = Encoded(t) \o Encoded(u)
  <1> DEFINE Fails(v) == ~(Encoded(t \o v) = Encoded(t) \o Encoded(v))
             Bad == {n \in Nat : \E v \in Texts : Len(v) = n /\ Fails(v)}
  <1>1. SUFFICES ASSUME Bad # {} PROVE FALSE
    BY TextChars, ConcatProperties DEF Texts
  <1>2. PICK n \in Bad : \A k \in Bad : n <= k
    <2>1. Bad \subseteq Nat
      OBVIOUS
    <2> HIDE DEF Bad
    <2> QED
      BY <1>1, <2>1, LeastNumber
  <1>3. PICK v \in Texts : Len(v) = n /\ Fails(v)
    BY <1>2
  <1>4. Encoded(t) \in Strs
    BY EncodedType
  <1>5. v # <<>>
    <2>1. t \o <<>> = t /\ Encoded(t) \o <<>> = Encoded(t)
      BY <1>4, ConcatEmptySeq DEF Texts, Strs
    <2> QED
      BY <1>3, <2>1, EncodedEmpty
  <1>6. PICK w \in Texts, c \in Chars : v = Append(w, c)
    BY <1>5, SequenceEmptyOrAppend DEF Texts
  <1>7. Len(w) \in Nat /\ Len(v) = Len(w) + 1
    BY <1>6, AppendProperties, TextChars DEF Texts
  <1>8. Encoded(t \o w) = Encoded(t) \o Encoded(w)
    <2>1. Len(w) \notin Bad
      BY <1>2, <1>3, <1>7
    <2> QED
      BY <1>7, <2>1
  <1>9. t \o w \in Texts /\ t \o v = Append(t \o w, c)
    <2>1. t \o w \in Texts /\ <<c>> \in Texts
      BY ConcatProperties DEF Texts
    <2>2. v = w \o <<c>> /\ Append(t \o w, c) = (t \o w) \o <<c>>
      BY <1>6, <2>1, AppendIsConcat DEF Texts
    <2> QED
      BY <2>1, <2>2, ConcatAssociative DEF Texts
  <1>10. Encoded(t \o v) = (Encoded(t) \o Encoded(w)) \o Encoding[c]
    BY <1>8, <1>9, EncodedAppend
  <1>11. Encoded(v) = Encoded(w) \o Encoding[c] /\ Encoded(w) \in Strs /\ Encoding[c] \in Strs
    BY <1>6, EncodedAppend, CharBytes
  <1>12. (Encoded(t) \o Encoded(w)) \o Encoding[c] = Encoded(t) \o (Encoded(w) \o Encoding[c])
    BY <1>4, <1>11, Together
  <1> QED
    BY <1>3, <1>10, <1>11, <1>12

LEMMA EncodedOne ==
  ASSUME NEW c \in Chars
  PROVE  <<c>> \in Texts /\ Encoded(<<c>>) = Encoding[c]
  <1>1. <<>> \in Texts /\ Encoded(<<>>) = <<>> /\ Append(<<>>, c) = <<c>> /\ <<c>> \in Texts
    BY EncodedEmpty DEF Texts
  <1>2. Encoded(<<c>>) = <<>> \o Encoding[c]
    BY <1>1, EncodedAppend
  <1>3. Encoding[c] \in Strs
    BY CharBytes
  <1> QED
    BY <1>1, <1>2, <1>3, ConcatEmptySeq DEF Strs

----------------------------------------------------------------------------
(* Where the characters of a text are in its encoding                      *)

Pos(t, k) == Len(Encoded(SubSeq(t, 1, k)))

LEMMA CutText ==
  ASSUME NEW t \in Texts, NEW k \in 0 .. Len(t)
  PROVE  /\ SubSeq(t, 1, k) \in Texts /\ Len(SubSeq(t, 1, k)) = k
         /\ \A i \in 1 .. k : SubSeq(t, 1, k)[i] = t[i]
         /\ SubSeq(t, k + 1, Len(t)) \in Texts /\ Len(SubSeq(t, k + 1, Len(t))) = Len(t) - k
         /\ \A i \in 1 .. Len(t) - k : SubSeq(t, k + 1, Len(t))[i] = t[k + i]
         /\ SubSeq(t, 1, k) \o SubSeq(t, k + 1, Len(t)) = t
  <1>1. Len(t) \in Nat /\ \A i \in 1 .. Len(t) : t[i] \in Chars
    BY TextChars
  <1>2. \A i \in 1 .. k : t[i] \in Chars
    BY <1>1
  <1>3. \A i \in k + 1 .. Len(t) : t[i] \in Chars
    BY <1>1
  <1>4. /\ SubSeq(t, 1, k) \in Texts
        /\ Len(SubSeq(t, 1, k)) = IF 1 <= k THEN k - 1 + 1 ELSE 0
        /\ \A i \in 1 .. k - 1 + 1 : SubSeq(t, 1, k)[i] = t[1 + i - 1]
    BY <1>1, <1>2, SubSeqProperties DEF Texts
  <1>5. /\ SubSeq(t, k + 1, Len(t)) \in Texts
        /\ Len(SubSeq(t, k + 1, Len(t))) = IF k + 1 <= Len(t) THEN Len(t) - (k + 1) + 1 ELSE 0
        /\ \A i \in 1 .. Len(t) - (k + 1) + 1 : SubSeq(t, k + 1, Len(t))[i] = t[k + 1 + i - 1]
    <2>1. k + 1 \in Int /\ Len(t) \in Int
      BY <1>1
    <2> QED
      BY <1>3, <2>1, SubSeqProperties DEF Texts
  <1>6. SubSeq(t, 1, k) \o SubSeq(t, k + 1, Len(t)) = t
    <2>1. 1 \in 1 .. Len(t) + 1 /\ k \in 1 - 1 .. Len(t) /\ Len(t) \in k .. Len(t)
      BY <1>1
    <2>2. SubSeq(t, 1, k) \o SubSeq(t, k + 1, Len(t)) = SubSeq(t, 1, Len(t))
      BY <2>1, ConcatAdjacentSubSeq DEF Texts
    <2> QED
      BY <2>2, SubSeqFull DEF Texts
  <1>7. Len(SubSeq(t, 1, k)) = k /\ \A i \in 1 .. k : SubSeq(t, 1, k)[i] = t[i]
    BY <1>1, <1>4
  <1>8. /\ Len(SubSeq(t, k + 1, Len(t))) = Len(t) - k
        /\ \A i \in 1 .. Len(t) - k : SubSeq(t, k + 1, Len(t))[i] = t[k + i]
    BY <1>1, <1>5
  <1> QED
    BY <1>4, <1>5, <1>6, <1>7, <1>8

\* What is before the place of a character, and from there on.
LEMMA PosCuts ==
  ASSUME NEW t \in Texts, NEW k \in 0 .. Len(t)
  PROVE  /\ Pos(t, k) \in 0 .. Len(Encoded(t))
         /\ From(Encoded(t), Pos(t, k)) = Encoded(SubSeq(t, k + 1, Len(t)))
         /\ SubSeq(Encoded(t), 1, Pos(t, k)) = Encoded(SubSeq(t, 1, k))
         /\ \A i \in 0 .. Pos(t, k) - 1 : Byte(Encoded(t), i) = Byte(Encoded(SubSeq(t, 1, k)), i)
  <1> DEFINE u == SubSeq(t, 1, k)
             v == SubSeq(t, k + 1, Len(t))
  <1>1. u \in Texts /\ v \in Texts /\ u \o v = t
    BY CutText
  <1> HIDE DEF u, v
  <1>2. /\ Encoded(t) = Encoded(u) \o Encoded(v)
        /\ Encoded(u) \in Strs /\ Len(Encoded(u)) \in Nat
        /\ Encoded(v) \in Strs /\ Len(Encoded(v)) \in Nat
    BY <1>1, EncodedConcat, EncodedType
  <1>3. Pos(t, k) = Len(Encoded(u))
    BY DEF Pos, u
  <1>4. /\ Len(Encoded(t)) = Len(Encoded(u)) + Len(Encoded(v))
        /\ From(Encoded(t), Pos(t, k)) = Encoded(v)
        /\ SubSeq(Encoded(t), 1, Pos(t, k)) = Encoded(u)
        /\ \A i \in 0 .. Pos(t, k) - 1 : Byte(Encoded(t), i) = Byte(Encoded(u), i)
    BY <1>2, <1>3, Parts
  <1>5. Pos(t, k) \in 0 .. Len(Encoded(t))
    BY <1>2, <1>3, <1>4
  <1> QED
    BY <1>4, <1>5 DEF u, v

LEMMA PosNat ==
  ASSUME NEW t \in Texts, NEW k \in 0 .. Len(t)
  PROVE  Pos(t, k) \in Nat
  BY PosCuts, EncodedType

LEMMA PosEnds ==
  ASSUME NEW t \in Texts
  PROVE  Pos(t, 0) = 0 /\ Pos(t, Len(t)) = Len(Encoded(t))
  <1>1. SubSeq(t, 1, 0) = <<>> /\ SubSeq(t, 1, Len(t)) = t
    BY SubSeqEmpty, SubSeqFull DEF Texts
  <1> QED
    BY <1>1, EncodedEmpty, EmptySeq DEF Pos

\* The next character is as far away as this one is long, and its bytes are here.
LEMMA PosNext ==
  ASSUME NEW t \in Texts, NEW k \in 0 .. Len(t) - 1
  PROVE  /\ Pos(t, k + 1) = Pos(t, k) + Len(Encoding[t[k + 1]])
         /\ \A j \in 0 .. Len(Encoding[t[k + 1]]) - 1 :
              Byte(Encoded(t), Pos(t, k) + j) = Encoding[t[k + 1]][j + 1]
  <1> DEFINE u == SubSeq(t, 1, k)
             c == t[k + 1]
  <1>1. Len(t) \in Nat /\ k \in 0 .. Len(t) /\ k + 1 \in 1 .. Len(t) /\ k + 1 \in 0 .. Len(t)
    BY TextChars
  <1>2. u \in Texts /\ c \in Chars /\ Encoding[c] \in Strs
    BY <1>1, CutText, TextChars
  <1>3. SubSeq(t, 1, k + 1) = Append(u, c)
    <2>1. 1 \in 1 .. Len(t) /\ k + 1 \in 1 .. Len(t)
      BY <1>1
    <2>2. SubSeq(t, 1, k + 1) = SubSeq(t, 1, (k + 1) - 1) \o <<c>>
      BY <2>1, SubSeqRecursiveSecond DEF Texts
    <2>3. (k + 1) - 1 = k
      OBVIOUS
    <2>4. Append(u, c) = u \o <<c>>
      BY <1>2, AppendIsConcat DEF Texts
    <2> QED
      BY <2>2, <2>3, <2>4
  <1>4. Encoded(SubSeq(t, 1, k + 1)) = Encoded(u) \o Encoding[c] /\ Encoded(u) \in Strs
    BY <1>2, <1>3, EncodedAppend
  <1>5. /\ Pos(t, k + 1) = Pos(t, k) + Len(Encoding[c])
        /\ \A j \in Nat : Byte(Encoded(SubSeq(t, 1, k + 1)), Pos(t, k) + j) = Byte(Encoding[c], j)
    <2> DEFINE r == Encoded(u)
               e == Encoding[c]
    <2>1. r \in Strs /\ e \in Strs /\ Encoded(SubSeq(t, 1, k + 1)) = r \o e
      BY <1>2, <1>4
    <2>2. Pos(t, k) = Len(r) /\ Pos(t, k + 1) = Len(r \o e)
      BY <2>1 DEF Pos
    <2> HIDE DEF r, e
    <2>3. Len(r \o e) = Len(r) + Len(e) /\ \A j \in Nat : Byte(r \o e, Len(r) + j) = Byte(e, j)
      BY <2>1, Parts
    <2> QED
      BY <2>1, <2>2, <2>3 DEF e
  <1>6. ASSUME NEW j \in 0 .. Len(Encoding[c]) - 1
        PROVE  Byte(Encoded(t), Pos(t, k) + j) = Encoding[c][j + 1]
    <2>1. Pos(t, k) \in Nat /\ Len(Encoding[c]) \in Nat
      BY <1>2, EncodedType, LenProperties DEF Pos, Strs
    <2>2. Pos(t, k) + j \in 0 .. Pos(t, k + 1) - 1
      <3>1. Pos(t, k + 1) = Pos(t, k) + Len(Encoding[c])
        BY <1>5
      <3> QED
        BY <2>1, <3>1, Z3
    <2>3. Byte(Encoded(t), Pos(t, k) + j) = Byte(Encoded(SubSeq(t, 1, k + 1)), Pos(t, k) + j)
      BY <1>1, <2>2, PosCuts
    <2>4. Byte(Encoding[c], j) = Encoding[c][j + 1]
      BY <2>1 DEF Byte
    <2>5. j \in Nat
      BY <2>1
    <2> QED
      BY <1>5, <2>3, <2>4, <2>5
  <1> QED
    BY <1>5, <1>6

\* A character starts with a byte that does not continue one, and the text ends so.
LEMMA PosStarts ==
  ASSUME NEW t \in Texts, NEW k \in 0 .. Len(t)
  PROVE  ~Continues(Byte(Encoded(t), Pos(t, k)))
  <1>1. Len(t) \in Nat
    BY TextChars
  <1>2. CASE k = Len(t)
    <2>1. Byte(Encoded(t), Pos(t, k)) = 0
      BY <1>2, PosEnds, EncodedType DEF Byte
    <2> QED
      BY <2>1, WhatContinues
  <1>3. CASE k # Len(t)
    <2>1. k \in 0 .. Len(t) - 1 /\ k + 1 \in 1 .. Len(t)
      BY <1>1, <1>3
    <2>2. t[k + 1] \in Chars
      BY <2>1, TextChars
    <2> DEFINE e == Encoding[t[k + 1]]
    <2>3. Len(e) \in Nat \ {0} /\ Lead(e[1])
      BY <2>2, CharBytes
    <2>4. Pos(t, k) \in Nat /\ 0 \in 0 .. Len(e) - 1
      <3>1. Pos(t, k) \in Nat
        BY PosCuts, EncodedType
      <3> QED
        BY <2>3, <3>1
    <2>5. Byte(Encoded(t), Pos(t, k) + 0) = e[0 + 1]
      BY <2>1, <2>4, PosNext
    <2>6. Byte(Encoded(t), Pos(t, k)) = e[1]
      BY <2>4, <2>5
    <2> QED
      BY <2>3, <2>6, WhatContinues
  <1> QED
    BY <1>2, <1>3

\* Between two characters all bytes continue the first one.
LEMMA BytesBetween ==
  ASSUME NEW t \in Texts, NEW k \in 0 .. Len(t) - 1,
         NEW i \in Pos(t, k) + 1 .. Pos(t, k + 1) - 1
  PROVE  Continues(Byte(Encoded(t), i))
  <1>1. Len(t) \in Nat /\ k + 1 \in 1 .. Len(t) /\ k \in 0 .. Len(t)
    BY TextChars
  <1>2. t[k + 1] \in Chars
    BY <1>1, TextChars
  <1> DEFINE e == Encoding[t[k + 1]]
             j == i - Pos(t, k)
  <1>3. Len(e) \in Nat \ {0} /\ \A n \in 2 .. Len(e) : Rest(e[n])
    BY <1>2, CharBytes
  <1>4. Pos(t, k) \in Nat /\ Pos(t, k + 1) = Pos(t, k) + Len(e)
    BY <1>1, PosCuts, PosNext, EncodedType
  <1> HIDE DEF e
  <1>5. j \in 0 .. Len(e) - 1 /\ j + 1 \in 2 .. Len(e) /\ Pos(t, k) + j = i
    <2>1. ASSUME NEW a \in Nat, NEW n \in Nat, i \in a + 1 .. (a + n) - 1
          PROVE  i - a \in 0 .. n - 1 /\ (i - a) + 1 \in 2 .. n /\ a + (i - a) = i
      BY <2>1
    <2>2. Len(e) \in Nat
      BY <1>3
    <2>3. i \in Pos(t, k) + 1 .. (Pos(t, k) + Len(e)) - 1
      BY <1>4
    <2> QED
      BY <1>4, <2>1, <2>2, <2>3
  <1>6. Byte(Encoded(t), Pos(t, k) + j) = e[j + 1]
    BY <1>5, PosNext DEF e
  <1>7. Rest(Byte(Encoded(t), i))
    BY <1>3, <1>5, <1>6
  <1> QED
    BY <1>7, WhatContinues

\* Every byte belongs to a character.
LEMMA ByteOfChar ==
  ASSUME NEW t \in Texts, NEW i \in 0 .. Len(Encoded(t)) - 1
  PROVE  \E k \in 0 .. Len(t) - 1 : Pos(t, k) <= i /\ i < Pos(t, k + 1)
  <1> DEFINE T == {k \in 0 .. Len(t) : Pos(t, k) <= i}
  <1>1. Len(t) \in Nat /\ Len(Encoded(t)) \in Nat /\ Pos(t, 0) = 0
        /\ Pos(t, Len(t)) = Len(Encoded(t))
    BY TextChars, EncodedType, PosEnds
  <1>2. T \subseteq Nat /\ 0 \in T /\ \A k \in T : k <= Len(t)
    BY <1>1
  <1>3. PICK k \in T : \A m \in T : m <= k
    <2> HIDE DEF T
    <2> QED
      BY <1>1, <1>2, GreatestNumber
  <1>4. k # Len(t)
    BY <1>1, <1>3
  <1>5. k \in 0 .. Len(t) - 1 /\ k + 1 \in 0 .. Len(t) /\ ~(k + 1 <= k)
    BY <1>1, <1>3, <1>4
  <1>6. k + 1 \notin T
    BY <1>3, <1>5
  <1>7. Pos(t, k + 1) \in Nat
    BY <1>5, PosCuts, EncodedType
  <1> QED
    BY <1>1, <1>3, <1>5, <1>6, <1>7

----------------------------------------------------------------------------
(* idris_utf8.c on encoded texts                                           *)

LEMMA OverIs ==
  ASSUME NEW s \in Strs, NEW p \in Nat, NEW q \in p .. Len(s), ~Continues(Byte(s, q)),
         \A i \in p .. q - 1 : Continues(Byte(s, i))
  PROVE  Over(s, p) = q
  <1> DEFINE Good(r) == ~Continues(Byte(s, r)) /\ \A i \in p .. r - 1 : Continues(Byte(s, i))
  <1>1. Len(s) \in Nat
    BY LenProperties DEF Strs
  <1>2. ASSUME NEW r \in p .. Len(s), Good(r) PROVE r = q
    <2>1. ~(r < q)
      <3>1. r < q => r \in p .. q - 1
        BY <1>1
      <3> QED
        BY <1>2, <3>1
    <2>2. ~(q < r)
      <3>1. q < r => q \in p .. r - 1
        BY <1>1
      <3> QED
        BY <1>2, <3>1
    <2> QED
      BY <1>1, <2>1, <2>2
  <1>3. Over(s, p) = CHOOSE r \in p .. Len(s) : Good(r)
    BY DEF Over
  <1>4. Good(q)
    OBVIOUS
  <1> HIDE DEF Good
  <1> QED
    BY <1>2, <1>3, <1>4

\* From anywhere in a character the next one is found, and from its start itself.
LEMMA OverChar ==
  ASSUME NEW t \in Texts
  PROVE  /\ \A k \in 0 .. Len(t) : Over(Encoded(t), Pos(t, k)) = Pos(t, k)
         /\ \A k \in 0 .. Len(t) - 1 : \A p \in Pos(t, k) + 1 .. Pos(t, k + 1) :
              Over(Encoded(t), p) = Pos(t, k + 1)
  <1>1. Len(t) \in Nat /\ Encoded(t) \in Strs /\ Len(Encoded(t)) \in Nat
    BY TextChars, EncodedType
  <1>2. ASSUME NEW k \in 0 .. Len(t) PROVE Over(Encoded(t), Pos(t, k)) = Pos(t, k)
    <2>1. Pos(t, k) \in Nat /\ Pos(t, k) \in Pos(t, k) .. Len(Encoded(t))
      BY <1>1, PosCuts
    <2>2. \A i \in Pos(t, k) .. Pos(t, k) - 1 : Continues(Byte(Encoded(t), i))
      BY <2>1
    <2> QED
      BY <1>1, <2>1, <2>2, PosStarts, OverIs
  <1>3. ASSUME NEW k \in 0 .. Len(t) - 1, NEW p \in Pos(t, k) + 1 .. Pos(t, k + 1)
        PROVE  Over(Encoded(t), p) = Pos(t, k + 1)
    <2>1. k \in 0 .. Len(t) /\ k + 1 \in 0 .. Len(t)
      BY <1>1
    <2>2. Pos(t, k) \in Nat /\ Pos(t, k + 1) \in 0 .. Len(Encoded(t))
      BY <1>1, <2>1, PosCuts
    <2>3. p \in Nat /\ Pos(t, k + 1) \in p .. Len(Encoded(t))
      BY <1>1, <2>2
    <2>4. ASSUME NEW i \in p .. Pos(t, k + 1) - 1 PROVE Continues(Byte(Encoded(t), i))
      <3>1. i \in Pos(t, k) + 1 .. Pos(t, k + 1) - 1
        BY <2>2, <2>3
      <3> QED
        BY <3>1, BytesBetween
    <2> QED
      BY <1>1, <2>1, <2>3, <2>4, PosStarts, OverIs
  <1> QED
    BY <1>2, <1>3

LEMMA FirstByte ==
  ASSUME NEW t \in Texts, t # <<>>
  PROVE  /\ Len(t) \in Nat \ {0} /\ t[1] \in Chars
         /\ Pos(t, 1) = Len(Encoding[t[1]]) /\ Byte(Encoded(t), 0) = Encoding[t[1]][1]
  <1>1. Len(t) \in Nat \ {0} /\ t[1] \in Chars
    <2>1. Len(t) \in Nat \ {0}
      BY EmptySeq DEF Texts
    <2> QED
      BY <2>1, TextChars
  <1>2. Len(Encoding[t[1]]) \in Nat \ {0}
    BY <1>1, CharBytes
  <1>3. 0 \in 0 .. Len(t) - 1 /\ 0 + 1 = 1 /\ 0 \in 0 .. Len(Encoding[t[1]]) - 1
    <2>1. 0 \in 0 .. Len(t) - 1
      BY <1>1
    <2> QED
      BY <1>2, <2>1
  <1>4. /\ Pos(t, 0 + 1) = Pos(t, 0) + Len(Encoding[t[0 + 1]])
        /\ \A j \in 0 .. Len(Encoding[t[0 + 1]]) - 1 :
             Byte(Encoded(t), Pos(t, 0) + j) = Encoding[t[0 + 1]][j + 1]
    BY <1>3, PosNext
  <1>5. /\ Pos(t, 1) = 0 + Len(Encoding[t[1]])
        /\ \A j \in 0 .. Len(Encoding[t[1]]) - 1 : Byte(Encoded(t), 0 + j) = Encoding[t[1]][j + 1]
    BY <1>3, <1>4, PosEnds
  <1>6. Byte(Encoded(t), 0 + 0) = Encoding[t[1]][0 + 1]
    BY <1>3, <1>5
  <1> QED
    BY <1>1, <1>2, <1>5, <1>6

LEMMA CharLen ==
  ASSUME NEW t \in Texts
  PROVE  idris_utf8_charlen(Encoded(t)) = IF t = <<>> THEN 1 ELSE Pos(t, 1)
  <1>1. CASE t = <<>>
    <2>1. Byte(<<>>, 0) = 0
      BY EmptySeq DEF Byte
    <2> QED
      BY <1>1, <2>1, EncodedEmpty DEF idris_utf8_charlen
  <1>2. CASE t # <<>>
    <2> DEFINE e == Encoding[t[1]]
    <2>1. /\ Len(t) \in Nat \ {0} /\ t[1] \in Chars
          /\ Pos(t, 1) = Len(e) /\ Byte(Encoded(t), 0) = e[1]
      BY <1>2, FirstByte
    <2>2. Len(e) \in Nat \ {0} /\ Lead(e[1]) /\ (e[1] < 128 <=> Len(e) = 1)
      BY <2>1, CharBytes
    <2> HIDE DEF e
    <2>3. CASE e[1] < 128
      BY <1>2, <2>1, <2>2, <2>3 DEF idris_utf8_charlen
    <2>4. CASE ~(e[1] < 128)
      <3>1. ~Invalid(e[1])
        BY <2>2, WhatContinues
      <3>2. 0 \in 0 .. Len(t) - 1 /\ 1 \in Pos(t, 0) + 1 .. Pos(t, 0 + 1)
        BY <2>1, <2>2, PosEnds
      <3>3. Over(Encoded(t), 1) = Pos(t, 0 + 1)
        BY <3>2, OverChar
      <3> QED
        BY <1>2, <2>1, <2>4, <3>1, <3>3 DEF idris_utf8_charlen
    <2> QED
      BY <2>3, <2>4
  <1> QED
    BY <1>1, <1>2

\* findOffset: as many characters on, and outside behind the last one.
LEMMA FindOffset ==
  ASSUME NEW t \in Texts, NEW n \in Int
  PROVE  /\ n <= 0 => idris_utf8_findOffset(Encoded(t), n) = 0
         /\ n \in 0 .. Len(t) => idris_utf8_findOffset(Encoded(t), n) = Pos(t, n)
         /\ n > Len(t) => idris_utf8_findOffset(Encoded(t), n) = Len(Encoded(t)) + (n - Len(t))
  <1> DEFINE s == Encoded(t)
             Step(o) == o + idris_utf8_charlen(From(s, o))
             f == [i \in 0 .. n |-> IF i <= Len(t) THEN Pos(t, i) ELSE Len(s) + (i - Len(t))]
             Rec(g) == g = [i \in 0 .. n |-> IF i = 0 THEN 0 ELSE Step(g[i - 1])]
             c == CHOOSE g : Rec(g)
  <1>1. /\ Len(t) \in Nat /\ s \in Strs /\ Len(s) \in Nat
        /\ Pos(t, 0) = 0 /\ Pos(t, Len(t)) = Len(s)
    BY TextChars, EncodedType, PosEnds
  <1>2. CASE n <= 0
    <2>1. idris_utf8_findOffset(s, n) = 0
      BY <1>2 DEF idris_utf8_findOffset
    <2> QED
      BY <1>1, <1>2, <2>1
  <1>3. CASE n > 0
    <2>0. n \in Nat
      BY <1>3
    <2> HIDE DEF s
    <2>1. ASSUME NEW i \in 0 .. Len(t) - 1 PROVE Step(Pos(t, i)) = Pos(t, i + 1)
      <3> DEFINE v == SubSeq(t, i + 1, Len(t))
      <3>1. i \in 0 .. Len(t) /\ i + 1 \in 0 .. Len(t)
        BY <1>1
      <3>2. v \in Texts /\ Len(v) = Len(t) - i /\ \A j \in 1 .. Len(t) - i : v[j] = t[i + j]
        BY <3>1, CutText
      <3>3. From(s, Pos(t, i)) = Encoded(v)
        BY <3>1, PosCuts DEF s
      <3> HIDE DEF v
      <3>4. v # <<>> /\ v[1] = t[i + 1]
        BY <1>1, <3>1, <3>2, EmptySeq
      <3>5. idris_utf8_charlen(Encoded(v)) = Len(Encoding[t[i + 1]])
        BY <3>2, <3>4, CharLen, FirstByte
      <3> QED
        BY <3>3, <3>5, PosNext
    <2>2. ASSUME NEW i \in Nat PROVE Step(Len(s) + i) = Len(s) + i + 1
      <3>1. From(s, Len(s) + i) = <<>>
        BY <1>1, FromBehind
      <3>2. idris_utf8_charlen(<<>>) = 1
        BY EncodedEmpty, CharLen
      <3> QED
        BY <3>1, <3>2
    <2> HIDE DEF Step
    <2>3. \A i \in 0 .. n : f[i] = IF i = 0 THEN 0 ELSE Step(f[i - 1])
      <3> SUFFICES ASSUME NEW i \in 0 .. n PROVE f[i] = IF i = 0 THEN 0 ELSE Step(f[i - 1])
        OBVIOUS
      <3>1. CASE i = 0
        BY <1>1, <2>0, <3>1
      <3>2. CASE i # 0 /\ i <= Len(t)
        <4>1. i - 1 \in 0 .. Len(t) - 1 /\ i - 1 \in 0 .. n /\ (i - 1) + 1 = i /\ i - 1 <= Len(t)
          BY <1>1, <2>0, <3>2
        <4>2. Step(Pos(t, i - 1)) = Pos(t, (i - 1) + 1)
          BY <2>1, <4>1
        <4>3. f[i] = Pos(t, i) /\ f[i - 1] = Pos(t, i - 1)
          BY <3>2, <4>1
        <4> QED
          BY <3>2, <4>1, <4>2, <4>3
      <3>3. CASE i = Len(t) + 1
        <4>1. i - 1 = Len(t) /\ i - 1 \in 0 .. n /\ i # 0 /\ ~(i <= Len(t)) /\ i - 1 <= Len(t)
              /\ Len(s) + 0 = Len(s) /\ Len(s) + 0 + 1 = Len(s) + (i - Len(t))
          BY <1>1, <2>0, <3>3
        <4>2. f[i] = Len(s) + (i - Len(t)) /\ f[i - 1] = Len(s)
          BY <1>1, <4>1
        <4>3. Step(Len(s) + 0) = Len(s) + 0 + 1
          BY <2>2
        <4> QED
          BY <4>1, <4>2, <4>3
      <3>4. CASE i > Len(t) + 1
        <4>1. i - 1 \in 0 .. n /\ i # 0 /\ ~(i <= Len(t)) /\ ~(i - 1 <= Len(t))
              /\ (i - 1) - Len(t) \in Nat
              /\ Len(s) + ((i - 1) - Len(t)) + 1 = Len(s) + (i - Len(t))
          BY <1>1, <2>0, <3>4
        <4>2. f[i] = Len(s) + (i - Len(t)) /\ f[i - 1] = Len(s) + ((i - 1) - Len(t))
          BY <4>1
        <4>3. Step(Len(s) + ((i - 1) - Len(t))) = Len(s) + ((i - 1) - Len(t)) + 1
          BY <2>2, <4>1
        <4> QED
          BY <4>1, <4>2, <4>3
      <3> QED
        BY <1>1, <2>0, <3>1, <3>2, <3>3, <3>4
    <2>4. Rec(f)
      <3>1. f = [i \in 0 .. n |-> f[i]]
        OBVIOUS
      <3> HIDE DEF f
      <3> QED
        BY <2>3, <3>1
    <2>5. Rec(c)
      <3> HIDE DEF f, Rec
      <3> QED
        BY <2>4
    <2>6. c[n] = f[n]
      <3> DEFINE Bad == {i \in 0 .. n : c[i] # f[i]}
      <3>1. SUFFICES ASSUME Bad # {} PROVE FALSE
        <4>1. n \in 0 .. n
          BY <2>0
        <4> QED
          BY <4>1
      <3>2. PICK m \in Bad : \A k \in Bad : m <= k
        <4>1. Bad \subseteq Nat
          OBVIOUS
        <4> HIDE DEF Bad
        <4> QED
          BY <3>1, <4>1, LeastNumber
      <3>3. m \in 0 .. n /\ c[m] # f[m]
        BY <3>2
      <3> HIDE DEF f, c
      <3>4. /\ c[m] = IF m = 0 THEN 0 ELSE Step(c[m - 1])
            /\ f[m] = IF m = 0 THEN 0 ELSE Step(f[m - 1])
        BY <2>3, <2>5, <3>3
      <3>5. m # 0
        BY <3>3, <3>4
      <3>6. m - 1 \in 0 .. n /\ m - 1 \notin Bad
        BY <2>0, <3>2, <3>3, <3>5
      <3>7. c[m - 1] = f[m - 1]
        BY <3>6
      <3> QED
        BY <3>3, <3>4, <3>5, <3>7
    <2>7. idris_utf8_findOffset(s, n) = c[n]
      BY <1>3 DEF idris_utf8_findOffset, Step
    <2>8. f[n] = IF n <= Len(t) THEN Pos(t, n) ELSE Len(s) + (n - Len(t))
      BY <2>0
    <2> HIDE DEF f, c
    <2>9. /\ n \in 0 .. Len(t) => idris_utf8_findOffset(s, n) = Pos(t, n)
          /\ n > Len(t) => idris_utf8_findOffset(s, n) = Len(s) + (n - Len(t))
      BY <1>1, <1>3, <2>6, <2>7, <2>8
    <2> QED
      BY <1>3, <2>9 DEF s
  <1> QED
    BY <1>2, <1>3

----------------------------------------------------------------------------
(* Counting characters                                                     *)

LEMMA OneMoreStart ==
  ASSUME NEW t \in Texts, NEW c \in Chars
  PROVE  /\ Starts(Encoded(Append(t, c))) = Starts(Encoded(t)) \cup {Len(Encoded(t))}
         /\ Len(Encoded(t)) \notin Starts(Encoded(t))
  <1> DEFINE s == Encoded(t)
             e == Encoding[c]
             r == Encoded(Append(t, c))
  <1>1. /\ s \in Strs /\ Len(s) \in Nat /\ e \in Strs /\ Len(e) \in Nat \ {0}
        /\ Lead(e[1]) /\ \A j \in 2 .. Len(e) : Rest(e[j])
    BY EncodedType, CharBytes
  <1>2. r = s \o e
    BY EncodedAppend
  <1> HIDE DEF s, e, r
  <1>3. /\ Len(r) = Len(s) + Len(e)
        /\ \A i \in 0 .. Len(s) - 1 : Byte(r, i) = Byte(s, i)
        /\ \A i \in Nat : Byte(r, Len(s) + i) = Byte(e, i)
    BY <1>1, <1>2, Parts
  <1>4. ASSUME NEW i \in 0 .. Len(e) - 1 PROVE Continues(Byte(r, Len(s) + i)) <=> i # 0
    <2>1. i \in Nat /\ i + 1 \in 1 .. Len(e) /\ i < Len(e)
      BY <1>1
    <2>2. Byte(r, Len(s) + i) = e[i + 1]
      BY <1>3, <2>1 DEF Byte
    <2>3. CASE i = 0
      BY <1>1, <2>2, <2>3, WhatContinues
    <2>4. CASE i # 0
      <3>1. i + 1 \in 2 .. Len(e)
        BY <2>1, <2>4
      <3> QED
        BY <1>1, <2>2, <2>4, <3>1, WhatContinues
    <2> QED
      BY <2>3, <2>4
  <1>5. ASSUME NEW i \in 0 .. Len(r) - 1
        PROVE  ~Continues(Byte(r, i)) <=> i \in Starts(s) \/ i = Len(s)
    <2>1. CASE i < Len(s)
      <3>1. i \in 0 .. Len(s) - 1 /\ i # Len(s)
        BY <1>1, <2>1
      <3> QED
        BY <1>3, <3>1 DEF Starts
    <2>2. CASE ~(i < Len(s))
      <3>1. i - Len(s) \in 0 .. Len(e) - 1 /\ Len(s) + (i - Len(s)) = i /\ i \notin 0 .. Len(s) - 1
        <4>1. Len(s) \in Nat /\ Len(e) \in Nat /\ Len(r) = Len(s) + Len(e)
          BY <1>1, <1>3
        <4> QED
          BY <2>2, <4>1
      <3>2. Continues(Byte(r, i)) <=> i # Len(s)
        <4>1. Continues(Byte(r, i)) <=> i - Len(s) # 0
          BY <1>4, <3>1
        <4>2. i - Len(s) # 0 <=> i # Len(s)
          BY <1>1
        <4> QED
          BY <4>1, <4>2
      <3> QED
        BY <3>1, <3>2 DEF Starts
    <2> QED
      BY <2>1, <2>2
  <1>6. Starts(s) \subseteq 0 .. Len(r) - 1 /\ Len(s) \in 0 .. Len(r) - 1
    <2>1. Len(s) \in Nat /\ Len(e) \in Nat \ {0} /\ Len(r) = Len(s) + Len(e)
      BY <1>1, <1>3
    <2> QED
      BY <2>1 DEF Starts
  <1>7. Starts(r) = Starts(s) \cup {Len(s)}
    <2>1. Starts(r) = {i \in 0 .. Len(r) - 1 : ~Continues(Byte(r, i))}
      BY DEF Starts
    <2> QED
      BY <1>5, <1>6, <2>1
  <1>8. Len(s) \notin Starts(s)
    BY <1>1 DEF Starts
  <1> QED
    BY <1>7, <1>8 DEF s, r

LEMMA StartsCount ==
  ASSUME NEW t \in Texts
  PROVE  IsFiniteSet(Starts(Encoded(t))) /\ Cardinality(Starts(Encoded(t))) = Len(t)
  <1> DEFINE Right(v) == IsFiniteSet(Starts(Encoded(v))) /\ Cardinality(Starts(Encoded(v))) = Len(v)
             Bad == {n \in Nat : \E v \in Texts : Len(v) = n /\ ~Right(v)}
  <1>1. SUFFICES ASSUME Bad # {} PROVE FALSE
    BY TextChars
  <1>2. PICK n \in Bad : \A k \in Bad : n <= k
    <2>1. Bad \subseteq Nat
      OBVIOUS
    <2> HIDE DEF Bad
    <2> QED
      BY <1>1, <2>1, LeastNumber
  <1>3. PICK v \in Texts : Len(v) = n /\ ~Right(v)
    BY <1>2
  <1>4. v # <<>>
    <2>1. Len(<<>>) = 0 /\ Starts(<<>>) = {}
      <3>1. Len(<<>>) = 0
        BY EmptySeq
      <3>2. 0 .. 0 - 1 = {}
        OBVIOUS
      <3> QED
        BY <3>1, <3>2 DEF Starts
    <2> QED
      BY <1>3, <2>1, EncodedEmpty, FS_EmptySet
  <1>5. PICK w \in Texts, c \in Chars : v = Append(w, c)
    BY <1>4, SequenceEmptyOrAppend DEF Texts
  <1>6. Len(w) \in Nat /\ Len(v) = Len(w) + 1
    BY <1>5, AppendProperties, TextChars DEF Texts
  <1>7. Right(w)
    <2>1. Len(w) \notin Bad
      BY <1>2, <1>3, <1>6
    <2> QED
      BY <1>6, <2>1
  <1>8. /\ Starts(Encoded(v)) = Starts(Encoded(w)) \cup {Len(Encoded(w))}
        /\ Len(Encoded(w)) \notin Starts(Encoded(w))
    BY <1>5, OneMoreStart
  <1>9. Right(v)
    BY <1>6, <1>7, <1>8, FS_AddElement
  <1> QED
    BY <1>3, <1>9

LEMMA StrLen ==
  ASSUME NEW t \in Texts
  PROVE  idris_utf8_strlen(Encoded(t)) = Len(t)
  BY StartsCount DEF idris_utf8_strlen

\* How many characters start before a place.
Passed(s, p) == Cardinality({i \in Starts(s) : i < p})

LEMMA PassedMore ==
  ASSUME NEW t \in Texts, NEW p \in Int, NEW q \in Int, p <= q
  PROVE  /\ Passed(Encoded(t), p) \in Nat /\ Passed(Encoded(t), p) <= Passed(Encoded(t), q)
  <1> DEFINE S == Starts(Encoded(t))
             P == {i \in S : i < p}
             Q == {i \in S : i < q}
  <1>1. IsFiniteSet(S)
    BY StartsCount
  <1>2. S \subseteq Int
    BY EncodedType DEF Starts
  <1>3. P \subseteq Q /\ Q \subseteq S
    BY <1>2
  <1>4. IsFiniteSet(Q) /\ IsFiniteSet(P)
    BY <1>1, <1>3, FS_Subset
  <1>5. Cardinality(P) \in Nat /\ Cardinality(P) <= Cardinality(Q)
    BY <1>3, <1>4, FS_Subset, FS_CardinalityType
  <1> QED
    BY <1>5 DEF Passed

LEMMA PassedAt ==
  ASSUME NEW t \in Texts, NEW k \in 0 .. Len(t)
  PROVE  /\ Passed(Encoded(t), Pos(t, k)) = k
         /\ k < Len(t) => Passed(Encoded(t), Pos(t, k) + 1) = k + 1
  <1>1. Len(t) \in Nat /\ Encoded(t) \in Strs /\ Len(Encoded(t)) \in Nat
    BY TextChars, EncodedType
  <1>2. Pos(t, k) \in 0 .. Len(Encoded(t))
    BY PosCuts
  <1> DEFINE u == SubSeq(t, 1, k)
             P == {i \in Starts(Encoded(t)) : i < Pos(t, k)}
  <1>3. u \in Texts /\ Len(u) = k
    BY CutText
  <1>4. P = Starts(Encoded(u))
    <2>1. Len(Encoded(u)) = Pos(t, k)
      BY DEF Pos
    <2>2. P = {i \in 0 .. Pos(t, k) - 1 : ~Continues(Byte(Encoded(t), i))}
      BY <1>1, <1>2 DEF Starts
    <2>3. \A i \in 0 .. Pos(t, k) - 1 : Byte(Encoded(t), i) = Byte(Encoded(u), i)
      BY PosCuts
    <2> HIDE DEF u, P
    <2> QED
      BY <2>1, <2>2, <2>3 DEF Starts
  <1> HIDE DEF u
  <1>5. IsFiniteSet(P) /\ Cardinality(P) = k
    BY <1>3, <1>4, StartsCount
  <1>6. ASSUME k < Len(t) PROVE Passed(Encoded(t), Pos(t, k) + 1) = k + 1
    <2>1. Pos(t, k) < Len(Encoded(t))
      <3>1. k \in 0 .. Len(t) - 1 /\ k + 1 \in 1 .. Len(t) /\ k + 1 \in 0 .. Len(t)
        BY <1>1, <1>6
      <3>2. Len(Encoding[t[k + 1]]) \in Nat \ {0}
        BY <3>1, TextChars, CharBytes
      <3>3. Pos(t, k + 1) = Pos(t, k) + Len(Encoding[t[k + 1]]) /\ Pos(t, k + 1) \in 0 .. Len(Encoded(t))
        BY <3>1, PosNext, PosCuts
      <3> QED
        <4>1. Pos(t, k) \in Nat /\ Len(Encoded(t)) \in Nat /\ Len(Encoding[t[k + 1]]) >= 1
          BY <1>1, <1>2, <3>2
        <4>2. Pos(t, k) + Len(Encoding[t[k + 1]]) <= Len(Encoded(t)) /\ Len(Encoding[t[k + 1]]) \in Nat
          BY <1>1, <3>2, <3>3
        <4> QED
          BY <4>1, <4>2
    <2>2. Pos(t, k) \in Starts(Encoded(t))
      BY <1>1, <1>2, <2>1, PosStarts DEF Starts
    <2>3. {i \in Starts(Encoded(t)) : i < Pos(t, k) + 1} = P \cup {Pos(t, k)}
      <3>1. Starts(Encoded(t)) \subseteq Int
        BY <1>1 DEF Starts
      <3> QED
        BY <1>2, <2>2, <3>1
    <2>4. Pos(t, k) \notin P
      BY <1>2
    <2>5. Cardinality(P \cup {Pos(t, k)}) = k + 1
      <3> HIDE DEF P
      <3> QED
        BY <1>5, <2>4, FS_AddElement
    <2> QED
      BY <2>3, <2>5 DEF Passed
  <1> QED
    BY <1>5, <1>6 DEF Passed

\* advance: over n characters, or to the end, for any n.
LEMMA Advance ==
  ASSUME NEW t \in Texts, NEW n \in Int
  PROVE  /\ Clamp(n, Len(t)) \in 0 .. Len(t)
         /\ idris_utf8_advance(Encoded(t), n) = Pos(t, Clamp(n, Len(t)))
  <1> DEFINE s == Encoded(t)
             At(p) == /\ p = Len(s) \/ Passed(s, p) >= n
                      /\ \A i \in 0 .. p - 1 : Passed(s, i) < n
  <1>1. /\ Len(t) \in Nat /\ s \in Strs /\ Len(s) \in Nat
        /\ Pos(t, 0) = 0 /\ Pos(t, Len(t)) = Len(s)
        /\ \A p, q \in Int : p <= q => Passed(s, p) \in Nat /\ Passed(s, p) <= Passed(s, q)
    BY TextChars, EncodedType, PosEnds, PassedMore
  <1>2. Clamp(n, Len(t)) \in 0 .. Len(t)
    BY <1>1 DEF Clamp
  <1>3. ASSUME NEW p \in 0 .. Len(s), NEW q \in 0 .. Len(s), At(p), At(q) PROVE p = q
    <2>1. ~(p < q)
      <3>1. p < q => p \in 0 .. q - 1 /\ p # Len(s) /\ Passed(s, p) \in Nat
        BY <1>1
      <3> QED
        BY <1>1, <1>3, <3>1
    <2>2. ~(q < p)
      <3>1. q < p => q \in 0 .. p - 1 /\ q # Len(s) /\ Passed(s, q) \in Nat
        BY <1>1
      <3> QED
        BY <1>1, <1>3, <3>1
    <2> QED
      BY <1>1, <2>1, <2>2
  <1>4. idris_utf8_advance(s, n) = Over(s, CHOOSE p \in 0 .. Len(s) : At(p))
    BY DEF idris_utf8_advance, Passed
  <1>5. ASSUME NEW p \in 0 .. Len(s), At(p) PROVE idris_utf8_advance(s, n) = Over(s, p)
    <2> HIDE DEF At
    <2> QED
      BY <1>3, <1>4, <1>5
  <1>6. CASE n <= 0
    <2>1. Clamp(n, Len(t)) = 0
      BY <1>1, <1>6 DEF Clamp
    <2>2. 0 \in 0 .. Len(s) /\ At(0)
      <3>1. Passed(s, 0) \in Nat
        BY <1>1
      <3> QED
        BY <1>1, <1>6, <3>1
    <2>3. Over(s, Pos(t, 0)) = Pos(t, 0)
      BY <1>1, OverChar
    <2> HIDE DEF At
    <2> QED
      BY <1>1, <1>2, <1>5, <2>1, <2>2, <2>3
  <1>7. CASE n \in 1 .. Len(t)
    <2> DEFINE k == n - 1
               p == Pos(t, k) + 1
    <2>1. Clamp(n, Len(t)) = n /\ k \in 0 .. Len(t) - 1 /\ k \in 0 .. Len(t) /\ k < Len(t) /\ k + 1 = n
          /\ n \in 0 .. Len(t)
      <3>1. Len(t) \in Nat
        BY <1>1
      <3> QED
        BY <1>7, <3>1 DEF Clamp
    <2>2. Passed(s, Pos(t, k)) = k /\ Passed(s, p) = n
      BY <2>1, PassedAt
    <2>3. Pos(t, k) \in 0 .. Len(s) /\ Pos(t, n) \in 0 .. Len(s) /\ p \in Pos(t, k) + 1 .. Pos(t, k + 1)
      <3>1. Len(Encoding[t[k + 1]]) \in Nat \ {0}
        BY <1>7, <2>1, TextChars, CharBytes
      <3>2. Pos(t, k + 1) = Pos(t, k) + Len(Encoding[t[k + 1]])
        BY <2>1, PosNext
      <3>3. Pos(t, k) \in 0 .. Len(s) /\ Pos(t, n) \in 0 .. Len(s)
        BY <2>1, PosCuts
      <3> QED
        <4>1. Pos(t, k) \in Nat /\ Len(Encoding[t[k + 1]]) \in Nat /\ Len(Encoding[t[k + 1]]) >= 1
          <5>1. Pos(t, k) \in Nat
            BY <1>1, <3>3
          <5> QED
            BY <3>1, <5>1
        <4>2. Pos(t, k) + 1 \in Pos(t, k) + 1 .. Pos(t, k) + Len(Encoding[t[k + 1]])
          BY <4>1
        <4> QED
          BY <3>2, <3>3, <4>2
    <2>4. p \in 0 .. Len(s)
      <3>1. Len(s) \in Nat /\ Pos(t, k) \in Nat /\ Pos(t, n) \in 0 .. Len(s) /\ k + 1 = n
        BY <1>1, <2>1, <2>3
      <3>2. Pos(t, k) + 1 \in Pos(t, k) + 1 .. Pos(t, n)
        BY <2>3, <3>1
      <3> QED
        BY <3>1, <3>2
    <2>5. \A i \in 0 .. p - 1 : Passed(s, i) < n
      <3> SUFFICES ASSUME NEW i \in 0 .. p - 1 PROVE Passed(s, i) < n
        OBVIOUS
      <3>1. i \in Int /\ Pos(t, k) \in Int /\ i <= Pos(t, k)
        BY <2>3
      <3>2. Passed(s, i) \in Nat /\ Passed(s, i) <= k
        BY <1>1, <2>2, <3>1
      <3> QED
        BY <2>1, <3>2
    <2>6. At(p)
      BY <2>1, <2>2, <2>5
    <2>7. Over(s, p) = Pos(t, k + 1)
      BY <2>1, <2>3, OverChar
    <2> HIDE DEF At, s, p
    <2> QED
      BY <1>2, <1>5, <2>1, <2>4, <2>6, <2>7 DEF s
  <1>8. CASE n > Len(t)
    <2>1. Clamp(n, Len(t)) = Len(t)
      BY <1>1, <1>8 DEF Clamp
    <2>2. Passed(s, Len(s)) = Len(t)
      BY <1>1, PassedAt
    <2>3. Len(s) \in 0 .. Len(s) /\ At(Len(s))
      <3>1. \A i \in 0 .. Len(s) - 1 : Passed(s, i) < n
        <4> SUFFICES ASSUME NEW i \in 0 .. Len(s) - 1 PROVE Passed(s, i) < n
          OBVIOUS
        <4>1. i \in Int /\ Len(s) \in Int /\ i <= Len(s)
          BY <1>1
        <4>2. Passed(s, i) \in Nat /\ Passed(s, i) <= Len(t)
          BY <1>1, <2>2, <4>1
        <4> QED
          BY <1>1, <1>8, <4>2
      <3> QED
        BY <1>1, <3>1
    <2>4. Over(s, Pos(t, Len(t))) = Pos(t, Len(t))
      BY <1>1, OverChar
    <2> HIDE DEF At
    <2> QED
      BY <1>1, <1>2, <1>5, <2>1, <2>3, <2>4
  <1> QED
    BY <1>1, <1>2, <1>6, <1>7, <1>8

----------------------------------------------------------------------------
(* From code points to bytes and back                                      *)

LEMMA Digits ==
  ASSUME NEW a \in Nat, NEW b \in Nat, b < 64
  PROVE  (64 * a + b) \div 64 = a /\ (64 * a + b) % 64 = b
  OBVIOUS

LEMMA SixBits ==
  ASSUME NEW y \in Nat, y < 64
  PROVE  (128 + y) % 64 = y
  OBVIOUS

LEMMA OneSeq ==
  ASSUME NEW e \in Strs
  PROVE  /\ Len(e) = 1 => e = <<e[1]>>
         /\ Len(e) = 2 => e = <<e[1], e[2]>>
         /\ Len(e) = 3 => e = <<e[1], e[2], e[3]>>
         /\ Len(e) = 4 => e = <<e[1], e[2], e[3], e[4]>>
  BY DEF Strs

LEMMA FromCharCases ==
  ASSUME NEW c \in Nat
  PROVE  /\ c >= 128 /\ c <= 2047 => idris_utf8_fromChar(c) = <<192 + (c \div 64), Low(c, 1)>>
         /\ c >= 2048 /\ c <= 65535 =>
              idris_utf8_fromChar(c) = <<224 + (c \div 4096), Low(c, 64), Low(c, 1)>>
         /\ c >= 65536 /\ c <= 1114111 =>
              idris_utf8_fromChar(c) = <<240 + (c \div 262144), Low(c, 4096), Low(c, 64), Low(c, 1)>>
  <1> DEFINE one   == <<c>>
             two   == <<192 + (c \div 64), Low(c, 1)>>
             three == <<224 + (c \div 4096), Low(c, 64), Low(c, 1)>>
             four  == <<240 + (c \div 262144), Low(c, 4096), Low(c, 64), Low(c, 1)>>
             none  == <<>>
  <1>1. idris_utf8_fromChar(c) = IF c < 128 THEN one ELSE IF c <= 2047 THEN two
                                 ELSE IF c <= 65535 THEN three ELSE IF c <= 1114111 THEN four
                                 ELSE none
    BY DEF idris_utf8_fromChar
  <1> HIDE DEF one, two, three, four, none
  <1>2. /\ c >= 128 /\ c <= 2047 => idris_utf8_fromChar(c) = two
        /\ c >= 2048 /\ c <= 65535 => idris_utf8_fromChar(c) = three
        /\ c >= 65536 /\ c <= 1114111 => idris_utf8_fromChar(c) = four
    BY <1>1
  <1> QED
    BY <1>2 DEF two, three, four

\* idris_utf8_fromChar gives the standard's encoding.
LEMMA FromChar ==
  ASSUME NEW c \in Chars
  PROVE  (IF c < 128 THEN <<c>> ELSE idris_utf8_fromChar(c)) = Encoding[c]
  <1> DEFINE e == Encoding[c]
  <1>1. c \in Nat /\ e \in Strs /\ Standard(c, e)
    BY CharBytes
  <1> HIDE DEF e
  <1>2. CASE OnePart(c, e)
    BY <1>1, <1>2, OneSeq DEF e, OnePart
  <1>3. ASSUME NEW x \in Nat, NEW y \in Nat, TwoParts(c, e, x, y)
        PROVE  (IF c < 128 THEN <<c>> ELSE idris_utf8_fromChar(c)) = e
    <2>1. c \div 64 = x /\ c % 64 = y /\ c \div 1 = c /\ ~(c < 128) /\ c <= 2047
      BY <1>3, Digits DEF TwoParts
    <2>2. Low(c, 1) = e[2]
      BY <1>3, <2>1 DEF Low, TwoParts
    <2>4. idris_utf8_fromChar(c) = <<192 + (c \div 64), Low(c, 1)>>
      BY <1>3, <2>1, FromCharCases DEF TwoParts
    <2>5. e = <<e[1], e[2]>>
      BY <1>1, <1>3, OneSeq DEF TwoParts
    <2> QED
      BY <1>3, <2>1, <2>2, <2>4, <2>5 DEF TwoParts
  <1>4. ASSUME NEW x \in Nat, NEW y \in Nat, NEW z \in Nat,
               ThreeParts(c, e, x, y, z)
        PROVE  (IF c < 128 THEN <<c>> ELSE idris_utf8_fromChar(c)) = e
    <2>1. /\ c \div 64 = 64 * x + y /\ c % 64 = z /\ c \div 1 = c
          /\ (64 * x + y) % 64 = y /\ c \div 4096 = x /\ ~(c < 128) /\ c <= 65535
      BY <1>4, Digits DEF ThreeParts
    <2>2. Low(c, 1) = e[3] /\ Low(c, 64) = e[2]
      BY <1>4, <2>1 DEF Low, ThreeParts
    <2>3. ~(c <= 2047)
      BY <1>4 DEF ThreeParts
    <2>4. idris_utf8_fromChar(c) = <<224 + (c \div 4096), Low(c, 64), Low(c, 1)>>
      BY <1>4, <2>1, FromCharCases DEF ThreeParts
    <2>5. e = <<e[1], e[2], e[3]>>
      BY <1>1, <1>4, OneSeq DEF ThreeParts
    <2> QED
      BY <1>4, <2>1, <2>2, <2>4, <2>5 DEF ThreeParts
  <1>5. ASSUME NEW w \in Nat, NEW x \in Nat, NEW y \in Nat, NEW z \in Nat,
               FourParts(c, e, w, x, y, z)
        PROVE  (IF c < 128 THEN <<c>> ELSE idris_utf8_fromChar(c)) = e
    <2>1. /\ c \div 64 = 64 * (64 * w + x) + y /\ c % 64 = z /\ c \div 1 = c
          /\ (64 * (64 * w + x) + y) % 64 = y /\ ~(c < 128) /\ c <= 1114111
      BY <1>5, Digits DEF FourParts
    <2>2. c \div 4096 = 64 * w + x /\ (64 * w + x) % 64 = x /\ c \div 262144 = w
      BY <1>5, Digits DEF FourParts
    <2>3. Low(c, 1) = e[4] /\ Low(c, 64) = e[3] /\ Low(c, 4096) = e[2]
      BY <1>5, <2>1, <2>2 DEF Low, FourParts
    <2>4. ~(c <= 2047) /\ ~(c <= 65535)
      BY <1>5 DEF FourParts
    <2>5. idris_utf8_fromChar(c) = <<240 + (c \div 262144), Low(c, 4096), Low(c, 64), Low(c, 1)>>
      BY <1>5, FromCharCases DEF FourParts
    <2>6. e = <<e[1], e[2], e[3], e[4]>>
      BY <1>1, <1>5, OneSeq DEF FourParts
    <2> QED
      BY <1>5, <2>2, <2>3, <2>5, <2>6 DEF FourParts
  <1> QED
    BY <1>1, <1>2, <1>3, <1>4, <1>5, StandardParts DEF e

\* Every byte of a text is the first of a character or one that continues it.
LEMMA AnyByte ==
  ASSUME NEW t \in Texts, NEW i \in Nat
  PROVE  LET b == Byte(Encoded(t), i) IN Lead(b) \/ Rest(b) \/ b = 0
  <1> DEFINE b == Byte(Encoded(t), i)
  <1>1. Len(Encoded(t)) \in Nat /\ Len(t) \in Nat
    BY EncodedType, TextChars
  <1>2. CASE ~(i < Len(Encoded(t)))
    BY <1>2 DEF Byte
  <1>3. CASE i < Len(Encoded(t))
    <2>1. i \in 0 .. Len(Encoded(t)) - 1
      BY <1>1, <1>3
    <2>2. PICK k \in 0 .. Len(t) - 1 : Pos(t, k) <= i /\ i < Pos(t, k + 1)
      BY <2>1, ByteOfChar
    <2>3. k \in 0 .. Len(t) /\ k + 1 \in 1 .. Len(t)
      BY <1>1, <2>2
    <2> DEFINE e == Encoding[t[k + 1]]
    <2>4. Len(e) \in Nat \ {0} /\ Lead(e[1]) /\ \A j \in 2 .. Len(e) : Rest(e[j])
      BY <2>3, TextChars, CharBytes
    <2>5. Pos(t, k) \in Nat /\ Pos(t, k + 1) = Pos(t, k) + Len(e)
          /\ \A j \in 0 .. Len(e) - 1 : Byte(Encoded(t), Pos(t, k) + j) = e[j + 1]
      BY <1>1, <2>2, <2>3, PosCuts, PosNext
    <2> HIDE DEF b, e
    <2>6. i - Pos(t, k) \in 0 .. Len(e) - 1 /\ Pos(t, k) + (i - Pos(t, k)) = i
      <3>1. Pos(t, k) <= i /\ i < Pos(t, k) + Len(e)
        BY <2>2, <2>5
      <3>2. Pos(t, k) \in Nat /\ Len(e) \in Nat
        BY <2>4, <2>5
      <3> QED
        BY <3>1, <3>2
    <2>7. b = e[(i - Pos(t, k)) + 1]
      BY <2>5, <2>6 DEF b
    <2>8. (i - Pos(t, k)) + 1 = 1 \/ (i - Pos(t, k)) + 1 \in 2 .. Len(e)
      <3>1. ASSUME NEW n \in Nat, NEW j \in 0 .. n - 1 PROVE j + 1 = 1 \/ j + 1 \in 2 .. n
        OBVIOUS
      <3>2. Len(e) \in Nat
        BY <2>4
      <3> QED
        BY <2>6, <3>1, <3>2
    <2>9. Lead(b) \/ Rest(b)
      BY <2>4, <2>7, <2>8
    <2> QED
      BY <2>9 DEF b
  <1> QED
    BY <1>2, <1>3

\* The recursion of idris_utf8_index, of at most four steps.
TopOf(s, i, b, w) ==
  CHOOSE f : f = [n \in 1 .. w |-> IF n = 1 THEN b ELSE 64 * f[n - 1] + (Byte(s, i + n - 1) % 64)]

LEMMA UpTo4 ==
  ASSUME NEW w \in Nat, w >= 1, w <= 4, NEW b, NEW s, NEW i
  PROVE  /\ w = 1 => TopOf(s, i, b, w)[w] = b
         /\ w = 2 => TopOf(s, i, b, w)[w] = 64 * b + (Byte(s, i + 2 - 1) % 64)
         /\ w = 3 => TopOf(s, i, b, w)[w] = 64 * (64 * b + (Byte(s, i + 2 - 1) % 64))
                                              + (Byte(s, i + 3 - 1) % 64)
         /\ w = 4 => TopOf(s, i, b, w)[w] = 64 * (64 * (64 * b + (Byte(s, i + 2 - 1) % 64))
                                                         + (Byte(s, i + 3 - 1) % 64))
                                              + (Byte(s, i + 4 - 1) % 64)
  <1> DEFINE r(n)  == Byte(s, i + n - 1) % 64
             two   == 64 * b + r(2)
             three == 64 * two + r(3)
             four  == 64 * three + r(4)
             Rec(f) == f = [n \in 1 .. w |-> IF n = 1 THEN b ELSE 64 * f[n - 1] + r(n)]
             top == CHOOSE f : Rec(f)
             h == [n \in 1 .. w |-> IF n = 1 THEN b ELSE IF n = 2 THEN two
                                    ELSE IF n = 3 THEN three ELSE four]
  <1>1. \A n \in 1 .. w : h[n] = IF n = 1 THEN b ELSE 64 * h[n - 1] + r(n)
    <2> SUFFICES ASSUME NEW n \in 1 .. w
                 PROVE  h[n] = IF n = 1 THEN b ELSE 64 * h[n - 1] + r(n)
      OBVIOUS
    <2>1. n = 1 \/ n = 2 \/ n = 3 \/ n = 4
      OBVIOUS
    <2>2. n # 1 => n - 1 \in 1 .. w
      OBVIOUS
    <2>3. \A m \in 1 .. w : h[m] = IF m = 1 THEN b ELSE IF m = 2 THEN two
                                   ELSE IF m = 3 THEN three ELSE four
      OBVIOUS
    <2> HIDE DEF h
    <2> HIDE DEF r
    <2>4. CASE n = 1
      BY <2>3, <2>4
    <2>5. CASE n = 2
      <3> HIDE DEF two
      <3>1. h[n - 1] = b /\ h[n] = two
        BY <2>2, <2>3, <2>5
      <3> QED
        BY <2>5, <3>1 DEF two
    <2>6. CASE n = 3
      <3> HIDE DEF three
      <3>1. h[n - 1] = two /\ h[n] = three
        BY <2>2, <2>3, <2>6
      <3> QED
        BY <2>6, <3>1 DEF three
    <2>7. CASE n = 4
      <3> HIDE DEF four
      <3>1. h[n - 1] = three /\ h[n] = four
        BY <2>2, <2>3, <2>7
      <3> QED
        BY <2>7, <3>1 DEF four
    <2> QED
      BY <2>1, <2>4, <2>5, <2>6, <2>7
  <1>2. Rec(h)
    <2>1. h = [n \in 1 .. w |-> h[n]]
      OBVIOUS
    <2> HIDE DEF h
    <2> QED
      BY <1>1, <2>1
  <1>3. Rec(top)
    <2> HIDE DEF Rec, h
    <2> QED
      BY <1>2
  <1> HIDE DEF top, r
  <1>4. \A n \in 1 .. w : top[n] = IF n = 1 THEN b ELSE 64 * top[n - 1] + r(n)
    BY <1>3
  <1>5. top[1] = b
    BY <1>4
  <1>6. w >= 2 => top[2] = 64 * top[1] + r(2)
    <2>1. w >= 2 => 2 \in 1 .. w /\ 2 # 1 /\ 2 - 1 = 1
      OBVIOUS
    <2> QED
      BY <1>4, <2>1
  <1>7. w >= 3 => top[3] = 64 * top[2] + r(3)
    <2>1. w >= 3 => 3 \in 1 .. w /\ 3 # 1 /\ 3 - 1 = 2
      OBVIOUS
    <2> QED
      BY <1>4, <2>1
  <1>8. w >= 4 => top[4] = 64 * top[3] + r(4)
    <2>1. w >= 4 => 4 \in 1 .. w /\ 4 # 1 /\ 4 - 1 = 3
      OBVIOUS
    <2> QED
      BY <1>4, <2>1
  <1>9. /\ w = 1 => top[w] = b
        /\ w = 2 => top[w] = two
        /\ w = 3 => top[w] = three
        /\ w = 4 => top[w] = four
    BY <1>5, <1>6, <1>7, <1>8
  <1> QED
    BY <1>9 DEF top, r, TopOf

\* What idris_utf8_index takes the width and the bits of a first byte to be.
LEMMA LeadParts ==
  ASSUME NEW b \in Nat
  PROVE  /\ b < 128 => LeadWidth(b) = 1 /\ LeadBits(b) = b
         /\ \A x \in Nat : b = 192 + x /\ x < 32 => LeadWidth(b) = 2 /\ LeadBits(b) = x
         /\ \A x \in Nat : b = 224 + x /\ x < 16 => LeadWidth(b) = 3 /\ LeadBits(b) = x
         /\ \A x \in Nat : b = 240 + x /\ x < 8 => LeadWidth(b) = 4 /\ LeadBits(b) = x
  <1>1. Above[1] = 256 /\ Above[2] = 32 /\ Above[3] = 16 /\ Above[4] = 8
    BY DEF Above
  <1>2. ASSUME b < 128 PROVE LeadWidth(b) = 1 /\ LeadBits(b) = b
    <2>1. LeadWidth(b) = 1
      BY <1>2 DEF LeadWidth
    <2>2. b % 256 = b
      BY <1>2
    <2> QED
      BY <1>1, <2>1, <2>2 DEF LeadBits
  <1>3. ASSUME NEW x \in Nat, b = 192 + x, x < 32 PROVE LeadWidth(b) = 2 /\ LeadBits(b) = x
    <2>1. b \in 192 .. 223 /\ ~(b < 128)
      BY <1>3
    <2>2. LeadWidth(b) = 2
      BY <2>1 DEF LeadWidth
    <2>3. b % 32 = x
      BY <1>3
    <2> QED
      BY <1>1, <2>2, <2>3 DEF LeadBits
  <1>4. ASSUME NEW x \in Nat, b = 224 + x, x < 16 PROVE LeadWidth(b) = 3 /\ LeadBits(b) = x
    <2>1. b \in 224 .. 239 /\ ~(b < 128)
      BY <1>4
    <2>2. LeadWidth(b) = 3
      BY <2>1 DEF LeadWidth
    <2>3. b % 16 = x
      BY <1>4
    <2> QED
      BY <1>1, <2>2, <2>3 DEF LeadBits
  <1>5. ASSUME NEW x \in Nat, b = 240 + x, x < 8 PROVE LeadWidth(b) = 4 /\ LeadBits(b) = x
    <2>1. b \in 240 .. 247 /\ ~(b < 128)
      BY <1>5
    <2>2. LeadWidth(b) = 4
      BY <2>1 DEF LeadWidth
    <2>3. b % 8 = x
      BY <1>5
    <2> QED
      BY <1>1, <2>2, <2>3 DEF LeadBits
  <1> QED
    BY <1>2, <1>3, <1>4, <1>5

\* idris_utf8_index gives the characters of the text.
LEMMA Index ==
  ASSUME NEW t \in Texts, NEW m \in 1 .. Len(t)
  PROVE  idris_utf8_index(Encoded(t), m - 1) = t[m]
  <1> DEFINE s == Encoded(t)
             i == idris_utf8_advance(s, m - 1)
             c == t[m]
             e == Encoding[c]
             b == Byte(s, i)
             bytes == IF b >= 128 /\ Invalid(Byte(s, 1)) THEN 1 ELSE LeadWidth(b)
             bits == IF Invalid(Byte(s, 1)) /\ b >= 128 THEN ToInt(b) ELSE LeadBits(b)
  <1>1. Len(t) \in Nat /\ m - 1 \in 0 .. Len(t) - 1 /\ m - 1 \in Int /\ (m - 1) + 1 = m
    BY TextChars
  <1>2. c \in Chars /\ c \in Nat /\ e \in Strs /\ Standard(c, e) /\ Len(e) \in Nat \ {0} /\ Lead(e[1])
    BY TextChars, CharBytes
  <1>3. i = Pos(t, m - 1)
    <2>1. Clamp(m - 1, Len(t)) = m - 1
      BY <1>1 DEF Clamp
    <2> QED
      BY <1>1, <2>1, Advance
  <1>4. i \in Nat
    <2>1. m - 1 \in 0 .. Len(t)
      BY <1>1
    <2> QED
      BY <1>3, <2>1, PosCuts, EncodedType
  <1>5. \A j \in 0 .. Len(e) - 1 : Byte(s, i + j) = e[j + 1]
    BY <1>1, <1>3, PosNext
  <1>6. ~Invalid(Byte(s, 1))
    BY AnyByte, WhatContinues
  <1>7. idris_utf8_index(s, m - 1) = IF bytes = 0 THEN 0 ELSE TopOf(s, i, bits, bytes)[bytes]
    BY DEF idris_utf8_index, TopOf
  <1> HIDE DEF s, i, c, e
  <1>8. bytes = LeadWidth(b) /\ bits = LeadBits(b)
    BY <1>6
  <1>9. b = e[1]
    <2>1. 0 \in 0 .. Len(e) - 1
      BY <1>2
    <2>2. Byte(s, i + 0) = e[0 + 1]
      BY <1>5, <2>1
    <2> QED
      BY <1>4, <2>2
  <1> HIDE DEF b, bytes, bits
  <1>10. CASE OnePart(c, e)
    <2>1. LeadWidth(b) = 1 /\ LeadBits(b) = c
      BY <1>2, <1>9, <1>10, LeadParts DEF OnePart
    <2> QED
      BY <1>7, <1>8, <2>1, UpTo4 DEF s, c
  <1>11. ASSUME NEW x \in Nat, NEW y \in Nat, TwoParts(c, e, x, y)
         PROVE  idris_utf8_index(s, m - 1) = c
    <2>1. Len(e) = 2 /\ e[1] = 192 + x /\ e[2] = 128 + y /\ x < 32 /\ y < 64 /\ c = 64 * x + y
      BY <1>11 DEF TwoParts
    <2>2. LeadWidth(b) = 2 /\ LeadBits(b) = x
      BY <1>9, <2>1, LeadParts
    <2>3. Byte(s, i + 2 - 1) = e[2]
      <3>1. i + 2 - 1 = i + 1 /\ 1 \in 0 .. Len(e) - 1 /\ 1 + 1 = 2
        BY <1>4, <2>1
      <3> QED
        BY <1>5, <3>1
    <2>4. Byte(s, i + 2 - 1) % 64 = y
      BY <2>1, <2>3
    <2>5. idris_utf8_index(s, m - 1) = 64 * x + (Byte(s, i + 2 - 1) % 64)
      BY <1>7, <1>8, <2>2, UpTo4
    <2> QED
      BY <2>1, <2>4, <2>5
  <1>12. ASSUME NEW x \in Nat, NEW y \in Nat, NEW z \in Nat, ThreeParts(c, e, x, y, z)
         PROVE  idris_utf8_index(s, m - 1) = c
    <2>1. /\ Len(e) = 3 /\ e[1] = 224 + x /\ e[2] = 128 + y /\ e[3] = 128 + z
          /\ x < 16 /\ y < 64 /\ z < 64 /\ c = 64 * (64 * x + y) + z
      BY <1>12 DEF ThreeParts
    <2>2. LeadWidth(b) = 3 /\ LeadBits(b) = x
      BY <1>9, <2>1, LeadParts
    <2>3. Byte(s, i + 2 - 1) = e[2] /\ Byte(s, i + 3 - 1) = e[3]
      <3>1. /\ i + 2 - 1 = i + 1 /\ 1 \in 0 .. Len(e) - 1 /\ 1 + 1 = 2
            /\ i + 3 - 1 = i + 2 /\ 2 \in 0 .. Len(e) - 1 /\ 2 + 1 = 3
        BY <1>4, <2>1
      <3> QED
        BY <1>5, <3>1
    <2>4. Byte(s, i + 2 - 1) % 64 = y /\ Byte(s, i + 3 - 1) % 64 = z
      BY <2>1, <2>3, SixBits
    <2>5. idris_utf8_index(s, m - 1) = 64 * (64 * x + (Byte(s, i + 2 - 1) % 64))
                                         + (Byte(s, i + 3 - 1) % 64)
      BY <1>7, <1>8, <2>2, UpTo4
    <2> QED
      BY <2>1, <2>4, <2>5
  <1>13. ASSUME NEW w \in Nat, NEW x \in Nat, NEW y \in Nat, NEW z \in Nat,
                FourParts(c, e, w, x, y, z)
         PROVE  idris_utf8_index(s, m - 1) = c
    <2>1. /\ Len(e) = 4 /\ e[1] = 240 + w /\ e[2] = 128 + x /\ e[3] = 128 + y /\ e[4] = 128 + z
          /\ w < 8 /\ x < 64 /\ y < 64 /\ z < 64 /\ c = 64 * (64 * (64 * w + x) + y) + z
      BY <1>13 DEF FourParts
    <2>2. LeadWidth(b) = 4 /\ LeadBits(b) = w
      BY <1>9, <2>1, LeadParts
    <2>3. Byte(s, i + 2 - 1) = e[2] /\ Byte(s, i + 3 - 1) = e[3] /\ Byte(s, i + 4 - 1) = e[4]
      <3>1. /\ i + 2 - 1 = i + 1 /\ 1 \in 0 .. Len(e) - 1 /\ 1 + 1 = 2
            /\ i + 3 - 1 = i + 2 /\ 2 \in 0 .. Len(e) - 1 /\ 2 + 1 = 3
            /\ i + 4 - 1 = i + 3 /\ 3 \in 0 .. Len(e) - 1 /\ 3 + 1 = 4
        BY <1>4, <2>1
      <3> QED
        BY <1>5, <3>1
    <2>4. /\ Byte(s, i + 2 - 1) % 64 = x /\ Byte(s, i + 3 - 1) % 64 = y
          /\ Byte(s, i + 4 - 1) % 64 = z
      BY <2>1, <2>3, SixBits
    <2>5. idris_utf8_index(s, m - 1) = 64 * (64 * (64 * w + (Byte(s, i + 2 - 1) % 64))
                                                  + (Byte(s, i + 3 - 1) % 64))
                                         + (Byte(s, i + 4 - 1) % 64)
      BY <1>7, <1>8, <2>2, UpTo4
    <2> QED
      BY <2>1, <2>4, <2>5
  <1>14. idris_utf8_index(s, m - 1) = c
    BY <1>2, <1>10, <1>11, <1>12, <1>13, StandardParts DEF s, c
  <1> QED
    BY <1>14 DEF s, c

----------------------------------------------------------------------------
(* Turning a text around                                                   *)

LEMMA TurnedText ==
  ASSUME NEW t \in Texts
  PROVE  /\ Reverse(t) \in Texts /\ Len(Reverse(t)) = Len(t)
         /\ \A i \in 1 .. Len(t) : Reverse(t)[i] = t[Len(t) - i + 1]
  <1>1. Len(t) \in Nat /\ \A i \in 1 .. Len(t) : t[i] \in Chars
    BY TextChars
  <1>2. \A i \in 1 .. Len(t) : Len(t) - i + 1 \in 1 .. Len(t)
    BY <1>1
  <1>3. \A i \in 1 .. Len(t) : t[(Len(t) - i) + 1] \in Chars
    BY <1>1, <1>2
  <1>4. Reverse(t) \in [1 .. Len(t) -> Chars]
    BY <1>3 DEF Reverse
  <1>5. Reverse(t) \in Seq(Chars) /\ Len(Reverse(t)) = Len(t)
    BY <1>1, <1>4, SeqDef, LenProperties
  <1>6. \A i \in 1 .. Len(t) : Reverse(t)[i] = t[Len(t) - i + 1]
    BY DEF Reverse
  <1> QED
    BY <1>5, <1>6 DEF Texts

\* What is encoded first is encoded last in the text that is turned around.
LEMMA TurnedPos ==
  ASSUME NEW t \in Texts, NEW k \in 0 .. Len(t)
  PROVE  Pos(Reverse(t), k) = Len(Encoded(t)) - Pos(t, Len(t) - k)
  <1> DEFINE r == Reverse(t)
             n == Len(t)
             L == Len(Encoded(t))
             Bad == {j \in 0 .. n : Pos(r, j) # L - Pos(t, n - j)}
  <1>1. /\ n \in Nat /\ L \in Nat /\ r \in Texts /\ Len(r) = n
        /\ \A i \in 1 .. n : r[i] = t[n - i + 1]
    BY TextChars, EncodedType, TurnedText
  <1> HIDE DEF r
  <1>2. SUFFICES ASSUME Bad # {} PROVE FALSE
    BY DEF r
  <1>3. PICK m \in Bad : \A j \in Bad : m <= j
    <2>1. Bad \subseteq Nat
      OBVIOUS
    <2> HIDE DEF Bad
    <2> QED
      BY <1>2, <2>1, LeastNumber
  <1>4. m \in 0 .. n /\ Pos(r, m) # L - Pos(t, n - m)
    BY <1>3
  <1>5. m # 0
    <2>1. Pos(r, 0) = 0 /\ Pos(t, n) = L
      BY <1>1, PosEnds
    <2>2. m = 0 => n - m = n
      BY <1>1
    <2> QED
      BY <1>1, <1>4, <2>1, <2>2
  <1>6. m - 1 \in 0 .. n - 1 /\ n - m \in 0 .. n - 1 /\ (m - 1) + 1 = m /\ (n - m) + 1 = n - (m - 1)
        /\ m \in 1 .. n /\ n - m + 1 \in 1 .. n /\ m - 1 < m /\ m - 1 \in 0 .. n
    <2> HIDE DEF n
    <2> QED
      BY <1>1, <1>4, <1>5
  <1>7. Pos(r, m - 1) = L - Pos(t, n - (m - 1))
    <2>1. m - 1 \notin Bad
      BY <1>3, <1>6
    <2> QED
      BY <1>6, <2>1
  <1> DEFINE l == Len(Encoding[t[n - m + 1]])
  <1>8. l \in Nat
    BY <1>6, TextChars, CharBytes
  <1>9. Pos(r, m) = Pos(r, m - 1) + l
    <2>1. Pos(r, (m - 1) + 1) = Pos(r, m - 1) + Len(Encoding[r[(m - 1) + 1]])
      BY <1>1, <1>6, PosNext
    <2>2. r[m] = t[n - m + 1]
      BY <1>1, <1>6
    <2> QED
      BY <1>6, <2>1, <2>2
  <1>10. Pos(t, n - (m - 1)) = Pos(t, n - m) + l
    <2>1. Pos(t, (n - m) + 1) = Pos(t, n - m) + Len(Encoding[t[(n - m) + 1]])
      BY <1>6, PosNext
    <2> QED
      BY <1>6, <2>1
  <1>11. Pos(t, n - m) \in Nat
    <2>1. n - m \in 0 .. n
      BY <1>1, <1>6
    <2> QED
      BY <2>1, PosNat
  <1> HIDE DEF l, L, n
  <1>12. Pos(r, m) = L - Pos(t, n - m)
    BY <1>1, <1>7, <1>8, <1>9, <1>10, <1>11
  <1> QED
    BY <1>4, <1>12

\* reverse_char: a character is turned around in its own place.
LEMMA CharTurned ==
  ASSUME NEW t \in Texts, NEW k \in 0 .. Len(t) - 1, NEW p \in Pos(t, k) .. Pos(t, k + 1) - 1
  PROVE  CharsTurned(Encoded(t))[p + 1] = Byte(Encoded(t), Pos(t, k) + (Pos(t, k + 1) - 1) - p)
  <1> DEFINE s == Encoded(t)
             first == Pos(t, k)
             next == Pos(t, k + 1)
             Good(j) == /\ j = 0 \/ ~Continues(Byte(s, j))
                        /\ \A n \in j + 1 .. p : Continues(Byte(s, n))
  <1>1. Len(t) \in Nat /\ k \in 0 .. Len(t) /\ k + 1 \in 0 .. Len(t)
    BY TextChars
  <1>2. s \in Strs /\ Len(s) \in Nat /\ first \in 0 .. Len(s) /\ next \in 0 .. Len(s)
    BY <1>1, EncodedType, PosCuts
  <1>3. ~Continues(Byte(s, first)) /\ \A n \in first + 1 .. next - 1 : Continues(Byte(s, n))
    BY <1>1, PosStarts, BytesBetween
  <1>4. Over(s, first + 1) = next
    <2>1. first + 1 \in first + 1 .. next
      <3> HIDE DEF first, next
      <3> QED
        BY <1>2 DEF first, next
    <2> QED
      BY <2>1, OverChar
  <1> HIDE DEF s, first, next
  <1>5. p \in Nat /\ first <= p /\ p < next /\ p + 1 \in 1 .. Len(s) /\ first \in 0 .. p
    <2>1. p \in first .. next - 1
      BY DEF first, next
    <2> QED
      BY <1>2, <2>1
  <1>6. Good(first)
    <2>1. \A n \in first + 1 .. p : n \in first + 1 .. next - 1
      BY <1>2, <1>5
    <2> QED
      BY <1>3, <2>1
  <1>7. ASSUME NEW j \in 0 .. p, Good(j) PROVE j = first
    <2>1. ~(j < first)
      <3>1. j < first => first \in j + 1 .. p
        BY <1>2, <1>5
      <3> QED
        BY <1>3, <1>7, <3>1
    <2>2. ~(first < j)
      <3>1. first < j => j \in first + 1 .. next - 1 /\ j # 0
        BY <1>2, <1>5
      <3> QED
        BY <1>3, <1>7, <3>1
    <2> QED
      BY <1>2, <2>1, <2>2
  <1>8. FirstOf(s, p) = first
    <2>1. FirstOf(s, p) = CHOOSE j \in 0 .. p : Good(j)
      BY DEF FirstOf
    <2> HIDE DEF Good
    <2> QED
      BY <1>5, <1>6, <1>7, <2>1
  <1>9. (p + 1) - 1 = p /\ DOMAIN s = 1 .. Len(s)
    BY <1>2, <1>5, LenProperties DEF Strs
  <1>10. CharsTurned(s)[p + 1] =
           Byte(s, FirstOf(s, (p + 1) - 1) + (Over(s, FirstOf(s, (p + 1) - 1) + 1) - 1) - ((p + 1) - 1))
    BY <1>5, <1>9 DEF CharsTurned
  <1> QED
    BY <1>4, <1>8, <1>9, <1>10 DEF s, first, next

LEMMA Mirror ==
  ASSUME NEW a \in Nat, NEW b \in Nat, NEW p \in Nat, a <= p, p < b
  PROVE  /\ a + (b - 1) - p \in Nat
         /\ \A n \in Nat : b = a + n => (b - 1) - p \in 0 .. n - 1
         /\ \A m, j \in Nat : p = m - j => (m - b) + ((b - 1) - p) = j - 1
  OBVIOUS

\* idris_utf8_rev turns the text around, and no character.
LEMMA Turned ==
  ASSUME NEW t \in Texts
  PROVE  idris_utf8_rev(Encoded(t)) = Encoded(Reverse(t))
  <1> DEFINE s == Encoded(t)
             L == Len(s)
             r == Reverse(t)
             n == Len(t)
             c == CharsTurned(s)
             v == idris_utf8_rev(s)
  <1>1. /\ n \in Nat /\ s \in Strs /\ L \in Nat /\ r \in Texts /\ Len(r) = n
        /\ Encoded(r) \in Strs /\ Len(Encoded(r)) \in Nat
    BY TextChars, EncodedType, TurnedText
  <1>2. Len(Encoded(r)) = L
    <2>1. Pos(r, n) = Len(Encoded(r)) /\ Pos(t, 0) = 0
      BY <1>1, PosEnds
    <2>2. n \in 0 .. n /\ n - n = 0
      BY <1>1
    <2>3. Pos(r, n) = L - Pos(t, n - n)
      BY <2>2, TurnedPos
    <2> QED
      BY <1>1, <2>1, <2>2, <2>3
  <1>3. DOMAIN s = 1 .. L
    BY <1>1, LenProperties DEF Strs
  <1>4. c = [i \in 1 .. L |-> c[i]]
    BY <1>3 DEF CharsTurned
  <1>5. \A i \in 1 .. L : c[i] \in Nat
    <2> SUFFICES ASSUME NEW i \in 1 .. L PROVE c[i] \in Nat
      OBVIOUS
    <2>1. i - 1 \in 0 .. L - 1 /\ (i - 1) + 1 = i
      BY <1>1
    <2>2. PICK k \in 0 .. n - 1 : Pos(t, k) <= i - 1 /\ i - 1 < Pos(t, k + 1)
      BY <2>1, ByteOfChar
    <2>3. Pos(t, k) \in Nat /\ Pos(t, k + 1) \in Nat
      <3>1. k \in 0 .. n /\ k + 1 \in 0 .. n
        BY <1>1
      <3> QED
        BY <3>1, PosNat
    <2>4. i - 1 \in Pos(t, k) .. Pos(t, k + 1) - 1
      BY <2>1, <2>2, <2>3
    <2>5. c[(i - 1) + 1] = Byte(s, Pos(t, k) + (Pos(t, k + 1) - 1) - (i - 1))
      BY <2>4, CharTurned
    <2>6. Pos(t, k) + (Pos(t, k + 1) - 1) - (i - 1) \in Nat
      <3>1. i - 1 \in Nat
        BY <1>1, <2>1
      <3> QED
        BY <2>2, <2>3, <3>1, Mirror
    <2>7. Byte(s, Pos(t, k) + (Pos(t, k + 1) - 1) - (i - 1)) \in Nat
      BY <2>6, AnyByte DEF Lead, Rest
    <2> QED
      BY <2>1, <2>5, <2>7
  <1>6. c \in Seq(Nat) /\ Len(c) = L
    <2> HIDE DEF c
    <2>1. c \in [1 .. L -> Nat]
      BY <1>4, <1>5
    <2> QED
      BY <1>1, <2>1, SeqDef, LenProperties
  <1>7. v \in Seq(Nat) /\ Len(v) = L /\ \A j \in 1 .. L : v[j] = c[(L - j) + 1]
    <2> HIDE DEF c, L
    <2>1. v = [j \in 1 .. L |-> c[(L - j) + 1]]
      BY <1>6 DEF idris_utf8_rev, Reverse, c
    <2>2. \A j \in 1 .. L : (L - j) + 1 \in 1 .. L
      BY <1>1
    <2>3. v \in [1 .. L -> Nat]
      BY <1>5, <2>1, <2>2
    <2> HIDE DEF v
    <2> QED
      BY <1>1, <2>1, <2>3, SeqDef, LenProperties
  <1>8. ASSUME NEW j \in 1 .. L PROVE v[j] = Encoded(r)[j]
    <2> DEFINE p == L - j
    <2>1. p \in 0 .. L - 1 /\ (L - j) + 1 = p + 1 /\ j - 1 \in Nat /\ j - 1 < L /\ (j - 1) + 1 = j
      BY <1>1
    <2>2. PICK k \in 0 .. n - 1 : Pos(t, k) <= p /\ p < Pos(t, k + 1)
      BY <2>1, ByteOfChar
    <2> DEFINE e == Encoding[t[k + 1]]
               m == (n - 1) - k
               q == (Pos(t, k + 1) - 1) - p
    <2>3. k \in 0 .. n /\ k + 1 \in 0 .. n /\ k + 1 \in 1 .. n /\ m \in 0 .. n - 1
          /\ m \in 0 .. n /\ n - m = k + 1 /\ m + 1 \in 1 .. n /\ n - (m + 1) + 1 = k + 1
      BY <1>1
    <2>4. Pos(t, k) \in Nat /\ Pos(t, k + 1) \in Nat
      BY <2>3, PosNat
    <2>5. Pos(t, k + 1) = Pos(t, k) + Len(e) /\ Len(e) \in Nat
      BY <2>2, <2>3, PosNext, TextChars, CharBytes
    <2>6. v[j] = Byte(s, Pos(t, k) + q)
      <3>1. p \in Pos(t, k) .. Pos(t, k + 1) - 1
        BY <2>1, <2>2, <2>4
      <3>2. c[p + 1] = Byte(s, Pos(t, k) + (Pos(t, k + 1) - 1) - p)
        BY <3>1, CharTurned
      <3>3. Pos(t, k) + (Pos(t, k + 1) - 1) - p = Pos(t, k) + q
        BY <2>1, <2>4
      <3> QED
        BY <1>7, <2>1, <3>2, <3>3
    <2>7. q \in 0 .. Len(e) - 1
      <3> HIDE DEF p, e
      <3> QED
        <4>1. p \in Nat
          BY <1>1, <2>1
        <4> QED
          BY <2>2, <2>4, <2>5, <4>1, Mirror
    <2>8. Byte(s, Pos(t, k) + q) = e[q + 1]
      BY <2>2, <2>7, PosNext
    <2>9. r[m + 1] = t[k + 1]
      BY <2>3, TurnedText
    <2>10. Pos(r, m) = L - Pos(t, k + 1)
      <3>1. Pos(r, m) = L - Pos(t, n - m)
        BY <2>3, TurnedPos
      <3> QED
        BY <2>3, <3>1
    <2>11. Byte(Encoded(r), Pos(r, m) + q) = e[q + 1]
      <3>1. m \in 0 .. Len(r) - 1
        BY <1>1, <2>3
      <3> HIDE DEF r, m, q
      <3>2. \A i \in 0 .. Len(Encoding[r[m + 1]]) - 1 :
              Byte(Encoded(r), Pos(r, m) + i) = Encoding[r[m + 1]][i + 1]
        BY <1>1, <3>1, PosNext
      <3> QED
        BY <2>7, <2>9, <3>2
    <2>12. Pos(r, m) + q = j - 1
      <3>1. p = L - j
        OBVIOUS
      <3> HIDE DEF p
      <3> QED
        <4>1. p \in Nat /\ j \in Nat /\ L \in Nat
          BY <1>1, <2>1
        <4>2. (L - Pos(t, k + 1)) + q = j - 1
          BY <2>2, <2>4, <3>1, <4>1, Mirror
        <4> QED
          BY <2>10, <4>2
    <2>13. Byte(Encoded(r), j - 1) = Encoded(r)[j]
      BY <1>2, <2>1 DEF Byte
    <2> QED
      BY <2>6, <2>8, <2>11, <2>12, <2>13
  <1> HIDE DEF v, L, r
  <1>9. v = Encoded(r)
    BY <1>1, <1>2, <1>7, <1>8, SeqEqual DEF Strs
  <1> QED
    BY <1>9 DEF v, r

----------------------------------------------------------------------------
(* Comparing texts by their bytes                                          *)

LEMMA PartsByLength ==
  ASSUME NEW c \in Nat, NEW e \in Strs, Standard(c, e)
  PROVE  /\ Len(e) = 1 => e[1] = c
         /\ Len(e) = 2 => \E x, y \in Nat : TwoParts(c, e, x, y)
         /\ Len(e) = 3 => \E x, y, z \in Nat : ThreeParts(c, e, x, y, z)
         /\ Len(e) = 4 => \E w, x, y, z \in Nat : FourParts(c, e, w, x, y, z)
  <1>1. OnePart(c, e) => Len(e) = 1 /\ e[1] = c
    BY DEF OnePart
  <1>2. \A x, y \in Nat : TwoParts(c, e, x, y) => Len(e) = 2
    BY DEF TwoParts
  <1>3. \A x, y, z \in Nat : ThreeParts(c, e, x, y, z) => Len(e) = 3
    BY DEF ThreeParts
  <1>4. \A w, x, y, z \in Nat : FourParts(c, e, w, x, y, z) => Len(e) = 4
    BY DEF FourParts
  <1>5. 1 # 2 /\ 1 # 3 /\ 1 # 4 /\ 2 # 3 /\ 2 # 4 /\ 3 # 4
    OBVIOUS
  <1> QED
    BY <1>1, <1>2, <1>3, <1>4, <1>5, StandardParts

\* The encodings of a given length are a range of numbers, and of first bytes.
LEMMA Bands ==
  ASSUME NEW c \in Nat, NEW e \in Strs, Standard(c, e)
  PROVE  /\ Len(e) = 1 \/ Len(e) = 2 \/ Len(e) = 3 \/ Len(e) = 4
         /\ e[1] \in Nat
         /\ Len(e) = 1 => e[1] < 128 /\ c < 128
         /\ Len(e) = 2 => e[1] >= 192 /\ e[1] < 224 /\ c >= 128 /\ c < 2048
         /\ Len(e) = 3 => e[1] >= 224 /\ e[1] < 240 /\ c >= 2048 /\ c < 65536
         /\ Len(e) = 4 => e[1] >= 240 /\ c >= 65536
  <1> DEFINE Goal == /\ Len(e) = 1 \/ Len(e) = 2 \/ Len(e) = 3 \/ Len(e) = 4
                     /\ e[1] \in Nat
                     /\ Len(e) = 1 => e[1] < 128 /\ c < 128
                     /\ Len(e) = 2 => e[1] >= 192 /\ e[1] < 224 /\ c >= 128 /\ c < 2048
                     /\ Len(e) = 3 => e[1] >= 224 /\ e[1] < 240 /\ c >= 2048 /\ c < 65536
                     /\ Len(e) = 4 => e[1] >= 240 /\ c >= 65536
  <1>1. CASE OnePart(c, e)
    BY <1>1 DEF OnePart
  <1>2. ASSUME NEW x \in Nat, NEW y \in Nat, TwoParts(c, e, x, y) PROVE Goal
    BY <1>2 DEF TwoParts
  <1>3. ASSUME NEW x \in Nat, NEW y \in Nat, NEW z \in Nat, ThreeParts(c, e, x, y, z) PROVE Goal
    BY <1>3 DEF ThreeParts
  <1>4. ASSUME NEW w \in Nat, NEW x \in Nat, NEW y \in Nat, NEW z \in Nat,
               FourParts(c, e, w, x, y, z)
        PROVE  Goal
    BY <1>4 DEF FourParts
  <1> HIDE DEF Goal
  <1>5. Goal
    BY <1>1, <1>2, <1>3, <1>4, StandardParts DEF Goal
  <1> QED
    BY <1>5 DEF Goal

\* Two encodings differ first in their mth byte, by which the one is below.
FirstLess(d, e, m) ==
  /\ m \in Nat \ {0} /\ m <= Len(d) /\ m <= Len(e)
  /\ d[m] < e[m]
  /\ \A j \in 1 .. m - 1 : d[j] = e[j]

\* A character below another one has the lower bytes: the order of the numbers is
\* that of their encodings.
LEMMA CharOrder ==
  ASSUME NEW c \in Chars, NEW d \in Chars, c < d
  PROVE  \E m : FirstLess(Encoding[c], Encoding[d], m)
  <1> DEFINE e == Encoding[c]
             f == Encoding[d]
  <1>1. c \in Nat /\ e \in Strs /\ Standard(c, e) /\ d \in Nat /\ f \in Strs /\ Standard(d, f)
    BY CharBytes
  <1> HIDE DEF e, f
  <1>2. Len(e) \in Nat /\ Len(f) \in Nat /\ Len(e) >= 1 /\ Len(f) >= 1
    BY <1>1, Bands
  <1>3. CASE Len(e) # Len(f)
    <2>1. e[1] < f[1]
      BY <1>1, <1>3, Bands
    <2>2. FirstLess(e, f, 1)
      BY <1>2, <2>1 DEF FirstLess
    <2> QED
      BY <2>2 DEF e, f
  <1>4. CASE Len(e) = 1 /\ Len(f) = 1
    <2>1. e[1] = c /\ f[1] = d
      BY <1>1, <1>4, PartsByLength
    <2>2. FirstLess(e, f, 1)
      BY <1>2, <2>1 DEF FirstLess
    <2> QED
      BY <2>2 DEF e, f
  <1>5. CASE Len(e) = 2 /\ Len(f) = 2
    <2>1. \E x, y \in Nat : TwoParts(c, e, x, y)
      BY <1>1, <1>5, PartsByLength
    <2>2. \E x, y \in Nat : TwoParts(d, f, x, y)
      BY <1>1, <1>5, PartsByLength
    <2>3. PICK x \in Nat, y \in Nat : TwoParts(c, e, x, y)
      BY <2>1
    <2>4. PICK u \in Nat, v \in Nat : TwoParts(d, f, u, v)
      BY <2>2
    <2>5. x < u \/ (x = u /\ y < v)
      BY <2>3, <2>4 DEF TwoParts
    <2>6. e[1] = 192 + x /\ e[2] = 128 + y /\ f[1] = 192 + u /\ f[2] = 128 + v
      BY <2>3, <2>4 DEF TwoParts
    <2>7. x < u => FirstLess(e, f, 1)
      BY <1>5, <2>6 DEF FirstLess
    <2>8. x = u /\ y < v => FirstLess(e, f, 2)
      BY <1>5, <2>6 DEF FirstLess
    <2> QED
      BY <2>5, <2>7, <2>8 DEF e, f
  <1>6. CASE Len(e) = 3 /\ Len(f) = 3
    <2>1. \E x, y, z \in Nat : ThreeParts(c, e, x, y, z)
      BY <1>1, <1>6, PartsByLength
    <2>2. \E x, y, z \in Nat : ThreeParts(d, f, x, y, z)
      BY <1>1, <1>6, PartsByLength
    <2>3. PICK x \in Nat, y \in Nat, z \in Nat : ThreeParts(c, e, x, y, z)
      BY <2>1
    <2>4. PICK u \in Nat, v \in Nat, w \in Nat : ThreeParts(d, f, u, v, w)
      BY <2>2
    <2>5. x < u \/ (x = u /\ y < v) \/ (x = u /\ y = v /\ z < w)
      BY <2>3, <2>4 DEF ThreeParts
    <2>6. /\ e[1] = 224 + x /\ e[2] = 128 + y /\ e[3] = 128 + z
          /\ f[1] = 224 + u /\ f[2] = 128 + v /\ f[3] = 128 + w
      BY <2>3, <2>4 DEF ThreeParts
    <2>7. x < u => FirstLess(e, f, 1)
      BY <1>6, <2>6 DEF FirstLess
    <2>8. x = u /\ y < v => FirstLess(e, f, 2)
      BY <1>6, <2>6 DEF FirstLess
    <2>9. x = u /\ y = v /\ z < w => FirstLess(e, f, 3)
      BY <1>6, <2>6 DEF FirstLess
    <2> QED
      BY <2>5, <2>7, <2>8, <2>9 DEF e, f
  <1>7. CASE Len(e) = 4 /\ Len(f) = 4
    <2>1. \E w, x, y, z \in Nat : FourParts(c, e, w, x, y, z)
      BY <1>1, <1>7, PartsByLength
    <2>2. \E w, x, y, z \in Nat : FourParts(d, f, w, x, y, z)
      BY <1>1, <1>7, PartsByLength
    <2>3. PICK p \in Nat, x \in Nat, y \in Nat, z \in Nat : FourParts(c, e, p, x, y, z)
      BY <2>1
    <2>4. PICK q \in Nat, u \in Nat, v \in Nat, w \in Nat : FourParts(d, f, q, u, v, w)
      BY <2>2
    <2>5. \/ p < q
          \/ p = q /\ x < u
          \/ p = q /\ x = u /\ y < v
          \/ p = q /\ x = u /\ y = v /\ z < w
      BY <2>3, <2>4 DEF FourParts
    <2>6. /\ e[1] = 240 + p /\ e[2] = 128 + x /\ e[3] = 128 + y /\ e[4] = 128 + z
          /\ f[1] = 240 + q /\ f[2] = 128 + u /\ f[3] = 128 + v /\ f[4] = 128 + w
      BY <2>3, <2>4 DEF FourParts
    <2>7. p < q => FirstLess(e, f, 1)
      BY <1>7, <2>6 DEF FirstLess
    <2>8. p = q /\ x < u => FirstLess(e, f, 2)
      BY <1>7, <2>6 DEF FirstLess
    <2>9. p = q /\ x = u /\ y < v => FirstLess(e, f, 3)
      BY <1>7, <2>6 DEF FirstLess
    <2>10. p = q /\ x = u /\ y = v /\ z < w => FirstLess(e, f, 4)
      BY <1>7, <2>6 DEF FirstLess
    <2> QED
      BY <2>5, <2>7, <2>8, <2>9, <2>10 DEF e, f
  <1> QED
    BY <1>1, <1>3, <1>4, <1>5, <1>6, <1>7, Bands

\* Texts that agree in their first n characters agree in the bytes of those.
LEMMA SamePrefix ==
  ASSUME NEW t \in Texts, NEW u \in Texts, NEW n \in Nat, n <= Len(t), n <= Len(u),
         SubSeq(t, 1, n) = SubSeq(u, 1, n)
  PROVE  /\ Pos(t, n) = Pos(u, n)
         /\ \A i \in 0 .. Pos(t, n) - 1 : Byte(Encoded(t), i) = Byte(Encoded(u), i)
  <1>1. n \in 0 .. Len(t) /\ n \in 0 .. Len(u)
    BY TextChars
  <1>2. Pos(t, n) = Pos(u, n)
    BY DEF Pos
  <1>3. \A i \in 0 .. Pos(t, n) - 1 : Byte(Encoded(t), i) = Byte(Encoded(SubSeq(t, 1, n)), i)
    BY <1>1, PosCuts
  <1>4. \A i \in 0 .. Pos(u, n) - 1 : Byte(Encoded(u), i) = Byte(Encoded(SubSeq(u, 1, n)), i)
    BY <1>1, PosCuts
  <1> QED
    BY <1>2, <1>3, <1>4

LEMMA BytesInOrder ==
  ASSUME NEW t \in Texts, NEW u \in Texts, Before(t, u)
  PROVE  strcmpLess(Encoded(t), Encoded(u))
  <1> DEFINE s == Encoded(t)
             r == Encoded(u)
  <1>1. PICK n \in 0 .. Len(t) : /\ n < Len(u)
                                 /\ SubSeq(t, 1, n) = SubSeq(u, 1, n)
                                 /\ n = Len(t) \/ t[n + 1] < u[n + 1]
    BY DEF Before
  <1>2. /\ Len(t) \in Nat /\ Len(u) \in Nat
        /\ s \in Strs /\ Len(s) \in Nat /\ r \in Strs /\ Len(r) \in Nat
    BY TextChars, EncodedType
  <1>3. n \in Nat /\ n <= Len(t) /\ n <= Len(u) /\ n \in 0 .. Len(u) - 1 /\ n \in 0 .. Len(u)
        /\ n + 1 \in 1 .. Len(u)
    BY <1>1, <1>2
  <1> DEFINE P == Pos(t, n)
  <1>4. P = Pos(u, n) /\ \A i \in 0 .. P - 1 : Byte(s, i) = Byte(r, i)
    BY <1>1, <1>3, SamePrefix
  <1>5. P \in 0 .. Len(s)
    BY PosCuts
  <1> DEFINE f == Encoding[u[n + 1]]
  <1>6. Len(f) \in Nat \ {0} /\ Lead(f[1])
    BY <1>3, TextChars, CharBytes
  <1>7. \A j \in 0 .. Len(f) - 1 : Byte(r, P + j) = f[j + 1]
    BY <1>3, <1>4, PosNext
  <1>8. CASE n = Len(t)
    <2>1. P = Len(s)
      BY <1>8, PosEnds
    <2>2. Byte(s, P) = 0
      BY <1>2, <2>1 DEF Byte
    <2>3. Byte(r, P) = f[1]
      <3>1. 0 \in 0 .. Len(f) - 1
        BY <1>6
      <3>2. Byte(r, P + 0) = f[0 + 1]
        BY <1>7, <3>1
      <3>3. P + 0 = P
        BY <1>2, <1>5
      <3> QED
        BY <3>2, <3>3
    <2>4. Byte(s, P) < Byte(r, P)
      BY <1>6, <2>2, <2>3 DEF Lead
    <2> QED
      BY <1>4, <1>5, <2>4 DEF strcmpLess
  <1>9. CASE n # Len(t)
    <2> DEFINE e == Encoding[t[n + 1]]
    <2>1. n \in 0 .. Len(t) - 1 /\ n + 1 \in 1 .. Len(t) /\ n + 1 \in 0 .. Len(t)
      BY <1>1, <1>2, <1>9
    <2>2. t[n + 1] \in Chars /\ u[n + 1] \in Chars /\ t[n + 1] < u[n + 1]
      BY <1>1, <1>3, <1>9, <2>1, TextChars
    <2>3. PICK m : FirstLess(e, f, m)
      BY <2>2, CharOrder
    <2>4. \A j \in 0 .. Len(e) - 1 : Byte(s, P + j) = e[j + 1]
      BY <2>1, PosNext
    <2>5. Len(e) \in Nat /\ Pos(t, n + 1) = P + Len(e) /\ Pos(t, n + 1) \in 0 .. Len(s)
      BY <2>1, <2>2, CharBytes, PosNext, PosCuts
    <2> HIDE DEF e, f, s, r, P
    <2>6. /\ m \in Nat \ {0} /\ m <= Len(e) /\ m <= Len(f) /\ e[m] < f[m]
          /\ \A j \in 1 .. m - 1 : e[j] = f[j]
      BY <2>3 DEF FirstLess
    <2>7. P \in Nat /\ Len(f) \in Nat /\ Len(e) \in Nat /\ P + Len(e) <= Len(s)
      BY <1>2, <1>5, <1>6, <2>5
    <2> DEFINE i == P + (m - 1)
    <2>8. i \in 0 .. Len(s) /\ m - 1 \in 0 .. Len(e) - 1 /\ m - 1 \in 0 .. Len(f) - 1 /\ (m - 1) + 1 = m
      <3>1. m \in Nat \ {0} /\ m <= Len(e) /\ m <= Len(f)
        BY <2>6
      <3> QED
        BY <1>2, <2>7, <3>1
    <2>9. Byte(s, i) < Byte(r, i)
      BY <1>7, <2>4, <2>6, <2>8
    <2>10. ASSUME NEW j \in 0 .. i - 1 PROVE Byte(s, j) = Byte(r, j)
      <3>1. CASE j < P
        <4>1. j \in 0 .. P - 1
          BY <2>7, <3>1
        <4> QED
          BY <1>4, <4>1
      <3>2. CASE ~(j < P)
        <4>1. ASSUME NEW a \in Nat, NEW b \in Nat, NEW k \in Nat, NEW x \in Nat, b >= 1,
                     k <= (a + (b - 1)) - 1, ~(k < a), b <= x
              PROVE  /\ k - a \in 0 .. x - 1 /\ (k - a) + 1 \in 1 .. b - 1 /\ a + (k - a) = k
          BY <4>1
        <4>2. j \in Nat /\ j <= (P + (m - 1)) - 1 /\ m \in Nat /\ m >= 1 /\ m <= Len(e) /\ m <= Len(f)
          <5>1. i \in Nat
            BY <1>2, <2>8
          <5>2. m \in Nat /\ m >= 1 /\ m <= Len(e) /\ m <= Len(f)
            BY <2>6
          <5> QED
            BY <5>1, <5>2
        <4>3. j - P \in 0 .. Len(e) - 1 /\ j - P \in 0 .. Len(f) - 1
              /\ (j - P) + 1 \in 1 .. m - 1 /\ P + (j - P) = j
          BY <2>7, <3>2, <4>1, <4>2
        <4>4. Byte(s, P + (j - P)) = e[(j - P) + 1] /\ Byte(r, P + (j - P)) = f[(j - P) + 1]
          BY <1>7, <2>4, <4>3
        <4> QED
          BY <2>6, <4>3, <4>4
      <3> QED
        BY <3>1, <3>2
    <2> HIDE DEF i
    <2>11. strcmpLess(s, r)
      BY <2>8, <2>9, <2>10 DEF strcmpLess
    <2> QED
      BY <2>11 DEF s, r
  <1> QED
    BY <1>8, <1>9

LEMMA NotBoth ==
  ASSUME NEW t \in Texts, NEW u \in Texts, strcmpLess(Encoded(t), Encoded(u))
  PROVE  Encoded(t) # Encoded(u) /\ ~strcmpLess(Encoded(u), Encoded(t))
  <1> DEFINE s == Encoded(t)
             r == Encoded(u)
  <1>1. Len(s) \in Nat /\ Len(r) \in Nat
    BY EncodedType
  <1>2. \A k \in Nat : Byte(s, k) \in Nat /\ Byte(r, k) \in Nat
    BY AnyByte DEF Lead, Rest
  <1>3. strcmpLess(s, r)
    OBVIOUS
  <1> HIDE DEF s, r
  <1>4. PICK i \in 0 .. Len(s) : Byte(s, i) < Byte(r, i) /\ \A j \in 0 .. i - 1 : Byte(s, j) = Byte(r, j)
    BY <1>3 DEF strcmpLess
  <1>5. i \in Nat /\ Byte(s, i) \in Nat /\ Byte(r, i) \in Nat
    BY <1>1, <1>2
  <1>6. s # r
    BY <1>4, <1>5
  <1>7. ASSUME strcmpLess(r, s) PROVE FALSE
    <2>1. PICK k \in 0 .. Len(r) : Byte(r, k) < Byte(s, k) /\ \A j \in 0 .. k - 1 : Byte(r, j) = Byte(s, j)
      BY <1>7 DEF strcmpLess
    <2>2. k \in Nat /\ Byte(s, k) \in Nat /\ Byte(r, k) \in Nat
      BY <1>1, <1>2
    <2>3. CASE i < k
      <3>1. i \in 0 .. k - 1
        BY <1>5, <2>2, <2>3
      <3> QED
        BY <1>4, <1>5, <2>1, <3>1
    <2>4. CASE k < i
      <3>1. k \in 0 .. i - 1
        BY <1>5, <2>2, <2>4
      <3> QED
        BY <1>4, <2>1, <2>2, <3>1
    <2>5. CASE i = k
      BY <1>4, <1>5, <2>1, <2>2, <2>5
    <2> QED
      BY <1>5, <2>2, <2>3, <2>4, <2>5
  <1> QED
    BY <1>6, <1>7 DEF s, r

\* One of two texts comes first, unless they are the same.
LEMMA OneBefore ==
  ASSUME NEW t \in Texts, NEW u \in Texts, t # u
  PROVE  Before(t, u) \/ Before(u, t)
  <1> DEFINE Same(n) == n <= Len(t) /\ n <= Len(u) /\ SubSeq(t, 1, n) = SubSeq(u, 1, n)
             T == {n \in 0 .. Len(t) : Same(n)}
  <1>1. Len(t) \in Nat /\ Len(u) \in Nat
    BY TextChars
  <1>2. T \subseteq Nat /\ 0 \in T
    <2>1. SubSeq(t, 1, 0) = <<>> /\ SubSeq(u, 1, 0) = <<>>
      BY SubSeqEmpty
    <2> QED
      BY <1>1, <2>1
  <1>3. PICK n \in T : \A m \in T : m <= n
    <2>1. \A m \in T : m <= Len(t)
      BY <1>1
    <2> HIDE DEF T
    <2> QED
      BY <1>1, <1>2, <2>1, GreatestNumber
  <1>4. n \in Nat /\ n <= Len(t) /\ n <= Len(u) /\ SubSeq(t, 1, n) = SubSeq(u, 1, n)
    BY <1>1, <1>3
  <1>5. CASE n = Len(t) /\ n = Len(u)
    <2>1. SubSeq(t, 1, Len(t)) = t /\ SubSeq(u, 1, Len(u)) = u
      BY SubSeqFull DEF Texts
    <2> QED
      BY <1>4, <1>5, <2>1
  <1>6. CASE n = Len(t) /\ n # Len(u)
    <2>1. n \in 0 .. Len(t) /\ n < Len(u)
      BY <1>1, <1>4, <1>6
    <2> QED
      BY <1>4, <1>6, <2>1 DEF Before
  <1>7. CASE n # Len(t) /\ n = Len(u)
    <2>1. n \in 0 .. Len(u) /\ n < Len(t)
      BY <1>1, <1>4, <1>7
    <2> QED
      BY <1>4, <1>7, <2>1 DEF Before
  <1>8. CASE n # Len(t) /\ n # Len(u)
    <2>1. /\ n \in 0 .. Len(u) /\ n < Len(t) /\ n \in 0 .. Len(t) /\ n < Len(u)
          /\ n + 1 \in 1 .. Len(t) /\ n + 1 \in 1 .. Len(u)
      BY <1>1, <1>4, <1>8
    <2>2. t[n + 1] \in Nat /\ u[n + 1] \in Nat
      BY <2>1, TextChars, CharBytes
    <2>3. t[n + 1] # u[n + 1]
      <3>1. SUFFICES ASSUME t[n + 1] = u[n + 1] PROVE FALSE
        OBVIOUS
      <3>2. /\ SubSeq(t, 1, n + 1) = SubSeq(t, 1, (n + 1) - 1) \o <<t[n + 1]>>
            /\ SubSeq(u, 1, n + 1) = SubSeq(u, 1, (n + 1) - 1) \o <<u[n + 1]>>
        <4>1. 1 \in 1 .. Len(t) /\ 1 \in 1 .. Len(u)
          BY <1>1, <2>1
        <4> QED
          BY <2>1, <4>1, SubSeqRecursiveSecond DEF Texts
      <3>3. (n + 1) - 1 = n
        BY <1>4
      <3>4. SubSeq(t, 1, n + 1) = SubSeq(u, 1, n + 1)
        BY <1>4, <3>1, <3>2, <3>3
      <3>5. n + 1 \in T /\ ~(n + 1 <= n)
        BY <1>1, <1>4, <2>1, <3>4
      <3> QED
        BY <1>3, <3>5
    <2>4. t[n + 1] < u[n + 1] \/ u[n + 1] < t[n + 1]
      BY <2>2, <2>3
    <2> QED
      BY <1>4, <2>1, <2>4 DEF Before
  <1> QED
    BY <1>5, <1>6, <1>7, <1>8

\* strcmp and the comparison of bytes see the order of the texts.
LEMMA Comparisons ==
  ASSUME NEW t \in Texts, NEW u \in Texts
  PROVE  /\ strcmpLess(Encoded(t), Encoded(u)) <=> Before(t, u)
         /\ Encoded(t) = Encoded(u) <=> t = u
  <1>1. Before(t, u) => strcmpLess(Encoded(t), Encoded(u)) /\ Encoded(t) # Encoded(u)
                        /\ ~strcmpLess(Encoded(u), Encoded(t))
    BY BytesInOrder, NotBoth
  <1>2. Before(u, t) => Encoded(t) # Encoded(u) /\ ~strcmpLess(Encoded(t), Encoded(u))
    BY BytesInOrder, NotBoth
  <1>3. t = u => ~strcmpLess(Encoded(t), Encoded(u)) /\ ~Before(t, u)
    <2>1. strcmpLess(Encoded(t), Encoded(u)) => Encoded(t) # Encoded(u)
      BY NotBoth
    <2> QED
      BY <1>1, <2>1
  <1>4. t # u => Before(t, u) \/ Before(u, t)
    BY OneBefore
  <1> QED
    BY <1>1, <1>2, <1>3, <1>4

----------------------------------------------------------------------------
(* Cells                                                                   *)

\* The cell v is a string with the text t: it has the bytes itself, or those of a
\* string from the start of a character on.
IsWhole(v, t) == v = CT_STRING(Encoded(t))
IsShared(v, t, u, k) ==
  /\ v = [kind |-> "STROFFSET", base |-> CT_STRING(Encoded(u)), offset |-> Pos(u, k)]
  /\ t = SubSeq(u, k + 1, Len(u))
CellOf(v, t) == IsWhole(v, t) \/ \E u \in Texts : \E k \in 0 .. Len(u) : IsShared(v, t, u, k)

\* Whichever it is, it is read alike.
LEMMA CellRead ==
  ASSUME NEW t \in Texts, NEW v, CellOf(v, t)
  PROVE  /\ GETSTR(v) = Encoded(t) /\ GETSTRLEN(v) = Len(Encoded(t))
         /\ \E u \in Texts : \E k \in 0 .. Len(u) :
              /\ t = SubSeq(u, k + 1, Len(u)) /\ OffsetOf(v) = Pos(u, k)
              /\ RootOf(v) = CT_STRING(Encoded(u))
  <1>1. CASE IsWhole(v, t)
    <2>1. ISSTR(v) /\ GETSTR(v) = Encoded(t) /\ OffsetOf(v) = 0 /\ RootOf(v) = v
      BY <1>1 DEF IsWhole, CT_STRING, ISSTR, GETSTR, OffsetOf, RootOf
    <2>2. 0 \in 0 .. Len(t) /\ t = SubSeq(t, 0 + 1, Len(t)) /\ Pos(t, 0) = 0
      BY TextChars, SubSeqFull, PosEnds DEF Texts
    <2>3. /\ 0 \in 0 .. Len(t) /\ t = SubSeq(t, 0 + 1, Len(t)) /\ OffsetOf(v) = Pos(t, 0)
          /\ RootOf(v) = CT_STRING(Encoded(t))
      BY <1>1, <2>1, <2>2 DEF IsWhole
    <2> QED
      BY <2>1, <2>3 DEF GETSTRLEN
  <1>2. CASE \E u \in Texts : \E k \in 0 .. Len(u) : IsShared(v, t, u, k)
    <2>1. PICK u \in Texts : \E k \in 0 .. Len(u) : IsShared(v, t, u, k)
      BY <1>2
    <2>2. PICK k \in 0 .. Len(u) : IsShared(v, t, u, k)
      BY <2>1
    <2>3. /\ ~ISSTR(v) /\ v.base.str = Encoded(u) /\ v.offset = Pos(u, k)
          /\ v.base = CT_STRING(Encoded(u))
      BY <2>2 DEF IsShared, CT_STRING, ISSTR
    <2>4. From(Encoded(u), Pos(u, k)) = Encoded(t)
      BY <2>2, PosCuts DEF IsShared
    <2>5. GETSTR(v) = Encoded(t) /\ OffsetOf(v) = Pos(u, k) /\ RootOf(v) = CT_STRING(Encoded(u))
      BY <2>3, <2>4 DEF GETSTR, OffsetOf, RootOf
    <2>6. t = SubSeq(u, k + 1, Len(u))
      BY <2>2 DEF IsShared
    <2> QED
      BY <2>5, <2>6 DEF GETSTRLEN
  <1> QED
    BY <1>1, <1>2 DEF CellOf

\* What TypeOK says of a cell.
LEMMA CellType ==
  ASSUME NEW t \in Texts, NEW v, CellOf(v, t), ~ISSTR(v)
  PROVE  ISSTR(v.base) /\ v.offset \in Starts(v.base.str) \cup {Len(v.base.str)}
  <1>1. ~IsWhole(v, t)
    BY DEF IsWhole, CT_STRING, ISSTR
  <1>2. PICK u \in Texts : \E k \in 0 .. Len(u) : IsShared(v, t, u, k)
    BY <1>1 DEF CellOf
  <1>3. PICK k \in 0 .. Len(u) : IsShared(v, t, u, k)
    BY <1>2
  <1>4. v.base.str = Encoded(u) /\ v.offset = Pos(u, k) /\ ISSTR(v.base)
    BY <1>3 DEF IsShared, CT_STRING, ISSTR
  <1>5. Pos(u, k) \in 0 .. Len(Encoded(u)) /\ Len(Encoded(u)) \in Nat
    BY PosCuts, EncodedType
  <1>6. CASE Pos(u, k) = Len(Encoded(u))
    BY <1>4, <1>6
  <1>7. CASE Pos(u, k) # Len(Encoded(u))
    <2>1. Pos(u, k) \in 0 .. Len(Encoded(u)) - 1
      BY <1>5, <1>7
    <2>2. ~Continues(Byte(Encoded(u), Pos(u, k)))
      BY PosStarts
    <2>3. Pos(u, k) \in Starts(Encoded(u))
      BY <2>1, <2>2 DEF Starts
    <2> QED
      BY <1>4, <2>3
  <1> QED
    BY <1>6, <1>7

\* The text behind a text that is behind another one.
LEMMA TailOfTail ==
  ASSUME NEW u \in Texts, NEW k \in 0 .. Len(u), NEW n \in 0 .. Len(u) - k
  PROVE  LET t == SubSeq(u, k + 1, Len(u))
         IN  /\ k + n \in 0 .. Len(u)
             /\ SubSeq(t, n + 1, Len(t)) = SubSeq(u, k + n + 1, Len(u))
             /\ Pos(u, k + n) = Pos(u, k) + Pos(t, n)
  <1> DEFINE t == SubSeq(u, k + 1, Len(u))
             v == SubSeq(t, n + 1, Len(t))
             w == SubSeq(u, k + n + 1, Len(u))
  <1>1. Len(u) \in Nat /\ k + n \in 0 .. Len(u)
    BY TextChars
  <1>2. t \in Texts /\ Len(t) = Len(u) - k /\ \A i \in 1 .. Len(u) - k : t[i] = u[k + i]
    BY CutText
  <1> HIDE DEF t
  <1>3. n \in 0 .. Len(t) /\ Len(t) - n = Len(u) - (k + n)
    BY <1>1, <1>2
  <1>4. v \in Texts /\ Len(v) = Len(t) - n /\ \A i \in 1 .. Len(t) - n : v[i] = t[n + i]
    BY <1>2, <1>3, CutText
  <1>5. w \in Texts /\ Len(w) = Len(u) - (k + n) /\ \A i \in 1 .. Len(u) - (k + n) : w[i] = u[(k + n) + i]
    BY <1>1, CutText
  <1> HIDE DEF v, w
  <1>6. \A i \in 1 .. Len(v) : v[i] = w[i]
    <2> SUFFICES ASSUME NEW i \in 1 .. Len(v) PROVE v[i] = w[i]
      OBVIOUS
    <2>1. n + i \in 1 .. Len(u) - k /\ k + (n + i) = (k + n) + i
      <3>1. i \in 1 .. Len(u) - (k + n)
        BY <1>3, <1>4
      <3> QED
        BY <1>1, <3>1
    <2>2. v[i] = t[n + i] /\ w[i] = u[(k + n) + i]
      BY <1>3, <1>4, <1>5
    <2>3. t[n + i] = u[k + (n + i)]
      BY <1>2, <2>1
    <2> QED
      BY <2>1, <2>2, <2>3
  <1>7. v = w
    BY <1>3, <1>4, <1>5, <1>6, SeqEqual DEF Texts
  <1>8. Pos(u, k + n) = Pos(u, k) + Pos(t, n)
    <2>1. /\ From(Encoded(u), Pos(u, k + n)) = Encoded(w)
          /\ Pos(u, k + n) \in 0 .. Len(Encoded(u))
      BY <1>1, PosCuts DEF w
    <2>2. From(Encoded(t), Pos(t, n)) = Encoded(v) /\ Pos(t, n) \in 0 .. Len(Encoded(t))
      BY <1>2, <1>3, PosCuts DEF v
    <2>3. From(Encoded(u), Pos(u, k)) = Encoded(t) /\ Pos(u, k) \in 0 .. Len(Encoded(u))
      BY PosCuts DEF t
    <2>4. /\ Encoded(u) \in Strs /\ Len(Encoded(u)) \in Nat
          /\ Encoded(t) \in Strs /\ Len(Encoded(t)) \in Nat
      BY <1>2, EncodedType
    <2>5. Len(Encoded(w)) = Len(Encoded(u)) - Pos(u, k + n)
      BY <2>1, <2>4, FromBytes
    <2>6. Len(Encoded(v)) = Len(Encoded(t)) - Pos(t, n)
      BY <2>2, <2>4, FromBytes
    <2>7. Len(Encoded(t)) = Len(Encoded(u)) - Pos(u, k)
      BY <2>3, <2>4, FromBytes
    <2>8. Len(Encoded(v)) = Len(Encoded(w))
      BY <1>7
    <2>9. \A a, b, c, l, m, x \in Int : (x = l - a /\ x = m - b /\ m = l - c) => a = c + b
      OBVIOUS
    <2>10. Pos(u, k + n) \in Int /\ Pos(t, n) \in Int /\ Pos(u, k) \in Int
      BY <2>1, <2>2, <2>3
    <2> QED
      BY <2>4, <2>5, <2>6, <2>7, <2>8, <2>9, <2>10
  <1> QED
    BY <1>1, <1>7, <1>8 DEF t, v, w

----------------------------------------------------------------------------
(* What the primitives make of their strings                               *)

\* Sharing the bytes from the numth character on, when there are as many.
SharedCell(v, num) ==
  [kind |-> "STROFFSET", base |-> RootOf(v),
   offset |-> OffsetOf(v) + idris_utf8_findOffset(GETSTR(v), num)]

LEMMA Shared ==
  ASSUME NEW t \in Texts, NEW v, CellOf(v, t), NEW num \in Int, num <= Len(t)
  PROVE  LET n == Clamp(num, Len(t))
         IN  /\ n \in 0 .. Len(t) /\ SubSeq(t, n + 1, Len(t)) \in Texts
             /\ CellOf(SharedCell(v, num), SubSeq(t, n + 1, Len(t)))
  <1> DEFINE n == Clamp(num, Len(t))
  <1>1. Len(t) \in Nat
    BY TextChars
  <1>2. n \in 0 .. Len(t)
    BY <1>1 DEF Clamp
  <1>3. GETSTR(v) = Encoded(t)
    BY CellRead
  <1>4. PICK u \in Texts : \E k \in 0 .. Len(u) :
          /\ t = SubSeq(u, k + 1, Len(u)) /\ OffsetOf(v) = Pos(u, k)
          /\ RootOf(v) = CT_STRING(Encoded(u))
    BY CellRead
  <1>5. PICK k \in 0 .. Len(u) :
          /\ t = SubSeq(u, k + 1, Len(u)) /\ OffsetOf(v) = Pos(u, k)
          /\ RootOf(v) = CT_STRING(Encoded(u))
    BY <1>4
  <1>6. idris_utf8_findOffset(Encoded(t), num) = Pos(t, n)
    <2>1. CASE num <= 0
      <3>1. n = 0
        BY <1>1, <2>1 DEF Clamp
      <3> QED
        BY <2>1, <3>1, FindOffset, PosEnds
    <2>2. CASE num > 0
      <3>1. n = num /\ num \in 0 .. Len(t)
        BY <1>1, <2>2 DEF Clamp
      <3> QED
        BY <3>1, FindOffset
    <2> QED
      BY <2>1, <2>2
  <1> HIDE DEF n
  <1>7. n \in 0 .. Len(u) - k
    <2>1. Len(t) = Len(u) - k
      BY <1>5, CutText
    <2> QED
      BY <1>2, <2>1
  <1>8. /\ k + n \in 0 .. Len(u)
        /\ SubSeq(t, n + 1, Len(t)) = SubSeq(u, (k + n) + 1, Len(u))
        /\ Pos(u, k + n) = Pos(u, k) + Pos(t, n)
    BY <1>5, <1>7, TailOfTail
  <1>9. SharedCell(v, num) = [kind |-> "STROFFSET", base |-> CT_STRING(Encoded(u)),
                              offset |-> Pos(u, k + n)]
    BY <1>3, <1>5, <1>6, <1>8 DEF SharedCell
  <1>10. IsShared(SharedCell(v, num), SubSeq(t, n + 1, Len(t)), u, k + n)
    BY <1>8, <1>9 DEF IsShared
  <1>11. CellOf(SharedCell(v, num), SubSeq(t, n + 1, Len(t)))
    BY <1>8, <1>10 DEF CellOf
  <1>12. SubSeq(t, n + 1, Len(t)) \in Texts
    BY <1>2, CutText
  <1> QED
    BY <1>2, <1>11, <1>12 DEF n

\* Share: it makes such a cell, or what it would make is outside.
LEMMA ShareMakes ==
  ASSUME NEW x, NEW t \in Texts, NEW v, CellOf(v, t), NEW num \in Int, Share(x, v, num)
  PROVE  \/ num <= Len(t) /\ Becomes(x, SharedCell(v, num))
         \/ Outside
  <1>1. CASE num <= Len(t)
    BY <1>1 DEF Share, SharedCell
  <1>2. CASE ~(num <= Len(t))
    <2> DEFINE f == idris_utf8_findOffset(GETSTR(v), num)
    <2>1. Len(t) \in Nat /\ Len(Encoded(t)) \in Nat
      BY TextChars, EncodedType
    <2>2. GETSTR(v) = Encoded(t) /\ GETSTRLEN(v) = Len(Encoded(t))
      BY CellRead
    <2>3. f = Len(Encoded(t)) + (num - Len(t))
      BY <1>2, <2>2, FindOffset
    <2>4. OffsetOf(v) \in Nat
      BY CellRead, PosNat
    <2> HIDE DEF f
    <2>5. f \in Int /\ f > Len(Encoded(t))
      BY <1>2, <2>1, <2>3
    <2>6. OffsetOf(v) + f > OffsetOf(v) + GETSTRLEN(v)
      BY <2>1, <2>2, <2>4, <2>5
    <2> QED
      BY <2>6 DEF Share, f
  <1> QED
    BY <1>1, <1>2

\* The text has no more characters than its encoding has bytes.
LEMMA NoShorter ==
  ASSUME NEW t \in Texts
  PROVE  Len(t) <= Len(Encoded(t)) /\ (Len(Encoded(t)) = 0 => t = <<>>)
  <1>1. Len(t) \in Nat /\ Len(Encoded(t)) \in Nat
    BY TextChars, EncodedType
  <1>2. Starts(Encoded(t)) \subseteq 0 .. Len(Encoded(t)) - 1
    BY DEF Starts
  <1>3. /\ IsFiniteSet(0 .. Len(Encoded(t)) - 1)
        /\ Cardinality(0 .. Len(Encoded(t)) - 1) = Len(Encoded(t))
    <2> DEFINE l == Len(Encoded(t))
    <2>1. l \in Nat /\ 0 \in Int /\ l - 1 \in Int
      BY <1>1
    <2> HIDE DEF l
    <2>2. /\ IsFiniteSet(0 .. l - 1)
          /\ Cardinality(0 .. l - 1) = IF 0 > l - 1 THEN 0 ELSE (l - 1) - 0 + 1
      BY <2>1, FS_Interval
    <2>3. (IF 0 > l - 1 THEN 0 ELSE (l - 1) - 0 + 1) = l
      BY <2>1
    <2> QED
      BY <2>2, <2>3 DEF l
  <1>4. Cardinality(Starts(Encoded(t))) <= Len(Encoded(t))
    BY <1>2, <1>3, FS_Subset
  <1>5. Len(t) <= Len(Encoded(t))
    BY <1>4, StartsCount
  <1>6. ASSUME Len(Encoded(t)) = 0 PROVE t = <<>>
    <2>1. Len(t) = 0
      BY <1>1, <1>5, <1>6
    <2> QED
      BY <2>1, EmptySeq DEF Texts
  <1> QED
    BY <1>5, <1>6

\* CopyTail: the text without its first character.
LEMMA CopyTailMakes ==
  ASSUME NEW x, NEW t \in Texts, NEW v, CellOf(v, t), CopyTail(x, v)
  PROVE  \/ t # <<>> /\ Tail(t) \in Texts /\ Becomes(x, CT_STRING(Encoded(Tail(t))))
         \/ Outside
  <1>1. GETSTR(v) = Encoded(t) /\ GETSTRLEN(v) = Len(Encoded(t))
    BY CellRead
  <1>2. CASE GETSTRLEN(v) = 0
    BY <1>2 DEF CopyTail
  <1>3. CASE GETSTRLEN(v) # 0
    <2>1. t # <<>>
      BY <1>1, <1>3, EncodedEmpty, EmptySeq
    <2>2. 1 \in 0 .. Len(t) /\ idris_utf8_charlen(Encoded(t)) = Pos(t, 1)
      BY <2>1, CharLen, FirstByte
    <2>3. From(Encoded(t), Pos(t, 1)) = Encoded(SubSeq(t, 1 + 1, Len(t)))
          /\ SubSeq(t, 1 + 1, Len(t)) \in Texts
      BY <2>2, PosCuts, CutText
    <2>4. Tail(t) = SubSeq(t, 1 + 1, Len(t))
      BY <2>1, TailIsSubSeq DEF Texts
    <2>5. Made(x, Encoded(Tail(t)))
      BY <1>1, <1>3, <2>2, <2>3, <2>4 DEF CopyTail
    <2> QED
      BY <2>1, <2>3, <2>4, <2>5 DEF Made
  <1> QED
    BY <1>2, <1>3

\* Middle: the part that substr is asked for, whatever the numbers are.
LEMMA MiddleIs ==
  ASSUME NEW t \in Texts, NEW o \in Int, NEW l \in Int
  PROVE  Substring(t, o, l) \in Texts /\ Middle(Encoded(t), o, l) = Encoded(Substring(t, o, l))
  <1> DEFINE k == Clamp(o, Len(t))
             u == SubSeq(t, k + 1, Len(t))
             m == Clamp(l, Len(t) - k)
             w == SubSeq(t, k + 1, k + m)
  <1>1. Len(t) \in Nat /\ k \in 0 .. Len(t)
    BY TextChars, Advance
  <1>2. idris_utf8_advance(Encoded(t), o) = Pos(t, k)
    BY Advance
  <1>3. From(Encoded(t), Pos(t, k)) = Encoded(u)
    BY <1>1, PosCuts
  <1>4. u \in Texts /\ Len(u) = Len(t) - k /\ \A i \in 1 .. Len(t) - k : u[i] = t[k + i]
    BY <1>1, CutText
  <1> HIDE DEF u, k
  <1>5. m \in 0 .. Len(u) /\ idris_utf8_advance(Encoded(u), l) = Pos(u, m)
    BY <1>4, Advance
  <1>6. SubSeq(Encoded(u), 1, Pos(u, m)) = Encoded(SubSeq(u, 1, m))
    BY <1>4, <1>5, PosCuts
  <1>7. /\ SubSeq(u, 1, m) \in Texts /\ Len(SubSeq(u, 1, m)) = m
        /\ \A i \in 1 .. m : SubSeq(u, 1, m)[i] = u[i]
    BY <1>4, <1>5, CutText
  <1>8. m \in Nat /\ m <= Len(t) - k
    BY <1>1, <1>4, <1>5
  <1> HIDE DEF m
  <1>9. w \in Texts /\ Len(w) = m /\ \A i \in 1 .. m : w[i] = t[k + i]
    <2>1. \A i \in k + 1 .. k + m : i \in 1 .. Len(t)
      BY <1>1, <1>8
    <2>2. \A i \in k + 1 .. k + m : t[i] \in Chars
      BY <2>1, TextChars
    <2>3. k + 1 \in Int /\ k + m \in Int
      BY <1>1, <1>8
    <2>4. /\ w \in Seq(Chars) /\ Len(w) = IF k + 1 <= k + m THEN (k + m) - (k + 1) + 1 ELSE 0
          /\ \A i \in 1 .. (k + m) - (k + 1) + 1 : w[i] = t[(k + 1) + i - 1]
      BY <2>2, <2>3, SubSeqProperties
    <2>5. (k + m) - (k + 1) + 1 = m /\ (k + 1 <= k + m <=> m # 0)
          /\ \A i \in 1 .. m : (k + 1) + i - 1 = k + i
      BY <1>1, <1>8
    <2> HIDE DEF w
    <2>6. Len(w) = m
      BY <2>4, <2>5
    <2>7. \A i \in 1 .. m : w[i] = t[k + i]
      BY <2>4, <2>5
    <2> QED
      BY <2>4, <2>6, <2>7 DEF Texts
  <1> HIDE DEF w
  <1>10. \A i \in 1 .. m : SubSeq(u, 1, m)[i] = w[i]
    BY <1>1, <1>4, <1>7, <1>8, <1>9
  <1>11. SubSeq(u, 1, m) = w
    BY <1>7, <1>9, <1>10, SeqEqual DEF Texts
  <1>12. Substring(t, o, l) = w
    BY DEF Substring, w, k, m
  <1>13. Middle(Encoded(t), o, l) = Encoded(SubSeq(u, 1, m))
    BY <1>2, <1>3, <1>5, <1>6 DEF Middle
  <1> QED
    BY <1>9, <1>11, <1>12, <1>13

----------------------------------------------------------------------------
(* Every cell is a string                                                  *)

\* Only a substr that is asked for a negative number, or that finds the heap full,
\* makes another string than the program asks for.
Faithful == Ints \subseteq Nat /\ "substr" \notin NoRoomFor

\* Whatever happens, the cells are strings with some texts, and the buffer is the
\* encoding of one and has room for its NUL; they are those of the program when
\* the code is Faithful.
Cells(tau) ==
  /\ value = [x \in Root |-> value[x]]
  /\ \A x \in Root : CellOf(value[x], tau[x])
Filled(b, beta) ==
  b # Nothing => \E n \in Nat : /\ b = [size |-> n, string |-> Encoded(beta)]
                                /\ Len(Encoded(beta)) < n
Match(tau, beta) ==
  /\ Cells(tau) /\ Filled(buffer, beta)
  /\ Faithful /\ Running => text = tau /\ built = beta
Holds ==
  /\ fate \in {"run", "outside"}
  /\ \E tau \in [Root -> Texts] : \E beta \in Texts : Match(tau, beta)

\* A string is made.
LEMMA Became ==
  ASSUME NEW tau \in [Root -> Texts], NEW beta \in Texts, Match(tau, beta),
         fate \in {"run", "outside"},
         NEW x \in Root, NEW v, NEW t \in Texts, CellOf(v, t), Becomes(x, v),
         Faithful /\ text = tau => text' = [tau EXCEPT ![x] = t]
  PROVE  Holds'
  <1> DEFINE new == [tau EXCEPT ![x] = t]
  <1>1. new \in [Root -> Texts]
    OBVIOUS
  <1>2. fate' = fate /\ buffer' = buffer /\ built' = built /\ Running
    BY DEF Becomes
  <1>3. Cells(new)'
    <2>1. value = [z \in Root |-> value[z]] /\ \A z \in Root : CellOf(value[z], tau[z])
      BY DEF Match, Cells
    <2>2. value' = [z \in Root |-> IF z = x THEN v ELSE value[z]]
      BY <2>1 DEF Becomes
    <2>3. value' = [z \in Root |-> value'[z]]
      BY <2>2
    <2>4. ASSUME NEW z \in Root PROVE CellOf(value'[z], new[z])
      <3>1. CASE z = x
        <4>1. value'[z] = v /\ new[z] = t
          BY <2>2, <3>1
        <4> QED
          BY <4>1
      <3>2. CASE z # x
        <4>1. value'[z] = value[z] /\ new[z] = tau[z]
          BY <2>2, <3>2
        <4> QED
          BY <2>1, <4>1
      <3> QED
        BY <3>1, <3>2
    <2> HIDE DEF new
    <2> QED
      BY <2>3, <2>4 DEF Cells
  <1> HIDE DEF new
  <1>4. Filled(buffer', beta)
    BY <1>2 DEF Match
  <1>5. Faithful => text' = new /\ built' = beta
    BY <1>2 DEF Match, new
  <1>6. Match(new, beta)'
    BY <1>3, <1>4, <1>5 DEF Match
  <1> QED
    BY <1>1, <1>2, <1>6 DEF Holds

\* What is outside is nothing the code goes on with.
LEMMA WentOutside ==
  ASSUME Holds, fate' = "outside", value' = value, buffer' = buffer
  PROVE  Holds'
  <1>1. PICK tau \in [Root -> Texts], beta \in Texts : Match(tau, beta)
    BY DEF Holds
  <1>2. Cells(tau)' /\ Filled(buffer', beta) /\ ~(Running')
    BY <1>1 DEF Match, Cells, Running
  <1>3. Match(tau, beta)'
    BY <1>2 DEF Match
  <1> QED
    BY <1>3 DEF Holds

\* What a step finds.
LEMMA Found ==
  ASSUME Holds
  PROVE  /\ fate \in {"run", "outside"}
         /\ \E tau \in [Root -> Texts] : \E beta \in Texts :
              /\ Match(tau, beta)
              /\ \A x \in Root : /\ tau[x] \in Texts /\ CellOf(value[x], tau[x])
                                 /\ GETSTR(value[x]) = Encoded(tau[x])
  <1>1. PICK tau \in [Root -> Texts], beta \in Texts : Match(tau, beta)
    BY DEF Holds
  <1>2. ASSUME NEW x \in Root
        PROVE  tau[x] \in Texts /\ CellOf(value[x], tau[x])
    BY <1>1 DEF Match, Cells
  <1>3. ASSUME NEW x \in Root
        PROVE  GETSTR(value[x]) = Encoded(tau[x])
    <2> DEFINE v == value[x]
    <2>1. tau[x] \in Texts /\ CellOf(v, tau[x])
      BY <1>2
    <2> HIDE DEF v
    <2>2. GETSTR(v) = Encoded(tau[x])
      BY <2>1, CellRead
    <2> QED
      BY <2>2 DEF v
  <1> QED
    BY <1>1, <1>2, <1>3 DEF Holds

\* A string of its own bytes.
LEMMA WholeCell ==
  ASSUME NEW t
  PROVE  CellOf(CT_STRING(Encoded(t)), t)
  BY DEF CellOf, IsWhole

----------------------------------------------------------------------------
(* The operations, one by one                                              *)

LEMMA MkStrKeeps ==
  ASSUME Holds, NEW x \in Root, MKSTR(x)
  PROVE  Holds'
  <1>1. PICK tau \in [Root -> Texts], beta \in Texts : Match(tau, beta)
    BY DEF Holds
  <1>2. <<>> \in Texts /\ CellOf(CT_STRING(Encoded(<<>>)), <<>>)
    BY EncodedEmpty, WholeCell
  <1>3. Becomes(x, CT_STRING(Encoded(<<>>)))
    BY EncodedEmpty DEF MKSTR, Made
  <1>4. text = tau => text' = [tau EXCEPT ![x] = <<>>]
    BY DEF MKSTR, Means
  <1> QED
    BY <1>1, <1>2, <1>3, <1>4, Became DEF Holds

LEMMA ConsKeeps ==
  ASSUME Holds, NEW x \in Root, NEW y \in Root, NEW c \in Chars, idris_strCons(x, c, y)
  PROVE  Holds'
  <1>1. PICK tau \in [Root -> Texts], beta \in Texts :
          /\ Match(tau, beta)
          /\ tau[y] \in Texts /\ GETSTR(value[y]) = Encoded(tau[y])
    BY Found
  <1> DEFINE t == <<c>> \o tau[y]
  <1>2. t \in Texts /\ Encoded(t) = Encoding[c] \o Encoded(tau[y])
    <2> DEFINE first == <<c>>
    <2>1. first \in Texts /\ Encoded(first) = Encoding[c]
      BY EncodedOne
    <2> HIDE DEF first
    <2>2. /\ first \o tau[y] \in Texts
          /\ Encoded(first \o tau[y]) = Encoded(first) \o Encoded(tau[y])
      BY <1>1, <2>1, EncodedConcat
    <2> QED
      BY <2>1, <2>2 DEF first
  <1>3. (IF c < 128 THEN <<c>> ELSE idris_utf8_fromChar(c)) = Encoding[c]
    BY FromChar
  <1>4. text = tau => text' = [tau EXCEPT ![x] = t]
    BY DEF idris_strCons, Means
  <1> HIDE DEF t
  <1>5. Becomes(x, CT_STRING(Encoded(t)))
    BY <1>1, <1>2, <1>3 DEF idris_strCons, Made
  <1>6. CellOf(CT_STRING(Encoded(t)), t)
    BY WholeCell
  <1> QED
    BY <1>1, <1>2, <1>4, <1>5, <1>6, Became DEF Holds

LEMMA ConcatKeeps ==
  ASSUME Holds, NEW x \in Root, NEW y \in Root, NEW z \in Root, idris_concat(x, y, z)
  PROVE  Holds'
  <1>1. PICK tau \in [Root -> Texts], beta \in Texts :
          /\ Match(tau, beta)
          /\ tau[y] \in Texts /\ GETSTR(value[y]) = Encoded(tau[y])
          /\ tau[z] \in Texts /\ GETSTR(value[z]) = Encoded(tau[z])
    BY Found
  <1> DEFINE t == tau[y] \o tau[z]
  <1>2. t \in Texts /\ Encoded(t) = Encoded(tau[y]) \o Encoded(tau[z])
    BY <1>1, EncodedConcat
  <1>3. text = tau => text' = [tau EXCEPT ![x] = t]
    BY DEF idris_concat, Means
  <1> HIDE DEF t
  <1>4. Becomes(x, CT_STRING(Encoded(t)))
    BY <1>1, <1>2 DEF idris_concat, Made
  <1>5. CellOf(CT_STRING(Encoded(t)), t)
    BY WholeCell
  <1> QED
    BY <1>1, <1>2, <1>3, <1>4, <1>5, Became DEF Holds

LEMMA RevKeeps ==
  ASSUME Holds, NEW x \in Root, NEW y \in Root, idris_strRev(x, y)
  PROVE  Holds'
  <1>1. PICK tau \in [Root -> Texts], beta \in Texts :
          /\ Match(tau, beta)
          /\ tau[y] \in Texts /\ GETSTR(value[y]) = Encoded(tau[y])
    BY Found
  <1> DEFINE t == Reverse(tau[y])
  <1>2. t \in Texts /\ idris_utf8_rev(Encoded(tau[y])) = Encoded(t)
    BY <1>1, TurnedText, Turned
  <1>3. text = tau => text' = [tau EXCEPT ![x] = t]
    BY DEF idris_strRev, Means
  <1> HIDE DEF t
  <1>4. Becomes(x, CT_STRING(Encoded(t)))
    BY <1>1, <1>2 DEF idris_strRev, Made
  <1>5. CellOf(CT_STRING(Encoded(t)), t)
    BY WholeCell
  <1> QED
    BY <1>1, <1>2, <1>3, <1>4, <1>5, Became DEF Holds

\* The two ways of idris_strShift, when the text wanted is behind the numth
\* character.
LEMMA ShiftKeeps ==
  ASSUME Holds, NEW tau \in [Root -> Texts], NEW beta \in Texts, Match(tau, beta),
         NEW x \in Root, NEW y \in Root, NEW num \in Int, NEW caller,
         idris_strShift(x, value[y], num, caller),
         caller \notin NoRoomFor \/ num = 1 \/ ~Faithful,
         Faithful /\ text = tau =>
           text' = [tau EXCEPT ![x] = SubSeq(tau[y], Clamp(num, Len(tau[y])) + 1, Len(tau[y]))]
  PROVE  Holds'
  <1> DEFINE t == tau[y]
             n == Clamp(num, Len(t))
             u == SubSeq(t, n + 1, Len(t))
  <1>1. PICK v : v = value[y]
    OBVIOUS
  <1>2. t \in Texts /\ CellOf(v, t) /\ Len(t) \in Nat
    BY <1>1, TextChars DEF Match, Cells
  <1>3. fate \in {"run", "outside"}
    BY DEF Holds
  <1>4. CASE Share(x, value[y], num)
    <2>1. Share(x, v, num)
      BY <1>1, <1>4 DEF Share, Becomes
    <2>2. CASE num <= Len(t) /\ Becomes(x, SharedCell(v, num))
      <3> HIDE DEF t
      <3>1. u \in Texts /\ CellOf(SharedCell(v, num), u)
        BY <1>2, <2>2, Shared
      <3>2. Faithful /\ text = tau => text' = [tau EXCEPT ![x] = u]
        BY DEF t
      <3> HIDE DEF u
      <3> QED
        BY <1>3, <2>2, <3>1, <3>2, Became
    <2>3. CASE Outside
      BY <2>3, WentOutside DEF Outside
    <2> HIDE DEF t
    <2> QED
      BY <1>2, <2>1, <2>2, <2>3, ShareMakes
  <1>5. CASE caller \in NoRoomFor /\ CopyTail(x, value[y])
    <2>1. CopyTail(x, v)
      BY <1>1, <1>5 DEF CopyTail, Made, Becomes
    <2>2. CASE t # <<>> /\ Tail(t) \in Texts /\ Becomes(x, CT_STRING(Encoded(Tail(t))))
      <3>1. CellOf(CT_STRING(Encoded(Tail(t))), Tail(t))
        BY WholeCell
      <3>2. Faithful /\ text = tau => text' = [tau EXCEPT ![x] = Tail(t)]
        <4> SUFFICES ASSUME Faithful, text = tau PROVE text' = [tau EXCEPT ![x] = Tail(t)]
          OBVIOUS
        <4>1. num = 1 /\ Len(t) \in Nat \ {0}
          BY <1>2, <1>5, <2>2, EmptySeq DEF Texts
        <4>2. n + 1 = 2
          BY <4>1 DEF Clamp
        <4>3. Tail(t) = SubSeq(t, 2, Len(t))
          BY <1>2, <2>2, TailIsSubSeq DEF Texts
        <4> QED
          BY <4>2, <4>3
      <3> HIDE DEF t
      <3> QED
        BY <1>3, <2>2, <3>1, <3>2, Became
    <2>3. CASE Outside
      BY <2>3, WentOutside DEF Outside
    <2> HIDE DEF t
    <2> QED
      BY <1>2, <2>1, <2>2, <2>3, CopyTailMakes
  <1> QED
    BY <1>4, <1>5 DEF idris_strShift

LEMMA TailKeeps ==
  ASSUME Holds, NEW x \in Root, NEW y \in Root, idris_strTail(x, y)
  PROVE  Holds'
  <1>1. PICK tau \in [Root -> Texts], beta \in Texts :
          /\ Match(tau, beta)
          /\ tau[y] \in Texts /\ GETSTR(value[y]) = Encoded(tau[y])
    BY Found
  <1> DEFINE t == tau[y]
  <1>2. Len(t) \in Nat \ {0} /\ t # <<>>
    BY <1>1, EncodedEmpty, EmptySeq DEF idris_strTail, GETSTRLEN, Texts
  <1>3. Clamp(1, Len(t)) + 1 = 2
    BY <1>2 DEF Clamp
  <1>4. Tail(t) = SubSeq(t, Clamp(1, Len(t)) + 1, Len(t))
    BY <1>1, <1>2, <1>3, TailIsSubSeq DEF Texts
  <1>5. text = tau => text' = [tau EXCEPT ![x] = SubSeq(t, Clamp(1, Len(t)) + 1, Len(t))]
    BY <1>4 DEF idris_strTail, Means
  <1>6. PICK n \in Int : n = 1
    OBVIOUS
  <1>7. idris_strShift(x, value[y], n, "tail")
    BY <1>6 DEF idris_strTail, idris_strShift, Share, Becomes
  <1>8. Faithful /\ text = tau =>
          text' = [tau EXCEPT ![x] = SubSeq(tau[y], Clamp(n, Len(tau[y])) + 1, Len(tau[y]))]
    BY <1>5, <1>6
  <1> QED
    BY <1>1, <1>6, <1>7, <1>8, ShiftKeeps

LEMMA SubstrKeeps ==
  ASSUME Holds, NEW x \in Root, NEW y \in Root, NEW o \in Ints, NEW l \in Ints,
         idris_substr(x, o, l, y)
  PROVE  Holds'
  <1>1. PICK tau \in [Root -> Texts], beta \in Texts :
          /\ Match(tau, beta)
          /\ tau[y] \in Texts /\ GETSTR(value[y]) = Encoded(tau[y])
    BY Found
  <1> DEFINE t == tau[y]
  <1>2. o \in Int /\ l \in Int
    BY AskedAssumption
  <1>3. text = tau => text' = [tau EXCEPT ![x] = Substring(t, o, l)]
    BY DEF idris_substr, Means
  <1>4. CASE Suffix(o, l, value[y])
    <2>1. idris_strShift(x, value[y], o, "substr")
      BY <1>4 DEF idris_substr
    <2>2. Faithful => Substring(t, o, l) = SubSeq(t, Clamp(o, Len(t)) + 1, Len(t))
      <3> SUFFICES ASSUME Faithful
                   PROVE  Substring(t, o, l) = SubSeq(t, Clamp(o, Len(t)) + 1, Len(t))
        OBVIOUS
      <3> DEFINE k == Clamp(o, Len(t))
      <3>1. o \in Nat /\ l \in Nat
        BY DEF Faithful
      <3>2. Len(t) \in Nat /\ Len(Encoded(t)) \in Nat /\ Len(t) <= Len(Encoded(t))
        BY <1>1, TextChars, EncodedType, NoShorter
      <3>3. o + l >= Len(Encoded(t))
        BY <1>1, <1>4, <3>1 DEF Suffix, GETSTRLEN
      <3>4. k \in 0 .. Len(t) /\ (k = o \/ k = Len(t))
        BY <3>1, <3>2 DEF Clamp
      <3> HIDE DEF t
      <3>5. k + Clamp(l, Len(t) - k) = Len(t)
        <4>1. l >= Len(t) - k
          BY <3>1, <3>2, <3>3, <3>4
        <4> HIDE DEF k
        <4>2. Clamp(l, Len(t) - k) = Len(t) - k
          BY <3>1, <3>2, <3>4, <4>1 DEF Clamp
        <4> QED
          BY <3>2, <3>4, <4>2
      <3> QED
        BY <3>5 DEF Substring
    <2>3. Faithful /\ text = tau =>
            text' = [tau EXCEPT ![x] = SubSeq(tau[y], Clamp(o, Len(tau[y])) + 1, Len(tau[y]))]
      BY <1>3, <2>2
    <2>4. "substr" \notin NoRoomFor \/ o = 1 \/ ~Faithful
      BY DEF Faithful
    <2> QED
      BY <1>1, <1>2, <2>1, <2>3, <2>4, ShiftKeeps
  <1>5. CASE ~Suffix(o, l, value[y])
    <2> DEFINE w == Substring(t, o, l)
    <2>1. w \in Texts /\ Middle(Encoded(t), o, l) = Encoded(w)
      BY <1>1, <1>2, MiddleIs
    <2> HIDE DEF w
    <2>2. Becomes(x, CT_STRING(Encoded(w)))
      BY <1>1, <1>5, <2>1 DEF idris_substr, Made
    <2>3. CellOf(CT_STRING(Encoded(w)), w)
      BY WholeCell
    <2>4. text = tau => text' = [tau EXCEPT ![x] = w]
      BY <1>3 DEF w
    <2> QED
      BY <1>1, <2>1, <2>2, <2>3, <2>4, Became DEF Holds
  <1> QED
    BY <1>4, <1>5

LEMMA MakeBufferKeeps ==
  ASSUME Holds, NEW len \in MaxLens, idris_makeStringBuffer(len)
  PROVE  Holds'
  <1>1. CASE len = 0
    <2>1. fate' = "outside" /\ value' = value /\ buffer' = buffer
      BY <1>1 DEF idris_makeStringBuffer
    <2> QED
      BY <2>1, WentOutside
  <1>2. CASE len # 0
    <2>1. PICK tau \in [Root -> Texts], beta \in Texts : Match(tau, beta)
      BY DEF Holds
    <2>2. /\ buffer' = [size |-> len, string |-> Encoded(<<>>)]
          /\ fate' = fate /\ built' = <<>> /\ value' = value /\ text' = text
      BY <1>2, EncodedEmpty DEF idris_makeStringBuffer
    <2>3. Cells(tau)'
      BY <2>1, <2>2 DEF Match, Cells
    <2>4. <<>> \in Texts /\ Len(Encoded(<<>>)) = 0
      BY EncodedEmpty, EmptySeq
    <2>5. len \in Nat /\ Len(Encoded(<<>>)) < len
      BY <1>2, <2>4, StringsAssumption
    <2>6. Filled(buffer', <<>>)
      BY <2>2, <2>5 DEF Filled
    <2>7. (Faithful /\ Running)' => text' = tau /\ built' = <<>>
      BY <2>1, <2>2 DEF Match, Running, Faithful
    <2>8. \E b \in Texts : Match(tau, b)'
      BY <2>3, <2>4, <2>6, <2>7 DEF Match
    <2> QED
      BY <2>2, <2>8 DEF Holds
  <1> QED
    BY <1>1, <1>2

LEMMA AddKeeps ==
  ASSUME Holds, NEW y \in Root, idris_addToString(y)
  PROVE  Holds'
  <1>1. PICK tau \in [Root -> Texts], beta \in Texts :
          /\ Match(tau, beta)
          /\ tau[y] \in Texts /\ GETSTR(value[y]) = Encoded(tau[y])
    BY Found
  <1> DEFINE new == beta \o tau[y]
  <1>2. PICK n \in Nat : buffer = [size |-> n, string |-> Encoded(beta)]
    BY <1>1 DEF Match, Filled, idris_addToString
  <1>3. new \in Texts /\ Encoded(new) = Encoded(beta) \o Encoded(tau[y])
    BY <1>1, EncodedConcat
  <1>4. Len(Encoded(new)) \in Nat
    BY <1>3, EncodedType
  <1>5. buffer.string \o GETSTR(value[y]) = Encoded(new) /\ buffer.size = n
    BY <1>1, <1>2, <1>3
  <1>6. text = tau /\ built = beta => built' = new
    BY DEF idris_addToString
  <1>7. value' = value /\ text' = text
    BY DEF idris_addToString
  <1> HIDE DEF new
  <1>8. CASE Len(Encoded(new)) + 1 > n
    <2>1. fate' = "outside" /\ buffer' = buffer
      BY <1>5, <1>8 DEF idris_addToString
    <2> QED
      BY <1>7, <2>1, WentOutside
  <1>9. CASE ~(Len(Encoded(new)) + 1 > n)
    <2>1. buffer' = [buffer EXCEPT !.string = Encoded(new)] /\ fate' = fate
      BY <1>5, <1>9 DEF idris_addToString
    <2>2. buffer' = [size |-> n, string |-> Encoded(new)]
      BY <1>2, <2>1
    <2>3. Len(Encoded(new)) < n
      BY <1>4, <1>9
    <2>4. Filled(buffer', new)
      BY <2>2, <2>3 DEF Filled
    <2>5. Cells(tau)'
      BY <1>1, <1>7 DEF Match, Cells
    <2>6. (Faithful /\ Running)' => text' = tau /\ built' = new
      BY <1>1, <1>6, <1>7, <2>1 DEF Match, Running, Faithful
    <2>7. Match(tau, new)'
      BY <2>4, <2>5, <2>6 DEF Match
    <2> QED
      BY <1>3, <2>1, <2>7 DEF Holds
  <1> QED
    BY <1>8, <1>9

LEMMA GetKeeps ==
  ASSUME Holds, NEW x \in Root, idris_getString(x)
  PROVE  Holds'
  <1>1. PICK tau \in [Root -> Texts], beta \in Texts : Match(tau, beta)
    BY DEF Holds
  <1> DEFINE new == [tau EXCEPT ![x] = beta]
             v == CT_STRING(Encoded(beta))
  <1>2. PICK n \in Nat : buffer = [size |-> n, string |-> Encoded(beta)]
    BY <1>1 DEF Match, Filled, idris_getString
  <1>3. /\ value' = [value EXCEPT ![x] = v]
        /\ buffer' = Nothing /\ built' = <<>> /\ fate' = fate
    BY <1>2 DEF idris_getString
  <1>4. new \in [Root -> Texts] /\ <<>> \in Texts /\ CellOf(v, beta)
    BY EncodedEmpty, WholeCell
  <1> HIDE DEF v
  <1>5. Cells(new)'
    <2>1. value = [z \in Root |-> value[z]] /\ \A z \in Root : CellOf(value[z], tau[z])
      BY <1>1 DEF Match, Cells
    <2>2. value' = [z \in Root |-> IF z = x THEN v ELSE value[z]]
      BY <1>3, <2>1
    <2>3. value' = [z \in Root |-> value'[z]]
      BY <2>2
    <2>4. ASSUME NEW z \in Root PROVE CellOf(value'[z], new[z])
      <3>1. CASE z = x
        <4>1. value'[z] = v /\ new[z] = beta
          BY <2>2, <3>1
        <4> QED
          BY <1>4, <4>1
      <3>2. CASE z # x
        <4>1. value'[z] = value[z] /\ new[z] = tau[z]
          BY <2>2, <3>2
        <4> QED
          BY <2>1, <4>1
      <3> QED
        BY <3>1, <3>2
    <2> HIDE DEF new
    <2> QED
      BY <2>3, <2>4 DEF Cells
  <1>6. Filled(buffer', <<>>)
    BY <1>3 DEF Filled
  <1>7. text = tau /\ built = beta => text' = new
    BY DEF idris_getString, Means
  <1>8. (Faithful /\ Running)' => text' = new /\ built' = <<>>
    BY <1>1, <1>3, <1>7 DEF Match, Running, Faithful
  <1> HIDE DEF new
  <1>9. \E b \in Texts : Match(new, b)'
    BY <1>4, <1>5, <1>6, <1>8 DEF Match
  <1>10. \E m \in [Root -> Texts] : \E b \in Texts : Match(m, b)'
    BY <1>4, <1>9
  <1> QED
    BY <1>3, <1>10 DEF Holds

LEMMA InitHolds ==
  ASSUME Init
  PROVE  Holds
  <1>1. <<>> \in Texts /\ Encoded(<<>>) = <<>>
    BY EncodedEmpty
  <1>2. \A x \in Root : CellOf(value[x], <<>>)
    BY <1>1 DEF Init, CellOf, IsWhole
  <1> DEFINE tau == [x \in Root |-> <<>>]
  <1>3. tau \in [Root -> Texts]
    BY <1>1
  <1>4. value = [x \in Root |-> value[x]]
    BY DEF Init
  <1>5. Cells(tau)
    BY <1>2, <1>4 DEF Cells
  <1>6. Match(tau, <<>>)
    BY <1>5 DEF Match, Filled, Init
  <1> QED
    BY <1>1, <1>3, <1>6 DEF Holds, Init

LEMMA StepHolds ==
  ASSUME Holds, [Next]_vars
  PROVE  Holds'
  <1>1. CASE UNCHANGED vars
    <2>1. /\ value' = value /\ buffer' = buffer /\ fate' = fate
          /\ text' = text /\ built' = built
      BY <1>1 DEF vars
    <2>2. PICK tau \in [Root -> Texts], beta \in Texts : Match(tau, beta)
      BY DEF Holds
    <2>3. Match(tau, beta)'
      BY <2>1, <2>2 DEF Match, Cells, Running, Faithful
    <2> QED
      BY <2>1, <2>3 DEF Holds
  <1>2. CASE Next
    <2>1. PICK x \in Root, y \in Root :
             \/ MKSTR(x)
             \/ \E c \in Chars : idris_strCons(x, c, y)
             \/ \E z \in Root : idris_concat(x, y, z)
             \/ idris_strRev(x, y)
             \/ idris_strTail(x, y)
             \/ \E o, l \in Ints : idris_substr(x, o, l, y)
             \/ \E len \in MaxLens : idris_makeStringBuffer(len)
             \/ idris_addToString(y)
             \/ idris_getString(x)
      BY <1>2 DEF Next
    <2>2. CASE MKSTR(x)
      BY <2>2, MkStrKeeps
    <2>3. CASE \E c \in Chars : idris_strCons(x, c, y)
      BY <2>3, ConsKeeps
    <2>4. CASE \E z \in Root : idris_concat(x, y, z)
      BY <2>4, ConcatKeeps
    <2>5. CASE idris_strRev(x, y)
      BY <2>5, RevKeeps
    <2>6. CASE idris_strTail(x, y)
      BY <2>6, TailKeeps
    <2>7. CASE \E o, l \in Ints : idris_substr(x, o, l, y)
      BY <2>7, SubstrKeeps
    <2>8. CASE \E len \in MaxLens : idris_makeStringBuffer(len)
      BY <2>8, MakeBufferKeeps
    <2>9. CASE idris_addToString(y)
      BY <2>9, AddKeeps
    <2>10. CASE idris_getString(x)
      BY <2>10, GetKeeps
    <2> QED
      BY <2>1, <2>2, <2>3, <2>4, <2>5, <2>6, <2>7, <2>8, <2>9, <2>10
  <1> QED
    BY <1>1, <1>2

LEMMA AlwaysHolds == Spec => []Holds
  <1>1. Init => Holds
    BY InitHolds
  <1>2. Holds /\ [Next]_vars => Holds'
    BY StepHolds
  <1> QED
    BY <1>1, <1>2, PTL DEF Spec

----------------------------------------------------------------------------
(* The theorems                                                            *)

\* What the three properties say of the cells and the buffer.
LEMMA HoldsType ==
  ASSUME Holds
  PROVE  TypeOK
  <1>1. PICK tau \in [Root -> Texts], beta \in Texts : Match(tau, beta)
    BY DEF Holds
  <1>2. buffer # Nothing => Len(buffer.string) < buffer.size
    <2> SUFFICES ASSUME buffer # Nothing PROVE Len(buffer.string) < buffer.size
      OBVIOUS
    <2>1. PICK n \in Nat : /\ buffer = [size |-> n, string |-> Encoded(beta)]
                           /\ Len(Encoded(beta)) < n
      BY <1>1 DEF Match, Filled
    <2>2. buffer.string = Encoded(beta) /\ buffer.size = n
      BY <2>1
    <2> QED
      BY <2>1, <2>2
  <1>3. ASSUME NEW x \in Root, ~ISSTR(value[x])
        PROVE  /\ ISSTR(value[x].base)
               /\ value[x].offset \in Starts(value[x].base.str) \cup {Len(value[x].base.str)}
    <2>1. tau[x] \in Texts /\ CellOf(value[x], tau[x])
      BY <1>1 DEF Match, Cells
    <2>2. PICK v : v = value[x]
      OBVIOUS
    <2>3. CellOf(v, tau[x]) /\ ~ISSTR(v)
      BY <1>3, <2>1, <2>2
    <2>4. ISSTR(v.base) /\ v.offset \in Starts(v.base.str) \cup {Len(v.base.str)}
      BY <2>1, <2>3, CellType
    <2> QED
      BY <2>2, <2>4
  <1> QED
    BY <1>2, <1>3 DEF TypeOK, Holds

LEMMA HoldsText ==
  ASSUME Faithful, Holds, Running
  PROVE  /\ text \in [Root -> Texts]
         /\ \A x \in Root : GETSTR(value[x]) = Encoded(text[x])
  <1>1. PICK tau \in [Root -> Texts], beta \in Texts :
          Match(tau, beta) /\ \A x \in Root : GETSTR(value[x]) = Encoded(tau[x])
    BY Found
  <1>2. text = tau
    BY <1>1 DEF Match
  <1> QED
    BY <1>1, <1>2

LEMMA HoldsAnswers ==
  ASSUME Faithful, Holds
  PROVE  AnswersRight
  <1> SUFFICES ASSUME Running, NEW x \in Root, NEW y \in Root
               PROVE  /\ idris_strlen(value[x]) = Len(text[x])
                      /\ \A i \in DOMAIN text[x] : idris_strIndex(value[x], i - 1) = text[x][i]
                      /\ idris_strlt(value[x], value[y]) <=> Before(text[x], text[y])
                      /\ idris_streq(value[x], value[y]) <=> text[x] = text[y]
    BY DEF AnswersRight, Running
  <1>1. PICK t \in Texts, u \in Texts : t = text[x] /\ u = text[y]
    BY HoldsText
  <1>2. GETSTR(value[x]) = Encoded(t) /\ GETSTR(value[y]) = Encoded(u)
    BY <1>1, HoldsText
  <1>3. idris_strlen(value[x]) = Len(t)
    BY <1>2, StrLen DEF idris_strlen
  <1>4. ASSUME NEW i \in DOMAIN t PROVE idris_strIndex(value[x], i - 1) = t[i]
    <2>1. i \in 1 .. Len(t)
      BY TextChars
    <2> QED
      BY <1>2, <2>1, Index DEF idris_strIndex
  <1>5. idris_strlt(value[x], value[y]) <=> Before(t, u)
    BY <1>2, Comparisons DEF idris_strlt
  <1>6. idris_streq(value[x], value[y]) <=> t = u
    BY <1>2, Comparisons DEF idris_streq
  <1> QED
    BY <1>1, <1>3, <1>4, <1>5, <1>6

\* idris_strShift never makes a STROFFSET of a STROFFSET (the comment at
\* idris_rts.c:650), its offset is where a character starts or the end, and
\* idris_addToString leaves room for the NUL: for any characters, any numbers that
\* substr is asked for, and a heap that may be full.
THEOREM StringCells == Spec => []TypeOK
  BY AlwaysHolds, HoldsType, PTL

\* The bytes of each string are the encoding of what the program made it of, by
\* strCons, concat, strRev, strTail, substr and string buffers, in any order, when
\* substr is asked for no negative number and finds room for its cell.
THEOREM TextsKept ==
  ASSUME Faithful
  PROVE  Spec => []TextKept
  <1>1. Holds => TextKept
    BY HoldsText DEF TextKept, Running
  <1> QED
    BY <1>1, AlwaysHolds, PTL

\* Under the same condition strLength, strIndex, strHead, and the comparisons that
\* strcmp makes of bytes, answer about the characters of the text.
THEOREM AnswersAreRight ==
  ASSUME Faithful
  PROVE  Spec => []AnswersRight
  <1>1. Holds => AnswersRight
    BY HoldsAnswers
  <1> QED
    BY <1>1, AlwaysHolds, PTL
=============================================================================
