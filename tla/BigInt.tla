------------------------------- MODULE BigInt -------------------------------
(***************************************************************************)
(* The integers of a program (rts/idris_gmp.c): an Integer is a fixnum,    *)
(* one bit shorter than a machine word, or a big integer.  Every operation *)
(* tries the fixnums first and otherwise makes big integers of both sides. *)
(* A program computes with two integers, x and y; res is the result of the *)
(* last call and want what arithmetic says it should be.  A machine word   *)
(* is as long as a limb, as in the builds where both have 64 bits.         *)
(***************************************************************************)
EXTENDS MiniGmp, Words, Buffers

CONSTANTS SmallBits,     \* 30: sums that may leave this range become big
          TimesBits,     \* <<15, 16>>, <<16, 15>>, <<20, 11>>, ...
          FixOperands,   \* the integers tried as fixnums
          BigOperands,   \* the integers tried as big integers
          ShiftCounts,   \* the counts tried for the shifts, below a word
          MantissaBits,  \* the precision of a Double
          MaxBits        \* results longer than this are not computed (a bound of the model)

\* 30 stays below the 62 bits that a fixnum has; the other bounds are on what
\* is tried: big operands are no longer than the results that are computed, and
\* these have MaxLimbs limbs at most.
ASSUME OperandsAssumption ==
    /\ SmallBits \in Nat /\ SmallBits <= LimbBits - 2
    /\ MantissaBits \in Nat /\ MantissaBits >= 2
    /\ MaxBits \in Nat /\ LimbBits - 2 <= MaxBits /\ MaxBits < LimbBits * MaxLimbs
    /\ ShiftCounts \subseteq Nat
    /\ FixOperands \subseteq Int
    /\ \A n \in BigOperands : n \in Int /\ Abs(n) < Pow(2, MaxBits)

VARIABLES x, y, op, res, want
vars == <<x, y, op, res, want>>

----------------------------------------------------------------------------
(* Values.  MKINT drops the top bit of a word and GETINT copies the one    *)
(* below it back.                                                          *)

Fix(n) == LET m == n % HighBit
          IN  [big |-> FALSE, n |-> IF 2 * m >= HighBit THEN m - HighBit ELSE m]
Fixnum == -(HighBit \div 2) .. HighBit \div 2 - 1
Big(z) == [big |-> TRUE, z |-> z]

MKBIGI(n) == Fix(n)
MKBIGUI(n) == Big(mpz_set_ui(Wrap(n)))
MKBIGSI(n) == Big(mpz_set_si(n))
getbig(v) == IF v.big THEN v.z ELSE mpz_set_si(v.n)

\* The mathematical value.
NatOf(d) == Number(B, d, Len(d))
IntOf(z) == IF z.size < 0 THEN -NatOf(z.d) ELSE NatOf(z.d)
Value(v) == IF v.big THEN IntOf(v.z) ELSE v.n

\* A big integer with a given value.
BigOf(n) == Big(mpz_set_d(2 * n))
Operands == {Fix(n) : n \in FixOperands} \cup {BigOf(n) : n \in BigOperands}

\* Division of C, towards zero.
Quot(a, b) == Sgn(a) * Sgn(b) * (Abs(a) \div Abs(b))
Rem(a, b) == a - b * Quot(a, b)

BothFix(a, b) == ~a.big /\ ~b.big
WordAnd(m, n) == Fix(BitAnd(LimbBits, m, n))
WordOr(m, n)  == Fix(BitOr(LimbBits, m, n))

----------------------------------------------------------------------------
(* The operations.                                                         *)

bigAdd(a, b) == Big(mpz_add(getbig(a), getbig(b)))
bigSub(a, b) == Big(mpz_sub(getbig(a), getbig(b)))
bigMul(a, b) == Big(mpz_mul(getbig(a), getbig(b)))
bigDiv(a, b) == Big(mpz_tdiv_q(getbig(a), getbig(b)))
bigMod(a, b) == Big(mpz_tdiv_r(getbig(a), getbig(b)))
bigAnd(a, b) == Big(mpz_and(getbig(a), getbig(b)))
bigOr(a, b)  == Big(mpz_ior(getbig(a), getbig(b)))

Leaves(n) == n >= Pow(2, SmallBits) \/ n <= -(Pow(2, SmallBits))

idris_bigPlus(a, b) ==
    IF BothFix(a, b) /\ \/ a.n <= 0 /\ b.n >= 0
                        \/ a.n >= 0 /\ b.n <= 0
                        \/ ~Leaves(a.n + b.n)
    THEN Fix(a.n + b.n) ELSE bigAdd(a, b)

\* The signs are tested as those of the sum are, for y <= 0 in both cases.
idris_bigMinus(a, b) ==
    IF BothFix(a, b) /\ \/ a.n <= 0 /\ b.n <= 0
                        \/ a.n >= 0 /\ b.n <= 0
                        \/ ~Leaves(a.n - b.n)
    THEN Fix(a.n - b.n) ELSE bigSub(a, b)

idris_bigTimes(a, b) ==
    IF BothFix(a, b) /\ \E t \in TimesBits : a.n < Pow(2, t[1]) /\ b.n < Pow(2, t[2])
    THEN Fix(a.n * b.n) ELSE bigMul(a, b)

idris_bigDivide(a, b) == IF BothFix(a, b) THEN Fix(Quot(a.n, b.n)) ELSE bigDiv(a, b)
idris_bigMod(a, b)    == IF BothFix(a, b) THEN Fix(Rem(a.n, b.n)) ELSE bigMod(a, b)
idris_bigAnd(a, b)    == IF BothFix(a, b) THEN WordAnd(a.n, b.n) ELSE bigAnd(a, b)
idris_bigOr(a, b)     == IF BothFix(a, b) THEN WordOr(a.n, b.n) ELSE bigOr(a, b)

\* The count is a fixnum below the length of a word: beyond it the shift of C
\* is undefined.
idris_bigShiftLeft(a, n) ==
    IF a.big THEN Big(mpz_mul_2exp(a.z, n)) ELSE Fix(a.n * Pow(2, n))
idris_bigShiftRight(a, n) ==
    IF a.big THEN Big(mpz_fdiv_q_2exp(a.z, n)) ELSE Fix(a.n \div Pow(2, n))

\* -1, 0 or 1: bigEq, bigLt, bigGt, bigLe, bigGe compare it with 0.
Compare(a, b) == mpz_cmp(getbig(a), getbig(b))
idris_bigEq(a, b) == IF BothFix(a, b) THEN a.n = b.n ELSE Compare(a, b) = 0
idris_bigLt(a, b) == IF BothFix(a, b) THEN a.n < b.n ELSE Compare(a, b) < 0
idris_bigLe(a, b) == IF BothFix(a, b) THEN a.n <= b.n ELSE Compare(a, b) <= 0
idris_bigGt(a, b) == IF BothFix(a, b) THEN a.n > b.n ELSE Compare(a, b) > 0
idris_bigGe(a, b) == IF BothFix(a, b) THEN a.n >= b.n ELSE Compare(a, b) >= 0
bigEqConst(a, c)  == IF a.big THEN mpz_cmp_si(a.z, c) = 0 ELSE a.n = c

\* mpz_get_ui: the lowest limb, without the sign.
idris_castBigInt(a) == IF a.big THEN Fix(mpz_get_ui(a.z)) ELSE a
idris_truncBigB64(a) == IF a.big THEN mpz_get_ui(a.z) ELSE Wrap(a.n)
idris_castBigStr(a) == mpz_get_str(10, getbig(a))
MKBIGC(str) == IF str = <<>> THEN MKBIGI(0) ELSE Big(mpz_set_str(str, 10))
idris_castStrBig(str) == MKBIGC(str)

idris_castBigFloat(a) ==
    IF a.big THEN mpz_get_d(a.z, MantissaBits)
    ELSE Sgn(a.n) * RoundTo(MantissaBits, Abs(a.n), LimbBits)
idris_castFloatBig(f) == Big(mpz_set_d(2 * f))

\* Words of w bits from and to integers, as the generated code does it.
LTrunc(w, a) == bConst(w, IF w = LimbBits THEN idris_truncBigB64(a)
                          ELSE IF a.big THEN mpz_get_ui(a.z) ELSE a.n)
LZExt(w, n) == MKBIGUI(n)
LSExt(w, n) == MKBIGSI(Sign(w, n))

----------------------------------------------------------------------------
(* The program.                                                            *)

Init == /\ x \in Operands
        /\ y \in Operands
        /\ op = "none"
        /\ res = x
        /\ want = Value(x)

Returns(name, result, value) ==
    /\ op = "none"
    /\ op' = name
    /\ want' = value
    /\ res' = result
    /\ UNCHANGED <<x, y>>

\* The product has at most MaxBits bits.
InRange(a, b) == IF b = 0 THEN TRUE ELSE Abs(a) <= (Pow(2, MaxBits) - 1) \div Abs(b)

CallPlus  == Returns("plus", idris_bigPlus(x, y), Value(x) + Value(y))
CallMinus == Returns("minus", idris_bigMinus(x, y), Value(x) - Value(y))
CallTimes == InRange(Value(x), Value(y))
         /\ Returns("times", idris_bigTimes(x, y), Value(x) * Value(y))
CallDivide == Value(y) # 0
          /\ Returns("divide", idris_bigDivide(x, y), Quot(Value(x), Value(y)))
CallMod == Value(y) # 0
       /\ Returns("mod", idris_bigMod(x, y), Rem(Value(x), Value(y)))
CallShiftLeft == \E n \in ShiftCounts :
    InRange(Value(x), Pow(2, n))
    /\ Returns("shiftLeft", idris_bigShiftLeft(x, n), Value(x) * Pow(2, n))
CallShiftRight == \E n \in ShiftCounts :
    Returns("shiftRight", idris_bigShiftRight(x, n), Value(x) \div Pow(2, n))

\* & and | of two integers, on two's complements longer than both.
Wide == Pow(2, MaxBits + 1)
Signed(n) == IF n >= Wide \div 2 THEN n - Wide ELSE n
CallAnd == Returns("and", idris_bigAnd(x, y), Signed(BitAnd(MaxBits + 1, Value(x), Value(y))))
CallOr  == Returns("or", idris_bigOr(x, y), Signed(BitOr(MaxBits + 1, Value(x), Value(y))))

\* The result becomes an operand of the next call, if it is one of those tried.
Continue ==
    /\ op # "none"
    /\ x' = IF Value(res) \in IF res.big THEN BigOperands ELSE FixOperands THEN res ELSE x
    /\ res' = x'
    /\ want' = Value(x')
    /\ op' = "none"
    /\ UNCHANGED y

Next == \/ CallPlus \/ CallMinus \/ CallTimes \/ CallDivide \/ CallMod
        \/ CallAnd \/ CallOr \/ CallShiftLeft \/ CallShiftRight
        \/ Continue

Spec == Init /\ [][Next]_vars

----------------------------------------------------------------------------
(* Properties.                                                             *)

IsValue(v) == v.big \in BOOLEAN /\ IF v.big THEN IsMpz(v.z) ELSE v.n \in Fixnum

\* An integer is a fixnum that fits in its word, or a big integer whose top
\* limb is not zero: mpz_cmp and mpn_div_qr take the number of limbs for the
\* length of the number.
TypeOK == IsValue(x) /\ IsValue(y) /\ IsValue(res) /\ want \in Int

\* Whenever the result is big, or the right result fits a fixnum, the result
\* is the right one: every carry, borrow, quotient estimate and sign of
\* mini-gmp and every choice of the short cut in idris_gmp.c.  A sum is right
\* in any case: idris_bigPlus catches every overflow.
ExactIfItFits == res.big \/ want \in Fixnum \/ op = "plus" => Value(res) = want

\* No call changes a value silently: what libs/prelude/Prelude/Nat.idr:15 and
\* the evaluator of the compiler take for granted.
Unbounded == op # "none" => Value(res) = want

\* The six comparisons see the order of the values whatever mixture of
\* fixnums and big integers they are given.
OrderRight ==
    op = "none" =>
      /\ idris_bigEq(x, y) = (Value(x) = Value(y))
      /\ idris_bigLt(x, y) = (Value(x) < Value(y))
      /\ idris_bigLe(x, y) = (Value(x) <= Value(y))
      /\ idris_bigGt(x, y) = (Value(x) > Value(y))
      /\ idris_bigGe(x, y) = (Value(x) >= Value(y))
      /\ ~y.big => bigEqConst(x, y.n) = (Value(x) = Value(y))

\* An integer written out and read again is the same integer, and the text
\* with its end fits the memory that mpz_get_str asked for.
WrittenAs(text) ==
    /\ Value(idris_castStrBig(text)) = Value(x)
    /\ Len(text) + 1 <= 2 + mpz_sizeinbase(getbig(x), 10)
    /\ \A i \in 1 .. Len(text) : text[i] \in Digit0 .. Digit0 + 9 \cup {Minus}
TextRight == op = "none" => WrittenAs(idris_castBigStr(x))

\* Through a Double and back an integer of at most MantissaBits bits is the same
\* one, and a longer one is off by no more than one part in 2^(MantissaBits - 1),
\* which is twice as much as its nearest Double can be: mpz_get_d rounds every
\* limb and every sum, and the errors meet.  mpz_set_d finds the number of limbs
\* by itself.
FloatRight ==
    op = "none" =>
      LET back == Value(idris_castFloatBig(idris_castBigFloat(x)))
          off == Abs(back - Value(x))
      IN  /\ Abs(Value(x)) < Pow(2, MantissaBits) => off = 0
          /\ off * Pow(2, MantissaBits - 1) <= Abs(Value(x))
          /\ Sgn(back) = Sgn(Value(x))

\* Every operation on words gives at every width what it gives at the wider
\* ones: promotion to int, sign extension and the final cut do not show.
WordsAgree ==
    op = "none" =>
      \A w \in Widths, v \in Widths : w < v =>
        \A o \in Operators : Agree(o, w, v, Cut(w, Value(x)), Cut(w, Value(y)))

\* A machine word cut to any width is divided with remainder, stored in memory and
\* loaded again, and made an integer and cut again, without loss: the cast
\* from words to integers reads the width and the sign that it should.
WordsKept ==
    op = "none" =>
      LET mem == [i \in 1 .. Bytes(W64) + 2 |-> Cut(W8, Value(y) + i)]
      IN  /\ Value(x) \in 0 .. HighBit \div 2 - 1 => Value(idris_castBigInt(x)) = Value(x)
          /\ \A w \in Widths :
            LET n == Cut(w, Value(x))
            IN  /\ Divides(w, n, Cut(w, Value(y)))
                /\ StoresAndLoads(w, mem, n)
                /\ Value(LZExt(w, n)) = n /\ LTrunc(w, LZExt(w, n)) = n
                /\ Value(LSExt(w, n)) = Sign(w, n)

\* Two blocks of bytes.
FiveBytes == [i \in 1 .. 5 |-> Cut(W8, Value(y) + i)]
FourBytes == [i \in 1 .. 4 |-> Cut(W8, Value(x) * i)]

\* An int, a copy and a file come out of a Buffer as they went in, at whatever
\* location, in whatever pieces; an int or a copy to a location of a Buffer that
\* has no room for it changes nothing.  (Of a copy from out of bounds this says
\* nothing: see CopiesInBounds.)
BuffersKept ==
    op = "none" =>
      /\ StoredIsLoaded(FiveBytes, Cut(W32, Value(x)))
      /\ CopiesArrive(FiveBytes, FourBytes) /\ CopiesArrive(FourBytes, FiveBytes)
      /\ FilesPass(FiveBytes, FourBytes) /\ FilesPass(FourBytes, FiveBytes)

\* A copy from a location out of bounds of the source, or of a negative length,
\* changes nothing (Data/Buffer.idr:84; the code tests the destination only).
CopiesInBounds ==
    op = "none" => CopyInBounds(FiveBytes, FourBytes) /\ CopyInBounds(FourBytes, FiveBytes)

\* A word that became an integer with its sign is the same word when it is cut
\* again, and a cut integer is congruent to the whole one.
CutIsModular ==
    op = "none" =>
      \A w \in Widths :
        LET n == Cut(w, Value(x))
        IN  LTrunc(w, LSExt(w, n)) = n /\ LTrunc(w, x) = n

=============================================================================
