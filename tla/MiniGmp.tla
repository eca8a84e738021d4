------------------------------ MODULE MiniGmp ------------------------------
(***************************************************************************)
(* The part of rts/mini-gmp.c that the runtime calls.  A number is a       *)
(* sequence of limbs, the least significant first; a limb has 2*HalfBits   *)
(* bits and every operation on limbs wraps, as mp_limb_t does.  A loop     *)
(* over limbs that hands something from one limb to the next is a Chain    *)
(* (upwards) or a ChainDown (downwards).  Where the code overwrites its    *)
(* argument, the operator returns the new limbs: r are the limbs written,  *)
(* cy what is handed out of the last one.                                  *)
(***************************************************************************)
EXTENDS Integers, Sequences, Bits

CONSTANTS HalfBits,  \* GMP_LIMB_BITS / 2
          MaxLimbs   \* a bound on the length of the numbers that are tried

ASSUME SizesAssumption == HalfBits \in Nat \ {0} /\ MaxLimbs \in Nat \ {0}

LimbBits == 2 * HalfBits
H == Pow(2, HalfBits)       \* GMP_HLIMB_BIT
B == H * H                  \* one more than GMP_LIMB_MAX
HighBit == B \div 2         \* GMP_LIMB_HIGHBIT
Limb == 0 .. B - 1

Wrap(x) == x % B
Com(x) == B - 1 - x
Bit(p) == IF p THEN 1 ELSE 0
Abs(x) == IF x < 0 THEN -x ELSE x
Sgn(x) == IF x < 0 THEN -1 ELSE Bit(x > 0)

\* Limb i of the result is step[i][c][1], where c is what limb i - 1 (for
\* Chain) or i + 1 (for ChainDown) handed on; step[i][c][2] is handed on next.
Chain(step, n, c0) ==
    LET run[i \in 0 .. n] ==
          IF i = 0 THEN [r |-> <<>>, cy |-> c0]
          ELSE LET p == run[i - 1]
                   s == step[i][p.cy]
               IN  [r |-> Append(p.r, s[1]), cy |-> s[2]]
    IN  run[n]

ChainDown(step, n, c0) ==
    LET run[i \in 0 .. n] ==
          IF i = 0 THEN [r |-> <<>>, cy |-> c0]
          ELSE LET p == run[i - 1]
                   s == step[n + 1 - i][p.cy]
               IN  [r |-> <<s[1]>> \o p.r, cy |-> s[2]]
    IN  run[n]

\* rp with the limbs from offset i (counted from 0) replaced by seg.
Store(rp, i, seg) ==
    [k \in 1 .. Len(rp) |-> IF k > i /\ k <= i + Len(seg) THEN seg[k - i] ELSE rp[k]]
Slice(ap, i, n) == SubSeq(ap, i + 1, i + n)

----------------------------------------------------------------------------
(* Double limbs, as pairs <<high, low>>.                                   *)

gmp_clz(x) == CHOOSE c \in 0 .. LimbBits - 1 : HighBit <= x * Pow(2, c) /\ x * Pow(2, c) < B

gmp_add_ssaaaa(ah, al, bh, bl) ==
    LET x == Wrap(al + bl) IN <<Wrap(ah + bh + Bit(x < al)), x>>

gmp_sub_ddmmss(ah, al, bh, bl) ==
    <<Wrap(ah - bh - Bit(al < bl)), Wrap(al - bl)>>

\* The products of the halves, low to high, and their sum.
Halves(x0, x1, x2, x3) ==
    <<Wrap(Wrap(x3 + IF x1 < x2 THEN H ELSE 0) + x1 \div H), Wrap(x1 * H) + (x0 % H)>>
Products(ul, uh, vl, vh) ==
    Halves(ul * vl, Wrap(Wrap(ul * vh + (ul * vl) \div H) + uh * vl), uh * vl, uh * vh)
gmp_umul_ppmm(u, v) == Products(u % H, u \div H, v % H, v \div H)

\* The quotient estimate, with a fraction: <h, l> + n2 * inverse, where
\* <h, l> is <n2 (+ 1), n1>.
Estimate(p, h, l) == gmp_add_ssaaaa(p[1], p[2], h, l)

\* <<quotient, remainder>> of <nh, nl> by the normalized limb d.
Corrected(q, r, d) ==
    LET over == r > q[2]
        qh == IF over THEN Wrap(q[1] - 1) ELSE q[1]
        rh == IF over THEN Wrap(r + d) ELSE r
    IN  IF rh >= d THEN <<Wrap(qh + 1), rh - d>> ELSE <<qh, rh>>
WithEstimate(q, nl, d) == Corrected(q, Wrap(nl - q[1] * d), d)
gmp_udiv_qrnnd_preinv(nh, nl, d, di) ==
    WithEstimate(Estimate(gmp_umul_ppmm(nh, di), Wrap(nh + 1), nl), nl, d)

\* <n1, n0> minus q[1] + 1 times <d1, d0>.
Less(a, t) == gmp_sub_ddmmss(a[1], a[2], t[1], t[2])
Rest(q, n1, n0, d1, d0) ==
    Less(gmp_sub_ddmmss(Wrap(n1 - d1 * q[1]), n0, d1, d0), gmp_umul_ppmm(d0, q[1]))

\* The two corrections of the quotient q and the remainder r.
First(q, r, d1, d0) ==
    IF r[1] >= q[2] THEN [q |-> q[1], r |-> gmp_add_ssaaaa(r[1], r[2], d1, d0)]
    ELSE [q |-> Wrap(q[1] + 1), r |-> r]
Second(e, d1, d0) ==
    IF e.r[1] > d1 \/ (e.r[1] = d1 /\ e.r[2] >= d0)
    THEN <<Wrap(e.q + 1)>> \o gmp_sub_ddmmss(e.r[1], e.r[2], d1, d0)
    ELSE <<e.q>> \o e.r

FirstOf3by2(q, n1, n0, d1, d0) == First(q, Rest(q, n1, n0, d1, d0), d1, d0)
Once(n2, n1, n0, d1, d0, dinv) ==
    FirstOf3by2(Estimate(gmp_umul_ppmm(n2, dinv), n2, n1), n1, n0, d1, d0)

\* Mutant of gmp_udiv_qr_3by2: the estimate is corrected once only.
CorrectedOnce(n2, n1, n0, d1, d0, dinv) ==
    LET e == Once(n2, n1, n0, d1, d0, dinv) IN <<e.q>> \o e.r

\* <<quotient, r1, r0>> of <n2, n1, n0> by <d1, d0>.
gmp_udiv_qr_3by2(n2, n1, n0, d1, d0, dinv) == Second(Once(n2, n1, n0, d1, d0, dinv), d1, d0)

----------------------------------------------------------------------------
(* Natural numbers: the mpn_ functions.                                    *)

mpn_cmp(ap, bp) ==
    LET differ == {i \in 1 .. Len(ap) : ap[i] # bp[i]}
    IN  IF differ = {} THEN 0
        ELSE LET top == CHOOSE i \in differ : \A j \in differ : j <= i
             IN  IF ap[top] > bp[top] THEN 1 ELSE -1

mpn_cmp4(ap, bp) ==
    IF Len(ap) # Len(bp) THEN IF Len(ap) < Len(bp) THEN -1 ELSE 1
    ELSE mpn_cmp(ap, bp)

mpn_normalized_size(xp) ==
    LET used == {i \in 1 .. Len(xp) : xp[i] # 0}
    IN  IF used = {} THEN 0 ELSE CHOOSE i \in used : \A j \in used : j <= i
\* Mutant of Normalized: high zero limbs stay.
NotNormalized(xp) == xp
Normalized(xp) == SubSeq(xp, 1, mpn_normalized_size(xp))

\* A limb and what is handed on to the next.
AddOne(a, c) == LET r == Wrap(a + c) IN <<r, Bit(r < c)>>
TakeOne(a, c) == <<Wrap(a - c), Bit(a < c)>>
AddTwo(a, b, cy) == LET r == Wrap(a + cy)
                        s == Wrap(r + b)
                    IN  <<s, Bit(r < cy) + Bit(s < b)>>
TakeTwo(a, b0, cy) == LET b == Wrap(b0 + cy) IN <<Wrap(a - b), Bit(b < cy) + Bit(a < b)>>

mpn_add_1(ap, b) ==
    Chain([i \in DOMAIN ap |-> [c \in Limb |-> AddOne(ap[i], c)]], Len(ap), b)

mpn_add_n(ap, bp) ==
    Chain([i \in DOMAIN ap |-> [cy \in {0, 1} |-> AddTwo(ap[i], bp[i], cy)]], Len(ap), 0)

mpn_add(ap, bp) ==
    LET low  == mpn_add_n(SubSeq(ap, 1, Len(bp)), bp)
        high == mpn_add_1(SubSeq(ap, Len(bp) + 1, Len(ap)), low.cy)
    IN  [r |-> low.r \o high.r, cy |-> high.cy]

mpn_sub_1(ap, b) ==
    Chain([i \in DOMAIN ap |-> [c \in Limb |-> TakeOne(ap[i], c)]], Len(ap), b)

mpn_sub_n(ap, bp) ==
    Chain([i \in DOMAIN ap |-> [cy \in {0, 1} |-> TakeTwo(ap[i], bp[i], cy)]], Len(ap), 0)

mpn_sub(ap, bp) ==
    LET low  == mpn_sub_n(SubSeq(ap, 1, Len(bp)), bp)
        high == mpn_sub_1(SubSeq(ap, Len(bp) + 1, Len(ap)), low.cy)
    IN  [r |-> low.r \o high.r, cy |-> high.cy]

\* A product limb with the incoming carry: <<low, carry out>>.
Carried(p, cl) ==
    LET lpl == Wrap(p[2] + cl) IN <<lpl, Wrap(p[1] + Bit(lpl < cl))>>
MulStep(ul, vl, cl) == Carried(gmp_umul_ppmm(ul, vl), cl)

mpn_mul_1(up, vl) ==
    Chain([i \in DOMAIN up |-> [cl \in Limb |-> MulStep(up[i], vl, cl)]], Len(up), 0)

AddStep(r, m)  == <<Wrap(r + m[1]), Wrap(m[2] + Bit(Wrap(r + m[1]) < r))>>
SubStep(r, m)  == <<Wrap(r - m[1]), Wrap(m[2] + Bit(Wrap(r - m[1]) > r))>>
mpn_addmul_1(rp, up, vl) ==
    Chain([i \in DOMAIN up |-> [cl \in Limb |-> AddStep(rp[i], MulStep(up[i], vl, cl))]],
          Len(up), 0)
mpn_submul_1(rp, up, vl) ==
    Chain([i \in DOMAIN up |-> [cl \in Limb |-> SubStep(rp[i], MulStep(up[i], vl, cl))]],
          Len(up), 0)

\* The limbs below row k are final when row k has been added.
mpn_mul(up, vp) ==
    LET row[k \in 1 .. Len(vp)] ==
          IF k = 1 THEN LET m == mpn_mul_1(up, vp[1]) IN Append(m.r, m.cy)
          ELSE LET rp == row[k - 1]
                   m  == mpn_addmul_1(SubSeq(rp, k, Len(rp)), up, vp[k])
               IN  SubSeq(rp, 1, k - 1) \o Append(m.r, m.cy)
    IN  row[Len(vp)]

mpn_lshift(up, cnt) ==
    LET tnc == LimbBits - cnt
    IN  [r |-> [i \in 1 .. Len(up) |-> Wrap(up[i] * Pow(2, cnt))
                                       + IF i = 1 THEN 0 ELSE up[i - 1] \div Pow(2, tnc)],
         cy |-> up[Len(up)] \div Pow(2, tnc)]

mpn_rshift(up, cnt) ==
    LET tnc == LimbBits - cnt
    IN  [r |-> [i \in 1 .. Len(up) |-> up[i] \div Pow(2, cnt)
                                       + IF i = Len(up) THEN 0 ELSE Wrap(up[i + 1] * Pow(2, tnc))],
         cy |-> Wrap(up[1] * Pow(2, tnc))]

----------------------------------------------------------------------------
(* Division by a precomputed inverse.                                      *)

\* floor((B^3 - 1) / (B u1 + u0)) - B, half a limb at a time: the high half and
\* the remainder, where subtracting qh * ul may underflow and at most two
\* adjustments follow;
InvertHigh(u1, qh) ==
    LET p == qh * (u1 % H)
        r == Wrap((Com(u1) - qh * (u1 \div H)) * H) + H - 1
        fix == IF r >= p THEN 0 ELSE IF Wrap(r + u1) >= u1 /\ Wrap(r + u1) < p THEN 2 ELSE 1
    IN  [q |-> qh - fix, r |-> Wrap(r + fix * u1 - p)]
\* the low half, and the inverse of u1;
InvertLow(u1, e) ==
    LET p   == Wrap((e.r \div H) * e.q + e.r)
        ql0 == p \div H + 1
        r2  == Wrap(Wrap(e.r * H) + H - 1 - ql0 * u1)
        low == r2 >= Wrap(p * H)
        r3  == IF low THEN Wrap(r2 + u1) ELSE r2
    IN  [q |-> Wrap(e.q * H + ql0 - Bit(low) + Bit(r3 >= u1)),
         r |-> IF r3 >= u1 THEN r3 - u1 ELSE r3]
\* and from there to the inverse of <u1, u0>.
InvertMinus(u1, u0, m, r, t) ==
    IF r < t[1] THEN Wrap(m - 1 - Bit(r > u1 \/ (r = u1 /\ t[2] > u0))) ELSE m
InvertTimes(u1, u0, m, r, t) == InvertMinus(u1, u0, m, Wrap(r + t[1]), t)
InvertBoth(u1, u0, m, r) ==
    LET less == IF r >= u0 THEN 0 ELSE IF r >= u1 THEN 2 ELSE 1
        q == Wrap(m - less)
    IN  InvertTimes(u1, u0, q, Wrap(r - less * u1), gmp_umul_ppmm(u0, q))
InvertMore(u1, u0, e) ==
    IF u0 = 0 THEN e.q ELSE InvertBoth(u1, u0, e.q, Wrap(Com(e.r) + u0))
mpn_invert_3by2(u1, u0) ==
    InvertMore(u1, u0, InvertLow(u1, InvertHigh(u1, Com(u1) \div (u1 \div H))))

mpn_div_qr_1_invert(d) ==
    LET shift == gmp_clz(d)
        d1 == Wrap(d * Pow(2, shift))
    IN  [shift |-> shift, d1 |-> d1, d0 |-> 0, di |-> mpn_invert_3by2(d1, 0)]

\* The bits that move up into hi when hi and lo are shifted left.
ShiftIn(hi, lo, shift) == Wrap(hi * Pow(2, shift)) + lo \div Pow(2, LimbBits - shift)

mpn_div_qr_2_invert(d1, d0) ==
    LET shift == gmp_clz(d1)
        n1 == ShiftIn(d1, d0, shift)
        n0 == Wrap(d0 * Pow(2, shift))
    IN  [shift |-> shift, d1 |-> n1, d0 |-> n0, di |-> mpn_invert_3by2(n1, n0)]

mpn_div_qr_invert(dp) ==
    LET dn == Len(dp)
        shift == gmp_clz(dp[dn])
        d1 == ShiftIn(dp[dn], dp[dn - 1], shift)
        d0 == ShiftIn(dp[dn - 1], dp[dn - 2], shift)
    IN  IF dn = 1 THEN mpn_div_qr_1_invert(dp[1])
        ELSE IF dn = 2 THEN mpn_div_qr_2_invert(dp[2], dp[1])
        ELSE [shift |-> shift, d1 |-> d1, d0 |-> d0, di |-> mpn_invert_3by2(d1, d0)]

Shifted(np, shift) == IF shift > 0 THEN mpn_lshift(np, shift) ELSE [r |-> np, cy |-> 0]

\* One limb of divisor: quotient q, remainder r.
mpn_div_qr_1_preinv(np, inv) ==
    LET t == Shifted(np, inv.shift)
        c == ChainDown([i \in DOMAIN np |->
                          [r \in Limb |-> gmp_udiv_qrnnd_preinv(r, t.r[i], inv.d1, inv.di)]],
                       Len(np), t.cy)
    IN  [q |-> c.r, r |-> c.cy \div Pow(2, inv.shift)]

\* Two limbs: <<r1, r0>> is handed down, and shifted back at the end.
HandDown(e) == <<e[1], <<e[2], e[3]>>>>
Down(r1, r0, shift) ==
    IF shift = 0 THEN <<r0, r1>>
    ELSE <<r0 \div Pow(2, shift) + Wrap(r1 * Pow(2, LimbBits - shift)), r1 \div Pow(2, shift)>>
Unshifted(c, shift) == [q |-> c.r, r |-> Down(c.cy[1], c.cy[2], shift)]
DivideShifted(t, inv) ==
    Unshifted(ChainDown([i \in 1 .. Len(t.r) - 1 |-> [r \in Limb \X Limb |->
                           HandDown(gmp_udiv_qr_3by2(r[1], r[2], t.r[i], inv.d1, inv.d0, inv.di))]],
                        Len(t.r) - 1, <<t.cy, t.r[Len(t.r)]>>),
              inv.shift)
mpn_div_qr_2_preinv(np, inv) == DivideShifted(Shifted(np, inv.shift), inv)

\* One quotient limb of mpn_div_qr_pi1, at offset i: the state s holds the
\* limbs np and the top limb n1 that is kept out of them.  The estimate e comes
\* from the upper two limbs of the divisor; part is the product of the others,
\* and when that is too much, the divisor is added back once.
AddBack(dp, i, q, np, n1) ==
    LET dn == Len(dp)
        back == mpn_add_n(Slice(np, i, dn - 1), SubSeq(dp, 1, dn - 1))
    IN  <<Wrap(q - 1), [np |-> Store(np, i, back.r), n1 |-> Wrap(n1 + dp[dn] + back.cy)]>>
TakePart(dp, i, np, e, part) ==
    LET cy1 == Bit(e[3] < part.cy)
        np2 == Store(Store(np, i, part.r), Len(dp) - 2 + i, <<Wrap(e[3] - part.cy)>>)
        n2  == Wrap(e[2] - cy1)
    IN  IF e[2] < cy1 THEN AddBack(dp, i, e[1], np2, n2) ELSE <<e[1], [np |-> np2, n1 |-> n2]>>
TakeEstimate(dp, i, np, e) ==
    LET dn == Len(dp)
    IN  TakePart(dp, i, np, e, mpn_submul_1(Slice(np, i, dn - 2), SubSeq(dp, 1, dn - 2), e[1]))
\* The top limbs are those of the divisor: the largest limb, and nothing to estimate.
TakeAll(dp, i, np) ==
    LET full == Store(np, i, mpn_submul_1(Slice(np, i, Len(dp)), dp, B - 1).r)
    IN  <<B - 1, [np |-> full, n1 |-> full[Len(dp) + i]]>>
Pi1Step(dp, dinv, i, s) ==
    LET dn == Len(dp)
        n0 == s.np[dn + i]
    IN  IF s.n1 = dp[dn] /\ n0 = dp[dn - 1] THEN TakeAll(dp, i, s.np)
        ELSE TakeEstimate(dp, i, s.np,
                          gmp_udiv_qr_3by2(s.n1, n0, s.np[dn - 1 + i], dp[dn], dp[dn - 1], dinv))

Divided(c, dp) == [q |-> c.r, r |-> Append(SubSeq(c.cy.np, 1, Len(dp) - 1), c.cy.n1)]
mpn_div_qr_pi1(np, n1, dp, dinv) ==
    Divided(ChainDown([i \in 1 .. Len(np) - Len(dp) + 1 |->
                         [s \in [np : Seq(Limb), n1 : Limb] |-> Pi1Step(dp, dinv, i - 1, s)]],
                      Len(np) - Len(dp) + 1, [np |-> np, n1 |-> n1]), dp)

DownBy(c, shift) == [q |-> c.q, r |-> IF shift > 0 THEN mpn_rshift(c.r, shift).r ELSE c.r]
OneLimb(c) == [q |-> c.q, r |-> <<c.r>>]
mpn_div_qr_preinv(np, dp, inv) ==
    LET t == Shifted(np, inv.shift)
    IN  CASE Len(dp) = 1 -> OneLimb(mpn_div_qr_1_preinv(np, inv))
          [] Len(dp) = 2 -> mpn_div_qr_2_preinv(np, inv)
          [] OTHER -> DownBy(mpn_div_qr_pi1(t.r, t.cy, dp, inv.di), inv.shift)

\* Quotient q of Len(np) - Len(dp) + 1 limbs, remainder r of Len(dp) limbs.
DivideBy(np, dp, inv) ==
    mpn_div_qr_preinv(np, IF Len(dp) > 2 THEN Shifted(dp, inv.shift).r ELSE dp, inv)
mpn_div_qr(np, dp) == DivideBy(np, dp, mpn_div_qr_invert(dp))

----------------------------------------------------------------------------
(* Digits of a number, the most significant first, in a base that is not a *)
(* power of two (the runtime asks for base 10 only).                       *)

\* bb, the largest power of the base that fits in one limb, and its exponent.
mpn_get_base_info(base) ==
    LET exp == CHOOSE e \in 1 .. LimbBits : Pow(base, e) < B /\ Pow(base, e + 1) >= B
    IN  [exp |-> exp, bb |-> Pow(base, exp)]

\* The digits of one limb, the least significant first, none for zero.
OneDigit(e, shift) == [digit |-> e[2] \div Pow(2, shift), rest |-> e[1]]
mpn_limb_get_str(w0, binv) ==
    LET Split(w) == OneDigit(gmp_udiv_qrnnd_preinv(w \div Pow(2, LimbBits - binv.shift),
                                                   Wrap(w * Pow(2, binv.shift)), binv.d1, binv.di),
                             binv.shift)
        digits[w \in Limb] ==
          IF w = 0 THEN <<>>
          ELSE LET e == Split(w) IN <<e.digit>> \o digits[e.rest]
    IN  digits[w0]

Reversed(s) == [i \in 1 .. Len(s) |-> s[Len(s) + 1 - i]]
\* The digits a group lacks; the mutant of it pads nothing.
NoZeros(n) == <<>>
Zeros(n) == [i \in 1 .. n |-> 0]

\* While there are two limbs, info.exp digits at a time come off the low end;
\* every division by bb shortens the number within two turns.
TakeDigits(s, n, e, w, exp) ==
    IF n = 1 THEN s
    ELSE [up |-> SubSeq(e.q, 1, n - Bit(e.q[n] = 0)), sp |-> s.sp \o w \o Zeros(exp - Len(w))]
Turn(s, e, exp, binv) == TakeDigits(s, Len(s.up), e, mpn_limb_get_str(e.r, binv), exp)
Turns(exp, up, binv, bbinv) ==
    LET turn[k \in 0 .. 2 * Len(up)] ==
          IF k = 0 THEN [up |-> up, sp |-> <<>>]
          ELSE LET s == turn[k - 1] IN Turn(s, mpn_div_qr_1_preinv(s.up, bbinv), exp, binv)
    IN  turn[2 * Len(up)]
AllDigits(s, binv) == Reversed(s.sp \o mpn_limb_get_str(s.up[1], binv))
DigitsOf(up, info, binv) ==
    AllDigits(Turns(info.exp, up, binv, mpn_div_qr_1_invert(info.bb)), binv)
mpn_get_str_other(base, info, up) == DigitsOf(up, info, mpn_div_qr_1_invert(base))

\* The value of a few digits in one limb.
LimbOf(sp, b) ==
    LET w[k \in 0 .. Len(sp)] == IF k = 0 THEN 0 ELSE Wrap(w[k - 1] * b + sp[k])
    IN  w[Len(sp)]

Carry(cy, a) == IF Wrap(cy + a.cy) > 0 THEN Append(a.r, Wrap(cy + a.cy)) ELSE a.r
mpn_set_str_other(sp, b, info) ==
    LET first == 1 + ((Len(sp) - 1) % info.exp)
        AddTo(m, w) == Carry(m.cy, mpn_add_1(m.r, w))
        rp[k \in 0 .. (Len(sp) - first) \div info.exp] ==
          IF k = 0 THEN <<LimbOf(SubSeq(sp, 1, first), b)>>
          ELSE AddTo(mpn_mul_1(rp[k - 1], info.bb),
                     LimbOf(Slice(sp, first + (k - 1) * info.exp, info.exp), b))
    IN  rp[(Len(sp) - first) \div info.exp]

----------------------------------------------------------------------------
(* Signed numbers: the mpz_ functions.  An mpz_t is its _mp_size, whose    *)
(* sign is the sign of the number, and the limbs in use.                   *)

Mpz(neg, d) == [size |-> IF neg THEN -Len(d) ELSE Len(d), d |-> d]
mpz_init == Mpz(FALSE, <<>>)

IsMpz(z) == /\ z.d \in Seq(Limb)
            /\ z.size \in {Len(z.d), -Len(z.d)}
            /\ z.d # <<>> => z.d[Len(z.d)] # 0

mpz_set_ui(x) == IF x > 0 THEN Mpz(FALSE, <<x>>) ELSE mpz_init
mpz_set_si(x) == IF x >= 0 THEN mpz_set_ui(x) ELSE Mpz(TRUE, <<Wrap(-x)>>)

mpz_get_ui(u) == IF u.size = 0 THEN 0 ELSE u.d[1]
mpz_getlimbn(u, n) == IF n >= 0 /\ n < Abs(u.size) THEN u.d[n + 1] ELSE 0

mpz_cmp_ui(u, v) ==
    IF u.size > 1 THEN 1 ELSE IF u.size < 0 THEN -1 ELSE Sgn(mpz_get_ui(u) - v)
mpz_cmp_si(u, v) ==
    IF u.size < -1 THEN -1
    ELSE IF v >= 0 THEN mpz_cmp_ui(u, v)
    ELSE IF u.size >= 0 THEN 1 ELSE Sgn(Wrap(-v) - u.d[1])
\* Mutant of mpz_cmp: negative numbers in the order of their magnitudes.
CompareMagnitudes(a, b) ==
    IF a.size # b.size THEN IF a.size < b.size THEN -1 ELSE 1 ELSE mpn_cmp(a.d, b.d)
mpz_cmp(a, b) ==
    IF a.size # b.size THEN IF a.size < b.size THEN -1 ELSE 1
    ELSE IF a.size >= 0 THEN mpn_cmp(a.d, b.d) ELSE mpn_cmp(b.d, a.d)

\* Mutant of mpz_set_d: a power of B is not scaled once more.
ScaledTooLittle(twice) ==
    LET x == Abs(twice) \div 2
        rn == CHOOSE n \in 1 .. MaxLimbs :
                /\ x \div Pow(B, n - 1) \in 0 .. B
                /\ \A m \in 1 .. n - 1 : x \div Pow(B, m - 1) \notin 0 .. B
        c == ChainDown([i \in 1 .. rn |-> [rest \in Nat |->
                          <<Wrap(rest \div Pow(B, i - 1)), rest % Pow(B, i - 1)>>]], rn, x)
    IN  IF x < 1 THEN mpz_init ELSE Mpz(twice < 0, c.r)

\* A double is given by twice its value, so that a fraction can be lost; the
\* scaling by powers of two is exact.
mpz_set_d(twice) ==
    LET x == Abs(twice) \div 2
        rn == CHOOSE n \in 1 .. MaxLimbs : x \div Pow(B, n - 1) \in 1 .. B - 1
        c == ChainDown([i \in 1 .. rn |-> [rest \in Nat |->
                          <<rest \div Pow(B, i - 1), rest % Pow(B, i - 1)>>]], rn, x)
    IN  IF x < 1 THEN mpz_init ELSE Mpz(twice < 0, c.r)

\* A double holds a natural number rounded to its first bits, to the even one
\* of two neighbours that are equally near; n has at most maxBits bits.
RoundTo(bits, n, maxBits) ==
    LET e == CHOOSE e \in 0 .. maxBits : n \div Pow(2, e) < Pow(2, bits)
                 /\ \A f \in 0 .. e - 1 : n \div Pow(2, f) >= Pow(2, bits)
        q == n \div Pow(2, e)
        r == 2 * (n % Pow(2, e))
    IN  Pow(2, e) * (q + Bit(r > Pow(2, e) \/ (r = Pow(2, e) /\ q % 2 = 1)))

\* x = B * x + limb, from the top: the limb is made a double, and so is the sum.
mpz_get_d(u, bits) ==
    LET un == Len(u.d)
        x[k \in 0 .. un] ==
          IF k = 0 THEN 0
          ELSE RoundTo(bits, B * x[k - 1] + RoundTo(bits, u.d[un + 1 - k], LimbBits),
                       LimbBits * k + 1)
    IN  IF u.size < 0 THEN -x[un] ELSE x[un]

mpz_neg(u) == [u EXCEPT !.size = -u.size]

\* |a| + b and |a| - b for a limb b.  The size of the difference is negative
\* when it underflows.
mpz_abs_add_ui(a, b) ==
    LET s == mpn_add_1(a.d, b)
    IN  IF a.size = 0 THEN mpz_set_ui(b)
        ELSE Mpz(FALSE, IF s.cy > 0 THEN Append(s.r, s.cy) ELSE s.r)
mpz_abs_sub_ui(a, b) ==
    IF a.size = 0 THEN Mpz(TRUE, IF b > 0 THEN <<b>> ELSE <<>>)
    ELSE IF Abs(a.size) = 1 /\ a.d[1] < b THEN Mpz(TRUE, <<b - a.d[1]>>)
    ELSE Mpz(FALSE, Normalized(mpn_sub_1(a.d, b).r))
mpz_add_ui(a, b) ==
    IF a.size >= 0 THEN mpz_abs_add_ui(a, b) ELSE mpz_neg(mpz_abs_sub_ui(a, b))
mpz_sub_ui(a, b) ==
    IF a.size < 0 THEN mpz_neg(mpz_abs_add_ui(a, b)) ELSE mpz_abs_sub_ui(a, b)

mpz_abs_add(a, b) ==
    LET long  == IF Len(a.d) < Len(b.d) THEN b.d ELSE a.d
        short == IF Len(a.d) < Len(b.d) THEN a.d ELSE b.d
        s == mpn_add(long, short)
    IN  Mpz(FALSE, IF s.cy > 0 THEN Append(s.r, s.cy) ELSE s.r)
mpz_abs_sub(a, b) ==
    CASE mpn_cmp4(a.d, b.d) > 0 -> Mpz(FALSE, Normalized(mpn_sub(a.d, b.d).r))
      [] mpn_cmp4(a.d, b.d) < 0 -> Mpz(TRUE, Normalized(mpn_sub(b.d, a.d).r))
      [] OTHER -> mpz_init

\* The code tests the sign bit of the exclusive or of the two sizes.
SameSign(a, b) == (a.size < 0) = (b.size < 0)
mpz_add(a, b) ==
    LET r == IF SameSign(a, b) THEN mpz_abs_add(a, b) ELSE mpz_abs_sub(a, b)
    IN  IF a.size >= 0 THEN r ELSE mpz_neg(r)
mpz_sub(a, b) ==
    LET r == IF SameSign(a, b) THEN mpz_abs_sub(a, b) ELSE mpz_abs_add(a, b)
    IN  IF a.size >= 0 THEN r ELSE mpz_neg(r)

WithoutZero(p) == SubSeq(p, 1, Len(p) - Bit(p[Len(p)] = 0))
mpz_mul(u, v) ==
    IF u.size = 0 \/ v.size = 0 THEN mpz_init
    ELSE Mpz(~SameSign(u, v), WithoutZero(IF Len(u.d) >= Len(v.d) THEN mpn_mul(u.d, v.d)
                                          ELSE mpn_mul(v.d, u.d)))

mpz_mul_2exp(u, bits) ==
    LET limbs == bits \div LimbBits
        shift == bits % LimbBits
        s == mpn_lshift(u.d, shift)
        up == IF shift = 0 THEN u.d ELSE IF s.cy = 0 THEN s.r ELSE Append(s.r, s.cy)
    IN  IF u.size = 0 THEN mpz_init ELSE Mpz(u.size < 0, Zeros(limbs) \o up)

\* Quotient and remainder; mode is "floor", "ceil" or "trunc".
Rounded(n, d, mode, tq, tr) ==
    LET opposite == ~SameSign(n, d)
    IN  CASE tr.size # 0 /\ mode = "floor" /\ opposite ->
               [q |-> mpz_sub_ui(tq, 1), r |-> mpz_add(tr, d)]
          [] tr.size # 0 /\ mode = "ceil" /\ ~opposite ->
               [q |-> mpz_add_ui(tq, 1), r |-> mpz_sub(tr, d)]
          [] OTHER -> [q |-> tq, r |-> tr]
Smaller(n, d, mode) ==
    LET opposite == ~SameSign(n, d)
    IN  CASE mode = "ceil" /\ ~opposite -> [q |-> mpz_set_ui(1), r |-> mpz_sub(n, d)]
          [] mode = "floor" /\ opposite -> [q |-> mpz_set_si(-1), r |-> mpz_add(n, d)]
          [] OTHER -> [q |-> mpz_init, r |-> n]
WithSigns(n, d, mode, e) ==
    Rounded(n, d, mode, Mpz(~SameSign(n, d), WithoutZero(e.q)), Mpz(n.size < 0, Normalized(e.r)))
mpz_div_qr(n, d, mode) ==
    IF n.size = 0 THEN [q |-> mpz_init, r |-> mpz_init]
    ELSE IF Len(n.d) < Len(d.d) THEN Smaller(n, d, mode)
    ELSE WithSigns(n, d, mode, mpn_div_qr(n.d, d.d))
mpz_tdiv_q(n, d) == mpz_div_qr(n, d, "trunc").q
mpz_tdiv_r(n, d) == mpz_div_qr(n, d, "trunc").r

mpz_div_q_2exp(u, bits, mode) ==
    LET limb_cnt == bits \div LimbBits
        shift == bits % LimbBits
        qn == Len(u.d) - limb_cnt
        adjust == /\ mode = IF u.size > 0 THEN "ceil" ELSE "floor"
                  /\ \/ qn <= 0
                     \/ \E i \in 1 .. limb_cnt : u.d[i] # 0
                     \/ u.d[limb_cnt + 1] % Pow(2, shift) # 0
        high == Slice(u.d, limb_cnt, qn)
        s == mpn_rshift(high, shift).r
        q == IF qn <= 0 THEN <<>>
             ELSE IF shift = 0 THEN high
             ELSE SubSeq(s, 1, qn - Bit(s[qn] = 0))
        z == IF adjust THEN mpz_add_ui(Mpz(FALSE, q), 1) ELSE Mpz(FALSE, q)
    IN  IF u.size = 0 THEN mpz_init ELSE IF u.size < 0 THEN mpz_neg(z) ELSE z
mpz_fdiv_q_2exp(u, bits) == mpz_div_q_2exp(u, bits, "floor")

\* Bitwise operations on the two's complement, made and undone limb by limb:
\* the carries uc, vc and rc belong to the three complements, and beyond its
\* last limb v continues with its sign.
Twos(x, neg, c) == LET l == Wrap((IF neg THEN Com(x) ELSE x) + c) IN <<l, Bit(l < c)>>
BitLimbs(and, u, v, rneg, rn) ==
    LET uneg == u.size < 0
        vneg == v.size < 0
        sign == IF vneg THEN B - 1 ELSE 0
    IN  Chain([i \in 1 .. rn |-> [c \in {0, 1} \X {0, 1} \X {0, 1} |->
                LET ul == Twos(u.d[i], uneg, c[1])
                    vl == IF i <= Len(v.d) THEN Twos(v.d[i], vneg, c[2]) ELSE <<sign, c[2]>>
                    x == IF and THEN BitAnd(LimbBits, ul[1], vl[1])
                        ELSE BitOr(LimbBits, ul[1], vl[1])
                    rl == Twos(x, rneg, c[3])
                IN  <<rl[1], <<ul[2], vl[2], rl[2]>>>>]],
              rn, <<Bit(uneg), Bit(vneg), Bit(rneg)>>)
BitResult(c, rneg) ==
    Mpz(rneg, IF c.cy[3] > 0 THEN Append(c.r, c.cy[3]) ELSE Normalized(c.r))

mpz_and(u0, v0) ==
    LET u == IF Len(u0.d) < Len(v0.d) THEN v0 ELSE u0
        v == IF Len(u0.d) < Len(v0.d) THEN u0 ELSE v0
        rneg == u.size < 0 /\ v.size < 0
        rn == IF v.size < 0 THEN Len(u.d) ELSE Len(v.d)
    IN  IF v.size = 0 THEN mpz_init
        ELSE BitResult(BitLimbs(TRUE, u, v, rneg, rn), rneg)
mpz_ior(u0, v0) ==
    LET u == IF Len(u0.d) < Len(v0.d) THEN v0 ELSE u0
        v == IF Len(u0.d) < Len(v0.d) THEN u0 ELSE v0
        rneg == u.size < 0 \/ v.size < 0
        rn == IF v.size < 0 THEN Len(v.d) ELSE Len(u.d)
    IN  IF v.size = 0 THEN u
        ELSE BitResult(BitLimbs(FALSE, u, v, rneg, rn), rneg)

\* Text, as a sequence of character codes.
Minus == 45
Digit0 == 48
Spaces == (9 .. 13) \cup {32}

\* The size of the buffer of mpz_get_str depends on it; found by dividing as
\* often as it takes, so the answer is exact for these bases.
CountDivisions(u, inv) ==
    LET left[k \in 0 .. LimbBits * Len(u.d)] ==
          IF k = 0 THEN u.d
          ELSE LET p == left[k - 1]
               IN  IF p = <<>> THEN p ELSE WithoutZero(mpn_div_qr_1_preinv(p, inv).q)
    IN  CHOOSE k \in 1 .. LimbBits * Len(u.d) : left[k] = <<>> /\ left[k - 1] # <<>>
mpz_sizeinbase(u, base) ==
    IF u.size = 0 THEN 1 ELSE CountDivisions(u, mpn_div_qr_1_invert(base))

Codes(sp) == [i \in DOMAIN sp |-> Digit0 + sp[i]]
mpz_get_str(base, u) ==
    IF u.size = 0 THEN <<Digit0>>
    ELSE (IF u.size < 0 THEN <<Minus>> ELSE <<>>)
         \o Codes(mpn_get_str_other(base, mpn_get_base_info(base), u.d))

\* Leading spaces, a sign, then digits and spaces; anything else gives zero.
mpz_set_str(sp0, base) ==
    LET start == CHOOSE k \in 1 .. Len(sp0) + 1 :
                   /\ \A i \in 1 .. k - 1 : sp0[i] \in Spaces
                   /\ k = Len(sp0) + 1 \/ sp0[k] \notin Spaces
        text == SubSeq(sp0, start, Len(sp0))
        sign == text # <<>> /\ text[1] = Minus
        body == SelectSeq(IF sign THEN Tail(text) ELSE text, LAMBDA c : c \notin Spaces)
        dp == [i \in 1 .. Len(body) |-> body[i] - Digit0]
    IN  IF body = <<>> \/ \E i \in 1 .. Len(dp) : dp[i] \notin 0 .. base - 1
        THEN mpz_init
        ELSE Mpz(sign, WithoutZero(mpn_set_str_other(dp, base, mpn_get_base_info(base))))

=============================================================================
