---------------------------- MODULE BigIntProofs ----------------------------
(***************************************************************************)
(* Proofs about BigInt, for any operands and any length of a number: what the *)
(* runtime makes of two integers is the number that arithmetic says.  Order, *)
(* shifts and division are proved here, from the limbs up; LimbProofs has the *)
(* other operations.  The theorems are at the end.                         *)
(***************************************************************************)
EXTENDS LimbProofs

----------------------------------------------------------------------------
(* The order of two numbers: mpz_cmp, mpz_cmp_si and the comparisons.      *)

LEMMA OneLimbOrMore ==
  ASSUME NEW d \in Seq(Limb), Trimmed(d), d # <<>>
  PROVE  /\ Len(d) \in Nat \ {0} /\ d[1] \in Limb /\ d[1] \in Nat
         /\ Len(d) = 1 => NatOf(d) = d[1] /\ d[1] # 0
         /\ Len(d) > 1 => NatOf(d) >= B
  <1>1. Len(d) \in Nat \ {0} /\ (d[Len(d)] # 0 <=> NatOf(d) >= Pow(B, Len(d) - 1)) /\ Len(d) - 1 \in Nat
    BY TopLimb
  <1>2. d[1] \in Limb /\ d[1] \in Nat
    <2>1. d[1] \in Limb
      BY <1>1
    <2> QED
      BY <2>1, LimbIs
  <1>3. ASSUME Len(d) = 1 PROVE NatOf(d) = d[1] /\ d[1] # 0
    <2>1. d = <<d[1]>>
      BY <1>3
    <2>2. NatOf(<<d[1]>>) = d[1]
      BY <1>2, NatOfShort
    <2> QED
      BY <1>3, <2>1, <2>2 DEF Trimmed
  <1>4. ASSUME Len(d) > 1 PROVE NatOf(d) >= B
    <2> DEFINE m == Len(d) - 1
    <2>1. m \in Nat /\ 1 <= m /\ 1 \in Nat
      BY <1>1, <1>4
    <2>2. NatOf(d) >= Pow(B, m)
      BY <1>1 DEF Trimmed
    <2> HIDE DEF m
    <2>3. B \in Nat \ {0} /\ B \in Int
      BY LimbsAre
    <2>4. Pow(B, 1) <= Pow(B, m) /\ Pow(B, 1) = B
      BY ONLY <2>1, <2>3, PowGrows, PowOne
    <2>5. Pow(B, m) \in Nat /\ NatOf(d) \in Nat
      BY <2>1, <2>3, PowPositive, NatOfIs
    <2> QED
      BY <2>2, <2>3, <2>4, <2>5
  <1> QED
    BY <1>1, <1>2, <1>3, <1>4

LEMMA MpzCompares ==
  ASSUME NEW a, NEW b, IsMpz(a), IsMpz(b)
  PROVE  Compares(mpz_cmp(a, b), IntOf(a), IntOf(b))
  <1>1. /\ a.d \in Seq(Limb) /\ Trimmed(a.d) /\ a.size \in Int /\ Len(a.d) \in Nat /\ NatOf(a.d) \in Nat
        /\ (a.size < 0 => IntOf(a) = -NatOf(a.d) /\ a.size = -Len(a.d))
        /\ (a.size >= 0 => IntOf(a) = NatOf(a.d) /\ a.size = Len(a.d))
        /\ (a.size < 0 <=> IntOf(a) < 0)
    BY PartsOf
  <1>2. /\ b.d \in Seq(Limb) /\ Trimmed(b.d) /\ b.size \in Int /\ Len(b.d) \in Nat /\ NatOf(b.d) \in Nat
        /\ (b.size < 0 => IntOf(b) = -NatOf(b.d) /\ b.size = -Len(b.d))
        /\ (b.size >= 0 => IntOf(b) = NatOf(b.d) /\ b.size = Len(b.d))
        /\ (b.size < 0 <=> IntOf(b) < 0)
    BY PartsOf
  <1>3. /\ Len(a.d) < Len(b.d) => NatOf(a.d) < NatOf(b.d)
        /\ Len(b.d) < Len(a.d) => NatOf(b.d) < NatOf(a.d)
    BY <1>1, <1>2, LongerIsGreater
  <1> DEFINE m == Len(a.d)
             n == Len(b.d)
             p == NatOf(a.d)
             q == NatOf(b.d)
             s == a.size
             t == b.size
             ia == IntOf(a)
             ib == IntOf(b)
  <1>4. CASE a.size # b.size
    <2>1. mpz_cmp(a, b) = IF s < t THEN -1 ELSE 1
      BY <1>4 DEF mpz_cmp
    <2>2. s # t
      BY <1>4
    <2> HIDE DEF m, n, p, q, s, t, ia, ib
    <2>3. /\ s \in Int /\ m \in Nat /\ p \in Nat /\ t \in Int /\ n \in Nat /\ q \in Nat
          /\ (s < 0 => ia = -p /\ s = -m) /\ (s >= 0 => ia = p /\ s = m) /\ (s < 0 <=> ia < 0)
          /\ (t < 0 => ib = -q /\ t = -n) /\ (t >= 0 => ib = q /\ t = n) /\ (t < 0 <=> ib < 0)
          /\ (m < n => p < q) /\ (n < m => q < p)
      BY <1>1, <1>2, <1>3 DEF m, n, p, q, s, t, ia, ib
    <2>4. (s < t => ia < ib) /\ (t < s => ib < ia) /\ ia \in Int /\ ib \in Int
      BY <2>3
    <2>5. Compares(mpz_cmp(a, b), ia, ib)
      BY <2>1, <2>2, <2>3, <2>4 DEF Compares
    <2> QED
      BY <2>5 DEF ia, ib
  <1>5. CASE a.size = b.size
    <2>1. Len(a.d) = Len(b.d)
      <3>1. /\ s \in Int /\ m \in Nat /\ t \in Int /\ n \in Nat /\ s = t
            /\ (s < 0 => s = -m) /\ (s >= 0 => s = m) /\ (t < 0 => t = -n) /\ (t >= 0 => t = n)
        BY <1>1, <1>2, <1>5
      <3> HIDE DEF m, n, p, q, s, t, ia, ib
      <3>2. m = n
        BY <3>1
      <3> QED
        BY <3>2 DEF m, n
    <2>2. Compares(mpn_cmp(a.d, b.d), NatOf(a.d), NatOf(b.d)) /\ Compares(mpn_cmp(b.d, a.d), NatOf(b.d), NatOf(a.d))
      BY <1>1, <1>2, <2>1, CmpCompares
    <2>3. mpz_cmp(a, b) = IF a.size >= 0 THEN mpn_cmp(a.d, b.d) ELSE mpn_cmp(b.d, a.d)
      BY <1>5 DEF mpz_cmp
    <2>4. CASE a.size >= 0
      BY <1>1, <1>2, <1>5, <2>2, <2>3, <2>4
    <2>5. CASE a.size < 0
      BY <1>1, <1>2, <1>5, <2>2, <2>3, <2>5 DEF Compares
    <2> QED
      BY <1>1, <2>4, <2>5
  <1> QED
    BY <1>4, <1>5

LEMMA MpzComparesLimb ==
  ASSUME NEW u, IsMpz(u), NEW v \in Limb
  PROVE  Compares(mpz_cmp_ui(u, v), IntOf(u), v)
  <1>1. /\ u.d \in Seq(Limb) /\ Trimmed(u.d) /\ u.size \in Int /\ Len(u.d) \in Nat /\ NatOf(u.d) \in Nat
        /\ (u.size < 0 => IntOf(u) = -NatOf(u.d) /\ u.size = -Len(u.d))
        /\ (u.size >= 0 => IntOf(u) = NatOf(u.d) /\ u.size = Len(u.d))
        /\ (u.size < 0 <=> IntOf(u) < 0) /\ (u.size = 0 <=> IntOf(u) = 0) /\ IntOf(u) \in Int
        /\ (u.size = 0 <=> u.d = <<>>)
    BY PartsOf
  <1>2. v \in Nat /\ v < B /\ B \in Nat
    BY LimbIs, LimbsAre
  <1>3. u.d # <<>> => /\ u.d[1] \in Nat
                      /\ (Len(u.d) = 1 => NatOf(u.d) = u.d[1]) /\ (Len(u.d) > 1 => NatOf(u.d) >= B)
    BY <1>1, OneLimbOrMore
  <1>4. CASE u.size > 1
    BY <1>1, <1>2, <1>3, <1>4 DEF mpz_cmp_ui, Compares
  <1>5. CASE u.size < 0
    BY <1>1, <1>2, <1>5 DEF mpz_cmp_ui, Compares
  <1>6. CASE u.size = 0
    BY <1>1, <1>2, <1>6 DEF mpz_cmp_ui, mpz_get_ui, Compares, Sgn, Bit
  <1>7. CASE u.size = 1
    <2>1. u.d # <<>> /\ Len(u.d) = 1 /\ IntOf(u) = u.d[1] /\ u.d[1] \in Nat
      BY <1>1, <1>3, <1>7
    <2>2. mpz_cmp_ui(u, v) = Sgn(u.d[1] - v)
      BY <1>7 DEF mpz_cmp_ui, mpz_get_ui
    <2> QED
      BY <1>2, <2>1, <2>2 DEF Compares, Sgn, Bit
  <1> QED
    BY <1>1, <1>4, <1>5, <1>6, <1>7

LEMMA MpzComparesWord ==
  ASSUME NEW u, IsMpz(u), NEW v \in MachineInt
  PROVE  Compares(mpz_cmp_si(u, v), IntOf(u), v)
  <1>0. /\ HighBit \in Nat \ {0} /\ B = 2 * HighBit /\ B \in Nat \ {0} /\ Limb = 0 .. B - 1
        /\ \A k \in Int : Wrap(k) = k % B
    BY LimbsAre
  <1>1. /\ u.d \in Seq(Limb) /\ Trimmed(u.d) /\ u.size \in Int /\ Len(u.d) \in Nat /\ NatOf(u.d) \in Nat
        /\ (u.size < 0 => IntOf(u) = -NatOf(u.d) /\ u.size = -Len(u.d))
        /\ (u.size >= 0 => IntOf(u) = NatOf(u.d) /\ u.size = Len(u.d))
        /\ (u.size < 0 <=> IntOf(u) < 0) /\ IntOf(u) \in Int /\ (u.size = 0 <=> u.d = <<>>)
    BY PartsOf
  <1>2. v \in Int /\ v >= -HighBit /\ v < HighBit
    BY <1>0 DEF MachineInt
  <1>3. u.d # <<>> => /\ u.d[1] \in Nat /\ u.d[1] \in Limb
                      /\ (Len(u.d) = 1 => NatOf(u.d) = u.d[1]) /\ (Len(u.d) > 1 => NatOf(u.d) >= B)
    BY <1>1, OneLimbOrMore
  <1>4. CASE u.size < -1
    <2>1. u.d # <<>> /\ Len(u.d) > 1 /\ IntOf(u) = -NatOf(u.d)
      BY <1>1, <1>4
    <2>2. mpz_cmp_si(u, v) = -1
      BY <1>4 DEF mpz_cmp_si
    <2>3. NatOf(u.d) >= B
      BY <1>3, <2>1
    <2> DEFINE i == IntOf(u)
               w == NatOf(u.d)
    <2>4. i = -w /\ w >= B /\ w \in Nat
      BY <1>1, <2>1, <2>3
    <2> HIDE DEF i, w
    <2>5. i < v /\ i \in Int
      BY <1>0, <1>2, <2>4
    <2> QED
      BY <1>2, <2>2, <2>5 DEF Compares, i
  <1>5. CASE u.size >= -1 /\ v >= 0
    <2>1. v \in Limb
      BY <1>0, <1>2, <1>5
    <2>2. mpz_cmp_si(u, v) = mpz_cmp_ui(u, v)
      BY <1>1, <1>5 DEF mpz_cmp_si
    <2> QED
      BY <2>1, <2>2, MpzComparesLimb
  <1>6. CASE u.size >= 0 /\ v < 0
    BY <1>1, <1>2, <1>6 DEF mpz_cmp_si, Compares
  <1>7. CASE u.size = -1 /\ v < 0
    <2>1. u.d # <<>> /\ Len(u.d) = 1 /\ IntOf(u) = -u.d[1] /\ u.d[1] \in Nat
      <3>1. u.size < 0 /\ u.size # 0 /\ u.size = -1
        BY <1>7
      <3> DEFINE m == Len(u.d)
      <3>2. m \in Nat /\ -1 = -m
        BY <1>1, <3>1
      <3> HIDE DEF m
      <3>3. m = 1
        BY <3>2
      <3>4. u.d # <<>> /\ IntOf(u) = -NatOf(u.d) /\ Len(u.d) = 1
        BY <1>1, <3>1, <3>3 DEF m
      <3> QED
        BY <1>3, <3>4
    <2> DEFINE k == -v
    <2>2. mpz_cmp_si(u, v) = Sgn(Wrap(k) - u.d[1])
      BY <1>2, <1>7 DEF mpz_cmp_si
    <2>3. k \in Int /\ v = -k /\ k \in 0 .. B - 1
      BY <1>0, <1>2, <1>7
    <2> HIDE DEF k
    <2>4. Wrap(k) = k
      <3>1. k % B = k
        BY <1>0, <2>3, ModSmall
      <3> QED
        BY <1>0, <2>3, <3>1
    <2> QED
      BY <2>1, <2>2, <2>3, <2>4 DEF Compares, Sgn, Bit
  <1> QED
    BY <1>1, <1>2, <1>4, <1>5, <1>6, <1>7

\* The comparisons of idris_gmp.c see the order of the values.
LEMMA OrderSeen ==
  ASSUME IsValue(x), IsValue(y)
  PROVE  OrderRight
  <1> DEFINE p == Value(x)
             q == Value(y)
             c == Compare(x, y)
  <1>1. /\ p \in Int /\ IsMpz(getbig(x)) /\ IntOf(getbig(x)) = p
        /\ ~x.big => x.n = p
        /\ x.big => IsMpz(x.z) /\ IntOf(x.z) = p
    BY ValueIs
  <1>2. /\ q \in Int /\ IsMpz(getbig(y)) /\ IntOf(getbig(y)) = q
        /\ ~y.big => y.n = q /\ y.n \in Fixnum
    BY ValueIs
  <1>3. Compares(c, p, q)
    BY <1>1, <1>2, MpzCompares DEF Compare
  <1>4. x.big \in BOOLEAN /\ y.big \in BOOLEAN
    BY DEF IsValue
  <1>5. ASSUME ~y.big PROVE bigEqConst(x, y.n) = (p = q)
    <2>1. CASE x.big
      <3>1. y.n \in MachineInt
        BY <1>2, <1>5, FixnumIs
      <3>2. Compares(mpz_cmp_si(x.z, y.n), p, y.n)
        BY <1>1, <2>1, <3>1, MpzComparesWord
      <3>3. bigEqConst(x, y.n) = (mpz_cmp_si(x.z, y.n) = 0)
        BY <2>1 DEF bigEqConst
      <3>4. y.n = q
        BY <1>2, <1>5
      <3> QED
        BY <1>1, <1>2, <3>2, <3>3, <3>4 DEF Compares
    <2>2. CASE ~x.big
      BY <1>1, <1>2, <1>5, <2>2 DEF bigEqConst
    <2> QED
      BY <1>4, <2>1, <2>2
  <1>6. CASE BothFix(x, y)
    <2>1. x.n = p /\ y.n = q
      BY <1>1, <1>2, <1>6 DEF BothFix
    <2>2. /\ idris_bigEq(x, y) = (p = q) /\ idris_bigLt(x, y) = (p < q) /\ idris_bigLe(x, y) = (p <= q)
          /\ idris_bigGt(x, y) = (p > q) /\ idris_bigGe(x, y) = (p >= q)
      BY <1>6, <2>1 DEF idris_bigEq, idris_bigLt, idris_bigLe, idris_bigGt, idris_bigGe
    <2> QED
      BY <1>5, <2>2 DEF OrderRight
  <1>7. CASE ~BothFix(x, y)
    <2>1. /\ idris_bigEq(x, y) = (c = 0) /\ idris_bigLt(x, y) = (c < 0) /\ idris_bigLe(x, y) = (c <= 0)
          /\ idris_bigGt(x, y) = (c > 0) /\ idris_bigGe(x, y) = (c >= 0)
      BY <1>7 DEF idris_bigEq, idris_bigLt, idris_bigLe, idris_bigGt, idris_bigGe
    <2> HIDE DEF p, q, c
    <2>2. (c = 0) = (p = q) /\ (c < 0) = (p < q) /\ (c <= 0) = (p <= q) /\ (c > 0) = (p > q) /\ (c >= 0) = (p >= q)
      <3>1. p < q \/ p = q \/ p > q
        BY <1>1, <1>2
      <3>2. c \in {-1, 0, 1}
        BY <1>3, <3>1 DEF Compares
      <3> QED
        BY <1>1, <1>2, <1>3, <3>1, <3>2 DEF Compares
    <2>3. /\ idris_bigEq(x, y) = (p = q) /\ idris_bigLt(x, y) = (p < q) /\ idris_bigLe(x, y) = (p <= q)
          /\ idris_bigGt(x, y) = (p > q) /\ idris_bigGe(x, y) = (p >= q)
      BY <2>1, <2>2
    <2> QED
      BY <1>5, <2>3 DEF OrderRight, p, q
  <1> QED
    BY <1>6, <1>7

----------------------------------------------------------------------------
(* Shifts: mpn_lshift and mpz_mul_2exp, mpn_rshift and mpz_fdiv_q_2exp.    *)

\* Two powers whose product is the base: a limb is cut into k and r.
CutAt(b, p, q) == b \in Nat \ {0} /\ p \in Nat \ {0} /\ q \in Nat \ {0} /\ b = p * q

\* A limb shifted left, and what is shifted out of it.
ShiftsUp(b, p, q, a) ==
    /\ (a * p) % b \in 0 .. b - p
    /\ a \div q \in 0 .. p - 1
    /\ ((a * p) % b) + b * (a \div q) = a * p

LEMMA ShiftUp ==
  ASSUME NEW b, NEW p, NEW q, CutAt(b, p, q), NEW a \in 0 .. b - 1
  PROVE  ShiftsUp(b, p, q, a)
  <1> DEFINE k == a \div q
             r == a % q
  <1>1. b \in Nat \ {0} /\ p \in Nat \ {0} /\ q \in Nat \ {0} /\ b = p * q /\ a \in Nat
    BY DEF CutAt
  <1>2. k \in Int /\ r \in 0 .. q - 1 /\ a = q * k + r
    <2>1. q \in Nat \ {0} /\ a \in Int
      BY <1>1
    <2> QED
      BY ONLY <2>1, DivMod
  <1> HIDE DEF k, r
  <1>3. k \in 0 .. p - 1
    BY ONLY <1>1, <1>2, a \in 0 .. b - 1
  <1>4. a * p = b * k + r * p /\ r * p \in 0 .. b - p
    BY ONLY <1>1, <1>2
  <1>5. r * p \in 0 .. b - 1
    BY <1>1, <1>4
  <1>6. (b * k + r * p) % b = r * p
    BY ONLY <1>1, <1>2, <1>5, DivModUnique
  <1>7. (a * p) % b = r * p
    BY <1>4, <1>6
  <1>8. r * p \in Int /\ b * k \in Int
    BY <1>1, <1>2
  <1> QED
    BY <1>3, <1>4, <1>7, <1>8 DEF ShiftsUp, k

\* A limb shifted right, and what is shifted out of it, at the top of the next.
ShiftsDown(b, p, q, a) ==
    /\ a \div p \in 0 .. q - 1
    /\ a % p \in 0 .. p - 1
    /\ a = p * (a \div p) + (a % p)
    /\ (a * q) % b = q * (a % p)
    /\ (a * q) % b \in 0 .. b - q
    /\ p * ((a * q) % b) = b * (a % p)

LEMMA ShiftDown ==
  ASSUME NEW b, NEW p, NEW q, CutAt(b, p, q), NEW a \in 0 .. b - 1
  PROVE  ShiftsDown(b, p, q, a)
  <1> DEFINE k == a \div p
             r == a % p
  <1>1. b \in Nat \ {0} /\ p \in Nat \ {0} /\ q \in Nat \ {0} /\ b = p * q /\ a \in Nat
    BY DEF CutAt
  <1>2. k \in Int /\ r \in 0 .. p - 1 /\ a = p * k + r
    <2>1. p \in Nat \ {0} /\ a \in Int
      BY <1>1
    <2> QED
      BY ONLY <2>1, DivMod
  <1> HIDE DEF k, r
  <1>3. k \in 0 .. q - 1
    BY ONLY <1>1, <1>2, a \in 0 .. b - 1
  <1>4. a * q = b * k + q * r /\ q * r \in 0 .. b - q
    BY ONLY <1>1, <1>2
  <1>5. q * r \in 0 .. b - 1
    BY <1>1, <1>4
  <1>6. (b * k + q * r) % b = q * r
    BY ONLY <1>1, <1>2, <1>5, DivModUnique
  <1>7. (a * q) % b = q * r
    BY <1>4, <1>6
  <1>8. p * (q * r) = b * r
    BY ONLY <1>1, <1>2
  <1> QED
    BY <1>2, <1>3, <1>4, <1>7, <1>8 DEF ShiftsDown, k, r

LEMMA ShiftCut ==
  ASSUME NEW cnt \in Nat, cnt <= LimbBits
  PROVE  CutAt(B, Pow(2, cnt), Pow(2, LimbBits - cnt)) /\ Pow(2, cnt) \in Nat \ {0}
         /\ Pow(2, LimbBits - cnt) \in Nat \ {0}
  <1>1. LimbBits \in Nat /\ B = Pow(2, LimbBits) /\ B \in Nat \ {0}
    BY LimbsAre
  <1>2. LimbBits - cnt \in Nat /\ LimbBits = cnt + (LimbBits - cnt)
    BY <1>1
  <1> HIDE DEF LimbBits
  <1>3. Pow(2, cnt) \in Nat \ {0} /\ Pow(2, LimbBits - cnt) \in Nat \ {0}
    BY ONLY cnt \in Nat, <1>2, PowPositive
  <1>4. Pow(2, LimbBits) = Pow(2, cnt) * Pow(2, LimbBits - cnt)
    BY <1>2, PowSum
  <1> QED
    BY <1>1, <1>3, <1>4 DEF CutAt

LEMMA LeftShiftIs ==
  ASSUME NEW up \in Seq(Limb), up # <<>>, NEW cnt \in Nat, cnt < LimbBits
  PROVE  Sum(mpn_lshift(up, cnt), Len(up), NatOf(up) * Pow(2, cnt)) /\ mpn_lshift(up, cnt).cy \in Limb
  <1> DEFINE n == Len(up)
             p == Pow(2, cnt)
             q == Pow(2, LimbBits - cnt)
             t == mpn_lshift(up, cnt)
             c == [i \in 0 .. n |-> IF i = 0 THEN 0 ELSE up[i] \div q]
             u == [i \in 1 .. n |-> p * up[i]]
  <1>1. n \in Nat \ {0} /\ Ints(up, n) /\ Number(B, up, n) = NatOf(up) /\ NatOf(up) \in Nat
        /\ \A i \in 1 .. n : up[i] \in Limb
    BY NatOfIs, EmptySeq
  <1>2. CutAt(B, p, q) /\ p \in Nat \ {0} /\ q \in Nat \ {0}
    <2>1. cnt <= LimbBits
      <3>1. LimbBits \in Nat
        BY LimbsAre
      <3> HIDE DEF LimbBits
      <3> QED
        BY <3>1
    <2> QED
      BY <2>1, ShiftCut
  <1>3. /\ t.r = [i \in 1 .. n |-> Wrap(up[i] * p) + IF i = 1 THEN 0 ELSE up[i - 1] \div q]
        /\ t.cy = up[n] \div q
    BY DEF mpn_lshift
  <1>4. B \in Nat \ {0} /\ Limb = 0 .. B - 1 /\ p <= B /\ B \in Int
    <2>1. B = p * q /\ B \in Nat \ {0} /\ Limb = 0 .. B - 1
      BY <1>2, LimbsAre DEF CutAt
    <2> HIDE DEF p, q
    <2> QED
      BY <1>2, <2>1
  <1>5. ASSUME NEW i \in 1 .. n PROVE /\ Wrap(up[i] * p) \in 0 .. B - p /\ up[i] \div q \in 0 .. p - 1
                                      /\ Wrap(up[i] * p) + B * (up[i] \div q) = up[i] * p /\ up[i] \in Int
    <2> DEFINE a == up[i]
    <2>1. a \in 0 .. B - 1
      BY <1>1, <1>4
    <2> HIDE DEF a, p, q
    <2>2. ShiftsUp(B, p, q, a)
      BY <1>2, <2>1, ShiftUp
    <2>3. Wrap(a * p) = (a * p) % B
      BY <1>2, <2>1, LimbsAre
    <2> QED
      BY <2>1, <2>2, <2>3 DEF ShiftsUp, a
  <1> HIDE DEF p, q, t
  <1>6. ASSUME NEW i \in 0 .. n PROVE c[i] \in 0 .. p - 1 /\ c[i] \in Int
    BY <1>2, <1>5
  <1>7. ASSUME NEW i \in 1 .. n PROVE t.r[i] \in Limb /\ t.r[i] \in Int /\ t.r[i] + B * c[i] = u[i] + c[i - 1]
    <2>1. i - 1 \in 0 .. n /\ i \in 0 .. n /\ (i # 1 => i - 1 \in 1 .. n) /\ i # 0 /\ (i - 1 = 0 <=> i = 1)
      BY <1>1
    <2>2. t.r[i] = Wrap(up[i] * p) + c[i - 1]
      BY <1>3, <2>1
    <2>3. c[i] = up[i] \div q /\ u[i] = p * up[i]
      BY <2>1
    <2> DEFINE w == Wrap(up[i] * p)
               k == c[i]
               k0 == c[i - 1]
               a == up[i]
    <2>4. w \in 0 .. B - p /\ k \in 0 .. p - 1 /\ k0 \in 0 .. p - 1 /\ a \in Int /\ w + B * k = a * p
      BY <1>5, <1>6, <2>1, <2>3
    <2>5. t.r[i] = w + k0 /\ u[i] = p * a
      BY <2>2, <2>3
    <2> HIDE DEF w, k, k0, a, c, u
    <2>6. a * p = p * a
      BY <1>2, <2>4
    <2>7. w + k0 \in 0 .. B - 1 /\ w + k0 \in Int /\ (w + k0) + B * k = p * a + k0
      BY <1>2, <1>4, <2>4, <2>6
    <2> QED
      BY <1>4, <2>5, <2>7 DEF k, k0
  <1>8. t.r \in [1 .. n -> Limb] /\ Ints(t.r, n)
    <2>1. t.r = [i \in 1 .. n |-> t.r[i]]
      BY <1>3
    <2> QED
      BY <1>7, <2>1 DEF Ints
  <1>9. t.r \in Seq(Limb) /\ Len(t.r) = n
    BY <1>1, <1>8, FunctionIsSeq
  <1>10. Ints(u, n)
    <2>1. ASSUME NEW i \in 1 .. n PROVE u[i] \in Int
      BY <1>2, <1>5
    <2> QED
      BY <2>1 DEF Ints
  <1>11. Number(B, u, n) = p * NatOf(up)
    <2>1. Combined(u, n, p, up, 0, up)
      <3>1. ASSUME NEW i \in 1 .. n PROVE u[i] = p * up[i] + 0 * up[i]
        BY <1>2, <1>5
      <3> HIDE DEF u
      <3> QED
        BY <3>1 DEF Combined
    <2> HIDE DEF u, n
    <2>2. Number(B, u, n) = p * Number(B, up, n) + 0 * Number(B, up, n)
      BY <1>1, <1>2, <1>4, <2>1, NumberCombined
    <2> QED
      BY <1>1, <1>2, <2>2
  <1> DEFINE d == t.r
  <1>12. \A i \in 0 .. n : c[i] \in Int
    BY <1>6
  <1>13. \A i \in 1 .. n : d[i] + B * c[i] = u[i] + c[i - 1]
    BY <1>7
  <1>14. c[0] = 0 /\ c[n] = t.cy
    BY <1>1, <1>3
  <1>15. c[n] \in 0 .. p - 1
    BY <1>1, <1>6
  <1>16. Ints(d, n)
    BY <1>8
  <1> HIDE DEF c, u, d
  <1>17. Number(B, d, n) + Pow(B, n) * c[n] = Number(B, u, n) + c[0]
    <2>1. n \in Nat /\ B \in Int
      BY <1>1, <1>4
    <2> HIDE DEF n
    <2> QED
      BY ONLY <2>1, <1>10, <1>12, <1>13, <1>16, NumberCarried
  <1>18. NatOf(t.r) + Pow(B, n) * t.cy = NatOf(up) * p
    <2>1. Number(B, d, n) = NatOf(t.r)
      BY <1>9 DEF NatOf, d
    <2>2. p * NatOf(up) + 0 = NatOf(up) * p
      BY <1>1, <1>2
    <2> QED
      BY <1>11, <1>14, <1>17, <2>1, <2>2
  <1>19. t.cy \in Limb
    <2>1. t.cy \in 0 .. p - 1
      BY <1>14, <1>15
    <2> QED
      BY ONLY <2>1, <1>2, <1>4
  <1> QED
    BY <1>9, <1>18, <1>19 DEF Sum, t, p

\* The limbs of the quotient by a power of two; the rest was in the lowest limb.
LEMMA RightShiftIs ==
  ASSUME NEW up \in Seq(Limb), up # <<>>, NEW cnt \in Nat, cnt < LimbBits
  PROVE  LET r == mpn_rshift(up, cnt).r
         IN  /\ r \in Seq(Limb) /\ Len(r) = Len(up) /\ up[1] % Pow(2, cnt) \in 0 .. Pow(2, cnt) - 1
             /\ NatOf(up) = Pow(2, cnt) * NatOf(r) + (up[1] % Pow(2, cnt))
  <1> DEFINE n == Len(up)
             p == Pow(2, cnt)
             q == Pow(2, LimbBits - cnt)
             d == mpn_rshift(up, cnt).r
             c == [i \in 0 .. n |-> IF i = n THEN 0 ELSE up[i + 1] % p]
  <1>1. n \in Nat \ {0} /\ Ints(up, n) /\ Number(B, up, n) = NatOf(up) /\ NatOf(up) \in Nat
        /\ \A i \in 1 .. n : up[i] \in Limb
    BY NatOfIs, EmptySeq
  <1>2. CutAt(B, p, q) /\ p \in Nat \ {0} /\ q \in Nat \ {0}
    <2>1. cnt <= LimbBits
      <3>1. LimbBits \in Nat
        BY LimbsAre
      <3> HIDE DEF LimbBits
      <3> QED
        BY <3>1
    <2> QED
      BY <2>1, ShiftCut
  <1>3. d = [i \in 1 .. n |-> up[i] \div p + IF i = n THEN 0 ELSE Wrap(up[i + 1] * q)]
    BY DEF mpn_rshift
  <1>4. B \in Nat \ {0} /\ Limb = 0 .. B - 1 /\ q <= B /\ B \in Int
    <2>1. B = p * q /\ B \in Nat \ {0} /\ Limb = 0 .. B - 1
      BY <1>2, LimbsAre DEF CutAt
    <2> HIDE DEF p, q
    <2> QED
      BY <1>2, <2>1
  <1>5. ASSUME NEW i \in 1 .. n PROVE /\ up[i] \div p \in 0 .. q - 1 /\ up[i] % p \in 0 .. p - 1
                                      /\ up[i] = p * (up[i] \div p) + (up[i] % p)
                                      /\ Wrap(up[i] * q) \in 0 .. B - q
                                      /\ p * Wrap(up[i] * q) = B * (up[i] % p) /\ up[i] \in Int
    <2> DEFINE a == up[i]
    <2>1. a \in 0 .. B - 1
      BY <1>1, <1>4
    <2> HIDE DEF a, p, q
    <2>2. ShiftsDown(B, p, q, a)
      BY <1>2, <2>1, ShiftDown
    <2>3. Wrap(a * q) = (a * q) % B
      BY <1>2, <2>1, LimbsAre
    <2> QED
      BY <2>1, <2>2, <2>3 DEF ShiftsDown, a
  <1> HIDE DEF p, q, d
  <1>6. ASSUME NEW i \in 0 .. n PROVE c[i] \in 0 .. p - 1 /\ c[i] \in Int
    <2>1. i # n => i + 1 \in 1 .. n
      BY <1>1
    <2> QED
      BY <1>2, <1>5, <2>1
  <1>7. ASSUME NEW i \in 1 .. n PROVE d[i] \in Limb /\ d[i] \in Int /\ p * d[i] + c[i - 1] = B * c[i] + up[i]
    <2>1. i - 1 \in 0 .. n /\ i \in 0 .. n /\ i - 1 # n /\ (i - 1) + 1 = i /\ (i # n => i + 1 \in 1 .. n)
      BY <1>1
    <2> DEFINE w == IF i = n THEN 0 ELSE Wrap(up[i + 1] * q)
               h == up[i] \div p
               r0 == c[i - 1]
               r1 == c[i]
               a == up[i]
    <2>2. d[i] = h + w
      BY <1>3
    <2>3. h \in 0 .. q - 1 /\ r0 \in 0 .. p - 1 /\ r0 = a % p /\ a = p * h + r0 /\ a \in Int
      BY <1>5, <1>6, <2>1
    <2>4. w \in 0 .. B - q /\ p * w = B * r1 /\ r1 \in Int
      <3>1. CASE i = n
        <4>1. w = 0
          BY <3>1
        <4>2. r1 = 0
          <5>1. i \in 0 .. n
            BY <2>1
          <5> QED
            BY ONLY <3>1, <5>1
        <4> HIDE DEF w, r1
        <4>3. 0 \in 0 .. B - q /\ p * 0 = B * 0
          BY ONLY <1>2, <1>4
        <4> QED
          BY <4>1, <4>2, <4>3
      <3>2. CASE i # n
        <4>1. w = Wrap(up[i + 1] * q) /\ r1 = up[i + 1] % p
          BY <2>1, <3>2
        <4> QED
          BY <1>5, <1>6, <2>1, <3>2, <4>1
      <3> QED
        BY <3>1, <3>2
    <2> HIDE DEF w, h, r0, r1, a
    <2>5. h + w \in 0 .. B - 1 /\ h + w \in Int
      BY <1>2, <1>4, <2>3, <2>4
    <2>6. p * (h + w) + r0 = B * r1 + a
      <3>1. p * (h + w) = p * h + p * w /\ p * h \in Int /\ p * w \in Int
        BY <1>2, <2>3, <2>4, <1>4
      <3>2. B * r1 \in Int /\ r0 \in Int
        BY <1>2, <1>4, <2>3, <2>4
      <3>3. a = p * h + r0 /\ a \in Int /\ p * w = B * r1
        BY <2>3, <2>4
      <3> DEFINE m0 == p * h
                 m1 == p * w
                 m2 == B * r1
      <3>4. /\ p * (h + w) = m0 + m1 /\ m0 \in Int /\ m1 \in Int /\ m2 \in Int /\ r0 \in Int
            /\ a = m0 + r0 /\ a \in Int /\ m1 = m2
        BY <3>1, <3>2, <3>3
      <3> HIDE DEF m0, m1, m2
      <3>5. p * (h + w) + r0 = m2 + a
        BY ONLY <3>4
      <3> QED
        BY <3>5 DEF m2
    <2> QED
      BY <1>4, <2>2, <2>5, <2>6 DEF r0, r1, a
  <1>8. d \in [1 .. n -> Limb] /\ Ints(d, n)
    <2>1. d = [i \in 1 .. n |-> d[i]]
      BY <1>3
    <2> QED
      BY <1>7, <2>1 DEF Ints
  <1>9. d \in Seq(Limb) /\ Len(d) = n
    BY <1>1, <1>8, FunctionIsSeq
  <1>10. \A i \in 0 .. n : c[i] \in Int
    BY <1>6
  <1>11. \A i \in 1 .. n : p * d[i] + c[i - 1] = B * c[i] + up[i]
    BY <1>7
  <1>12. c[n] = 0 /\ c[0] = up[1] % p /\ up[1] % p \in 0 .. p - 1
    <2>1. 0 # n /\ 0 \in 0 .. n /\ 0 + 1 = 1 /\ n \in 0 .. n /\ 1 \in 1 .. n
      BY <1>1
    <2> QED
      BY <1>5, <2>1
  <1> HIDE DEF c
  <1>13. p * Number(B, d, n) + c[0] = Pow(B, n) * c[n] + Number(B, up, n)
    <2>1. n \in Nat /\ B \in Int /\ p \in Int /\ Ints(up, n) /\ Ints(d, n)
      BY <1>1, <1>2, <1>4, <1>8
    <2> HIDE DEF n
    <2> QED
      BY ONLY <2>1, <1>10, <1>11, NumberCarriedDown
  <1>14. NatOf(up) = p * NatOf(d) + (up[1] % p)
    <2>1. Number(B, d, n) = NatOf(d) /\ NatOf(d) \in Nat
      BY <1>9, NatOfIs
    <2>2. Pow(B, n) \in Int
      BY <1>1, <1>4, PowRec
    <2>3. Pow(B, n) * 0 + NatOf(up) = NatOf(up)
      BY <1>1, <2>2
    <2> QED
      BY <1>1, <1>12, <1>13, <2>1, <2>3
  <1> QED
    BY <1>9, <1>12, <1>14 DEF d, p

\* A shift by n is one by whole limbs and one by less than a limb.
LEMMA ShiftParts ==
  ASSUME NEW n \in Nat
  PROVE  /\ n \div LimbBits \in Nat /\ n % LimbBits \in Nat /\ n % LimbBits < LimbBits
         /\ Pow(2, n) = Pow(B, n \div LimbBits) * Pow(2, n % LimbBits)
         /\ Pow(2, n) \in Nat \ {0} /\ Pow(B, n \div LimbBits) \in Nat \ {0}
         /\ Pow(2, n % LimbBits) \in Nat \ {0}
  <1>1. LimbBits \in Nat \ {0} /\ B = Pow(2, LimbBits) /\ B \in Nat \ {0}
    BY LimbsAre
  <1> HIDE DEF LimbBits, B
  <1> DEFINE q == n \div LimbBits
             r == n % LimbBits
  <1>2. q \in Int /\ r \in 0 .. LimbBits - 1 /\ n = LimbBits * q + r
    <2>1. LimbBits \in Nat \ {0} /\ n \in Int
      BY <1>1
    <2> QED
      BY ONLY <2>1, DivMod
  <1> HIDE DEF q, r
  <1>3. q \in Nat /\ r \in Nat /\ r < LimbBits /\ LimbBits * q \in Nat
    BY <1>1, <1>2
  <1>4. Pow(2, LimbBits * q + r) = Pow(2, LimbBits * q) * Pow(2, r)
    BY <1>3, PowSum
  <1>5. Pow(2, LimbBits * q) = Pow(B, q)
    BY <1>1, <1>3, PowProduct
  <1>6. Pow(2, n) \in Nat \ {0} /\ Pow(B, q) \in Nat \ {0} /\ Pow(2, r) \in Nat \ {0}
    <2>1. 2 \in Nat \ {0}
      OBVIOUS
    <2> QED
      BY ONLY <1>1, <1>3, <2>1, n \in Nat, PowPositive
  <1> QED
    BY <1>2, <1>3, <1>4, <1>5, <1>6 DEF q, r

LEMMA ZerosAre ==
  ASSUME NEW k \in Nat
  PROVE  Zeros(k) \in Seq(Limb) /\ Len(Zeros(k)) = k /\ NatOf(Zeros(k)) = 0
  <1>1. Zeros(k) \in [1 .. k -> Limb]
    BY LimbsAre DEF Zeros
  <1>2. Zeros(k) \in Seq(Limb) /\ Len(Zeros(k)) = k
    BY <1>1, FunctionIsSeq
  <1>3. \A i \in 1 .. k : Zeros(k)[i] = 0
    BY DEF Zeros
  <1>4. Number(B, Zeros(k), k) = 0
    BY <1>3, NoLimbs
  <1> QED
    BY <1>2, <1>4 DEF NatOf

LEMMA TrimmedBehind ==
  ASSUME NEW d \in Seq(Limb), NEW e \in Seq(Limb), Trimmed(e), e # <<>>
  PROVE  Trimmed(d \o e)
  <1>1. Len(e) \in Nat \ {0} /\ Len(d) \in Nat /\ Len(d \o e) = Len(d) + Len(e)
    BY EmptySeq, NatOfConcat
  <1>2. (d \o e)[Len(d) + Len(e)] = e[Len(e)]
    BY <1>1, ConcatProperties
  <1> QED
    BY <1>1, <1>2 DEF Trimmed

\* A number times a power of two below the base.
LEMMA ShiftedUp ==
  ASSUME NEW d \in Seq(Limb), Trimmed(d), d # <<>>, NEW cnt \in Nat, cnt < LimbBits
  PROVE  LET s  == mpn_lshift(d, cnt)
             up == IF cnt = 0 THEN d ELSE IF s.cy = 0 THEN s.r ELSE Append(s.r, s.cy)
         IN  up \in Seq(Limb) /\ Trimmed(up) /\ up # <<>> /\ NatOf(up) = NatOf(d) * Pow(2, cnt)
  <1> DEFINE s == mpn_lshift(d, cnt)
             up == IF cnt = 0 THEN d ELSE IF s.cy = 0 THEN s.r ELSE Append(s.r, s.cy)
             n == Len(d)
             p == Pow(2, cnt)
             v == NatOf(d) * p
  <1>1. NatOf(d) \in Nat \ {0} /\ NatOf(d) >= Pow(B, n - 1) /\ n - 1 \in Nat /\ n \in Nat
    BY TrimmedHas
  <1>2. p \in Nat \ {0}
    <2>1. 2 \in Nat \ {0}
      OBVIOUS
    <2> QED
      BY ONLY <2>1, cnt \in Nat, PowPositive
  <1>3. Pow(B, n - 1) \in Int
    BY <1>1, LimbsAre, PowRec
  <1>4. v \in Nat \ {0} /\ v >= Pow(B, n - 1)
    <2> DEFINE a == NatOf(d)
               b == Pow(B, n - 1)
    <2>1. a \in Nat \ {0} /\ a >= b /\ b \in Int
      BY <1>1, <1>3
    <2> HIDE DEF a, b, p
    <2>2. a * p \in Nat \ {0} /\ a * p >= b
      BY ONLY <1>2, <2>1
    <2> QED
      BY <2>2 DEF a, b
  <1>5. CASE cnt = 0
    <2>1. p = 1
      BY <1>5, PowRec
    <2> QED
      BY <1>1, <1>5, <2>1
  <1>6. CASE cnt # 0
    <2>1. Sum(s, n, v) /\ s.cy \in Limb
      BY LeftShiftIs
    <2> HIDE DEF s, v, n
    <2>2. Is(Summed(s), v)
      BY <1>1, <1>4, <2>1, WithCarry
    <2>3. s.cy > 0 <=> s.cy # 0
      BY <2>1, LimbIs
    <2>4. Summed(s) = Mpz(FALSE, up)
      BY <1>6, <2>3 DEF Summed
    <2> HIDE DEF up
    <2>5. IsMpz(Mpz(FALSE, up)) /\ IntOf(Mpz(FALSE, up)) = v /\ Mpz(FALSE, up).d = up
      BY <2>2, <2>4 DEF Is, Mpz
    <2> DEFINE z == Mpz(FALSE, up)
    <2>6. z.size = Len(up)
      BY DEF Mpz
    <2>7. up \in Seq(Limb) /\ Trimmed(up) /\ NatOf(up) \in Nat
          /\ (z.size < 0 => IntOf(z) = -NatOf(up)) /\ (z.size >= 0 => IntOf(z) = NatOf(up))
      <3> HIDE DEF z
      <3> QED
        BY <2>5, PartsOf DEF z
    <2>8. Len(up) \in Nat
      BY <2>7
    <2>9. NatOf(up) = v
      <3>1. IntOf(z) = v
        BY <2>5
      <3> HIDE DEF z
      <3>2. z.size >= 0
        BY ONLY <2>6, <2>8
      <3> QED
        BY <2>7, <3>1, <3>2
    <2>10. up # <<>>
      BY <1>4, <2>9, NatOfShort
    <2> QED
      BY <2>7, <2>9, <2>10 DEF up, v, s
  <1> QED
    BY <1>5, <1>6

LEMMA MpzShiftLeftIs ==
  ASSUME NEW u, IsMpz(u), NEW n \in Nat
  PROVE  Is(mpz_mul_2exp(u, n), IntOf(u) * Pow(2, n))
  <1> DEFINE k == n \div LimbBits
             r == n % LimbBits
             s == mpn_lshift(u.d, r)
             up == IF r = 0 THEN u.d ELSE IF s.cy = 0 THEN s.r ELSE Append(s.r, s.cy)
             w == Zeros(k) \o up
             neg == u.size < 0
  <1>1. mpz_mul_2exp(u, n) = IF u.size = 0 THEN mpz_init ELSE Mpz(neg, w)
    BY DEF mpz_mul_2exp
  <1>2. /\ u.d \in Seq(Limb) /\ Trimmed(u.d) /\ NatOf(u.d) \in Nat /\ u.size \in Int
        /\ u.size < 0 => IntOf(u) = -NatOf(u.d)
        /\ u.size >= 0 => IntOf(u) = NatOf(u.d)
        /\ u.size = 0 <=> u.d = <<>>
        /\ u.size = 0 <=> IntOf(u) = 0
    BY PartsOf
  <1>3. /\ k \in Nat /\ r \in Nat /\ r < LimbBits /\ Pow(2, n) = Pow(B, k) * Pow(2, r)
        /\ Pow(2, n) \in Nat \ {0} /\ Pow(B, k) \in Nat \ {0} /\ Pow(2, r) \in Nat \ {0}
    BY ShiftParts
  <1>4. CASE u.size = 0
    <2>1. IntOf(u) * Pow(2, n) = 0
      BY <1>2, <1>3, <1>4
    <2> QED
      BY <1>1, <1>4, <2>1, ZeroIsNumber DEF Is
  <1>5. CASE u.size # 0
    <2> HIDE DEF k, r
    <2>1. up \in Seq(Limb) /\ Trimmed(up) /\ up # <<>> /\ NatOf(up) = NatOf(u.d) * Pow(2, r)
      BY <1>2, <1>3, <1>5, ShiftedUp
    <2> HIDE DEF up
    <2>2. Zeros(k) \in Seq(Limb) /\ Len(Zeros(k)) = k /\ NatOf(Zeros(k)) = 0
      BY <1>3, ZerosAre
    <2>3. w \in Seq(Limb) /\ NatOf(w) = 0 + Pow(B, k) * NatOf(up)
      BY <2>1, <2>2, NatOfConcat
    <2>4. Trimmed(w)
      BY <2>1, <2>2, TrimmedBehind
    <2> HIDE DEF w
    <2>5. Is(Mpz(FALSE, w), NatOf(w)) /\ Is(Mpz(TRUE, w), -NatOf(w))
      BY <2>3, <2>4, NaturalIs
    <2>6. NatOf(w) = NatOf(u.d) * Pow(2, n)
      <3> DEFINE a == NatOf(u.d)
                 b == Pow(B, k)
                 c == Pow(2, r)
      <3>1. a \in Nat /\ b \in Nat /\ c \in Nat /\ NatOf(w) = 0 + b * (a * c) /\ Pow(2, n) = b * c
        BY <1>2, <1>3, <2>1, <2>3
      <3> HIDE DEF a, b, c
      <3>2. 0 + b * (a * c) = a * (b * c)
        BY ONLY <3>1
      <3> QED
        BY <3>1, <3>2 DEF a
    <2>7. u.size < 0 => -NatOf(w) = IntOf(u) * Pow(2, n)
      <3> DEFINE a == NatOf(u.d)
                 c == Pow(2, n)
      <3>1. a \in Nat /\ c \in Nat /\ NatOf(w) = a * c
        BY <1>2, <1>3, <2>6
      <3> HIDE DEF a, c
      <3>2. -(a * c) = (-a) * c
        BY ONLY <3>1
      <3> QED
        BY <1>2, <3>1, <3>2 DEF a, c
    <2>8. u.size >= 0 => NatOf(w) = IntOf(u) * Pow(2, n)
      BY <1>2, <2>6
    <2>9. CASE u.size < 0
      BY <1>1, <1>5, <2>5, <2>7, <2>9
    <2>10. CASE u.size >= 0
      <3>1. neg = FALSE
        BY <1>2, <2>10
      <3> QED
        BY <1>1, <1>5, <2>5, <2>8, <2>10, <3>1
    <2> QED
      BY <1>2, <2>9, <2>10
  <1> QED
    BY <1>4, <1>5

LEMMA ShiftLeftIs ==
  ASSUME NEW a, IsValue(a), NEW n \in Nat
  PROVE  Exactly(idris_bigShiftLeft(a, n), Value(a) * Pow(2, n))
  <1>1. Value(a) \in Int /\ (~a.big => a.n = Value(a)) /\ (a.big => IsMpz(a.z) /\ IntOf(a.z) = Value(a))
    BY ValueIs
  <1>2. Pow(2, n) \in Nat \ {0}
    BY PowPositive
  <1>3. Value(a) * Pow(2, n) \in Int
    BY <1>1, <1>2
  <1>4. Exactly(Fix(Value(a) * Pow(2, n)), Value(a) * Pow(2, n))
    BY <1>3, FixExactly
  <1>5. a.big => Is(mpz_mul_2exp(a.z, n), Value(a) * Pow(2, n))
    BY <1>1, MpzShiftLeftIs
  <1>6. a.big => Exactly(Big(mpz_mul_2exp(a.z, n)), Value(a) * Pow(2, n))
    BY <1>5, BigNumber, BigExactly
  <1> QED
    BY <1>1, <1>4, <1>6 DEF idris_bigShiftLeft

\* Rounding down, of a number and of its negative.
LEMMA RoundedDown ==
  ASSUME NEW e \in Nat \ {0}, NEW q \in Nat, NEW r \in 0 .. e - 1
  PROVE  /\ (e * q + r) \div e = q
         /\ (-(e * q + r)) \div e = IF r = 0 THEN -q ELSE -(q + 1)
  <1>1. (e * q + r) \div e = q
    BY DivModUnique
  <1>2. CASE r = 0
    <2>1. -(e * q + r) = e * (-q) + 0 /\ -q \in Int /\ 0 \in 0 .. e - 1
      BY <1>2
    <2> DEFINE k == -q
    <2>2. k \in Int
      BY <2>1
    <2> HIDE DEF k
    <2>3. (e * k + 0) \div e = k
      BY <2>1, <2>2, DivModUnique
    <2>4. (e * (-q) + 0) \div e = -q
      BY <2>3 DEF k
    <2> QED
      BY <1>1, <1>2, <2>1, <2>4
  <1>3. CASE r # 0
    <2> DEFINE k == -(q + 1)
               s == e - r
    <2>1. k \in Int /\ s \in 0 .. e - 1 /\ -(e * q + r) = e * k + s
      BY <1>3
    <2> HIDE DEF k, s
    <2>2. (e * k + s) \div e = k
      BY <2>1, DivModUnique
    <2>3. (-(e * q + r)) \div e = k
      BY <2>1, <2>2
    <2> QED
      BY <1>1, <1>3, <2>3 DEF k
  <1> QED
    BY <1>2, <1>3

LEMMA AddLimbIs ==
  ASSUME NEW d \in Seq(Limb), Trimmed(d), NEW b \in Limb
  PROVE  Is(mpz_add_ui(Mpz(FALSE, d), b), NatOf(d) + b)
  <1> DEFINE a == Mpz(FALSE, d)
             n == Len(d)
             s == mpn_add_1(d, b)
  <1>1. IsMpz(a) /\ a.d = d /\ a.size = n /\ n \in Nat /\ NatOf(d) \in Nat
    BY NumberOf, NatOfIs
  <1>2. b \in Nat
    BY LimbIs
  <1> HIDE DEF a
  <1>3. mpz_add_ui(a, b) = mpz_abs_add_ui(a, b)
    BY <1>1 DEF mpz_add_ui
  <1>4. mpz_abs_add_ui(a, b) = IF n = 0 THEN mpz_set_ui(b) ELSE Summed(s)
    BY <1>1 DEF mpz_abs_add_ui, Summed
  <1>5. CASE n = 0
    <2>1. NatOf(d) = 0
      <3>1. d = <<>>
        BY <1>5, EmptySeq
      <3> QED
        BY <3>1, NatOfShort
    <2>2. Is(mpz_set_ui(b), b) /\ 0 + b = b
      BY <1>2, SetUnsigned DEF Is
    <2> QED
      BY <1>3, <1>4, <1>5, <2>1, <2>2 DEF a
  <1>6. CASE n # 0
    <2>1. Sum(s, n, NatOf(d) + b) /\ s.cy \in Limb
      BY AddOneSum
    <2>2. d # <<>>
      BY <1>6
    <2>3. NatOf(d) >= Pow(B, n - 1) /\ n - 1 \in Nat
      BY <2>2, TrimmedHas
    <2>4. Pow(B, n - 1) \in Int
      BY <2>3, LimbsAre, PowRec
    <2> DEFINE v == NatOf(d) + b
    <2>5. v \in Nat /\ v >= Pow(B, n - 1)
      BY <1>1, <1>2, <2>3, <2>4
    <2> HIDE DEF v, s, n
    <2>6. Is(Summed(s), v)
      BY <1>1, <2>1, <2>5, WithCarry DEF v
    <2> QED
      BY <1>3, <1>4, <1>6, <2>6 DEF v, a
  <1> QED
    BY <1>5, <1>6

\* A number is zero when all its limbs are, and not otherwise.
LEMMA ZeroNumber ==
  ASSUME NEW d \in Seq(Limb)
  PROVE  NatOf(d) # 0 <=> \E i \in 1 .. Len(d) : d[i] # 0
  <1> DEFINE n == Len(d)
  <1>1. n \in Nat /\ (\A i \in 1 .. n : d[i] \in Limb) /\ NatOf(d) = Number(B, d, n)
    BY NatOfIs
  <1>2. B \in Nat \ {0} /\ Limb = 0 .. B - 1
    BY LimbsAre
  <1> HIDE DEF n
  <1>3. (\A i \in 1 .. n : d[i] = 0) => NatOf(d) = 0
    BY <1>1, NoLimbs
  <1>4. ASSUME NatOf(d) = 0, NEW i \in 1 .. n PROVE d[i] = 0
    <2>1. IsDigits(B, d, n)
      BY <1>1, <1>2 DEF IsDigits
    <2>2. (Number(B, d, n) \div Pow(B, i - 1)) % B = d[i]
      BY <1>1, <1>2, <2>1, NumberDigit
    <2>3. i - 1 \in Nat
      BY <1>1
    <2> DEFINE m == Pow(B, i - 1)
    <2>4. m \in Nat \ {0}
      BY <1>2, <2>3, PowPositive
    <2> HIDE DEF m
    <2>5. 0 \div m = 0
      BY <2>4, ModSmall
    <2>6. 0 % B = 0
      BY <1>2, ModSmall
    <2> QED
      BY <1>1, <1>4, <2>2, <2>5, <2>6 DEF m
  <1> QED
    BY <1>3, <1>4 DEF n

\* What a shift to the right leaves and what it drops, for k limbs and r bits.
QuotientLimbs(d, k, r) ==
    LET high == Slice(d, k, Len(d) - k)
        s == mpn_rshift(high, r).r
    IN  IF r = 0 THEN high ELSE SubSeq(s, 1, (Len(d) - k) - Bit(s[Len(d) - k] = 0))
Dropped(d, k, r) == NatOf(SubSeq(d, 1, k)) + Pow(B, k) * (d[k + 1] % Pow(2, r))

\* The quotient and the remainder of a quotient.
LEMMA TwoQuotients ==
  ASSUME NEW b \in Nat \ {0}, NEW p \in Nat \ {0}, NEW q \in Nat, NEW m \in 0 .. p - 1, NEW l \in 0 .. b - 1
  PROVE  /\ l + b * (p * q + m) = (b * p) * q + (l + b * m)
         /\ l + b * m \in 0 .. b * p - 1
         /\ l + b * m # 0 <=> l # 0 \/ m # 0
  <1>1. l + b * (p * q + m) = (b * p) * q + (l + b * m)
    OBVIOUS
  <1>2. b * m <= b * (p - 1) /\ b * m \in Nat /\ b * (p - 1) = b * p - b /\ b * p \in Nat
    OBVIOUS
  <1>3. b * m = 0 <=> m = 0
    OBVIOUS
  <1> QED
    BY <1>1, <1>2, <1>3

LEMMA QuotientOfPower ==
  ASSUME NEW d \in Seq(Limb), Trimmed(d), NEW k \in Nat, k < Len(d), NEW r \in Nat, r < LimbBits
  PROVE  LET q == QuotientLimbs(d, k, r)
             e == Pow(B, k) * Pow(2, r)
             m == Dropped(d, k, r)
         IN  /\ q \in Seq(Limb) /\ Trimmed(q)
             /\ m \in 0 .. e - 1 /\ NatOf(d) = e * NatOf(q) + m
             /\ m # 0 <=> (\E i \in 1 .. k : d[i] # 0) \/ d[k + 1] % Pow(2, r) # 0
  <1>a. Len(d) \in Nat
    BY NatOfIs
  <1>b. k \in 0 .. Len(d) /\ Len(d) # 0 /\ k + 1 \in 1 .. Len(d)
    BY <1>a
  <1>c. B \in Nat \ {0}
    BY LimbsAre
  <1> DEFINE n == Len(d)
             c == n - k
             high == Slice(d, k, c)
             lo == SubSeq(d, 1, k)
             s == mpn_rshift(high, r).r
             q == QuotientLimbs(d, k, r)
             b == Pow(B, k)
             p == Pow(2, r)
             h1 == d[k + 1] % p
  <1>1. n \in Nat /\ c \in Nat \ {0} /\ k \in 0 .. n /\ k + c = n /\ B \in Nat \ {0} /\ LimbBits \in Nat
    BY NatOfIs, LimbsAre
  <1>2. b \in Nat \ {0} /\ p \in Nat \ {0}
    <2>1. 2 \in Nat \ {0}
      OBVIOUS
    <2>3. Pow(B, k) \in Nat \ {0}
      BY ONLY <1>c, k \in Nat, PowPositive
    <2>4. Pow(2, r) \in Nat \ {0}
      BY ONLY <2>1, r \in Nat, PowPositive
    <2> QED
      BY <2>3, <2>4
  <1>3. high = SubSeq(d, k + 1, n)
    <2> HIDE DEF n, c
    <2>1. Slice(d, k, c) = SubSeq(d, k + 1, k + c)
      BY DEF Slice
    <2> QED
      BY <1>1, <2>1
  <1>4. /\ lo \in Seq(Limb) /\ Len(lo) = k /\ high \in Seq(Limb) /\ Len(high) = c
        /\ (\A i \in 1 .. k : lo[i] = d[i]) /\ (\A i \in 1 .. c : high[i] = d[k + i])
        /\ NatOf(d) = NatOf(lo) + b * NatOf(high)
    <2>2. /\ lo \in Seq(Limb) /\ Len(lo) = k
          /\ \A i \in 1 .. k : lo[i] = d[i]
          /\ SubSeq(d, k + 1, n) \in Seq(Limb) /\ Len(SubSeq(d, k + 1, n)) = c
          /\ \A i \in 1 .. c : SubSeq(d, k + 1, n)[i] = d[k + i]
          /\ NatOf(d) = NatOf(lo) + b * NatOf(SubSeq(d, k + 1, n))
      BY ONLY <1>b, d \in Seq(Limb), NatOfPieces
    <2> HIDE DEF high, n, c, b, lo
    <2> QED
      BY ONLY <1>3, <2>2
  <1>5. NatOf(lo) \in 0 .. b - 1 /\ NatOf(high) \in Nat
    <2>1. NatOf(lo) \in Nat /\ NatOf(lo) < Pow(B, Len(lo)) /\ NatOf(high) \in Nat
      BY <1>4, NatOfIs
    <2> HIDE DEF lo, high
    <2> QED
      BY <1>2, <1>4, <2>1
  <1>6. NatOf(lo) # 0 <=> \E i \in 1 .. k : d[i] # 0
    <2>1. NatOf(lo) # 0 <=> \E i \in 1 .. Len(lo) : lo[i] # 0
      BY <1>4, ZeroNumber
    <2> QED
      BY <1>4, <2>1
  <1>7. high[1] = d[k + 1] /\ high[c] = d[n] /\ high # <<>> /\ d # <<>>
    <2> HIDE DEF high, n, c
    <2>2. 1 \in 1 .. c /\ c \in 1 .. c
      BY ONLY <1>1
    <2>3. high[1] = d[k + 1] /\ high[c] = d[k + c]
      BY ONLY <1>4, <2>2
    <2>4. high # <<>>
      BY <1>1, <1>4
    <2> QED
      BY <1>1, <1>b, <2>3, <2>4
  <1>8. d[n] # 0
    BY <1>7 DEF Trimmed
  <1>9. Trimmed(high)
    BY <1>4, <1>7, <1>8 DEF Trimmed
  <1>10. d[k + 1] \in Limb /\ d[k + 1] \in Int
    <2>2. \A i \in 1 .. Len(d) : d[i] \in Limb /\ d[i] \in Int
      BY NatOfIs
    <2> QED
      BY ONLY <1>b, <2>2
  <1> HIDE DEF high, lo, n, c
  <1>11. q = IF r = 0 THEN high ELSE SubSeq(s, 1, c - Bit(s[c] = 0))
    BY DEF QuotientLimbs, high, c, n
  <1>12. q \in Seq(Limb) /\ Trimmed(q) /\ h1 \in 0 .. p - 1 /\ NatOf(high) = p * NatOf(q) + h1
    <2>1. CASE r = 0
      <3>1. p = 1
        BY <2>1, PowRec
      <3>2. h1 = 0
        <4>1. d[k + 1] % 1 = 0
          BY <1>10
        <4> QED
          BY <3>1, <4>1
      <3>3. q = high
        BY <1>11, <2>1
      <3> HIDE DEF p, h1, q
      <3> QED
        BY <1>4, <1>5, <1>9, <3>1, <3>2, <3>3
    <2>2. CASE r # 0
      <3>1. /\ s \in Seq(Limb) /\ Len(s) = c /\ h1 \in 0 .. p - 1
            /\ NatOf(high) = p * NatOf(s) + h1
        BY <1>4, <1>7, RightShiftIs
      <3> HIDE DEF s
      <3>2. q = WithoutZero(s)
        BY <1>11, <2>2, <3>1 DEF WithoutZero
      <3>3. s # <<>> /\ NatOf(s) \in Nat
        BY <1>1, <3>1, NatOfIs
      <3>4. Len(s) = 1 \/ NatOf(s) >= Pow(B, Len(s) - 2)
        <4>1. SUFFICES ASSUME c # 1 PROVE NatOf(s) >= Pow(B, c - 2)
          BY <3>1
        <4>2. NatOf(high) >= Pow(B, c - 1)
          BY <1>4, <1>7, <1>9, TrimmedHas
        <4>3. c - 2 \in Nat /\ c - 1 = (c - 2) + 1
          BY <1>1, <4>1
        <4> DEFINE w == Pow(B, c - 2)
                   x0 == NatOf(s)
                   y0 == NatOf(high)
                   z == d[k + 1] % p
        <4>4. w \in Nat /\ Pow(B, c - 1) = B * w
          <5>1. w \in Nat \ {0}
            BY <1>1, <4>3, PowPositive
          <5>2. Pow(B, (c - 2) + 1) = B * w
            BY <1>1, <4>3, PowRec
          <5> QED
            BY <4>3, <5>1, <5>2
        <4>5. p <= B
          <5>1. CutAt(B, p, Pow(2, LimbBits - r)) /\ Pow(2, LimbBits - r) \in Nat \ {0}
            <6>1. r <= LimbBits
              <7> HIDE DEF LimbBits
              <7> QED
                BY <1>1
            <6> QED
              BY <6>1, ShiftCut
          <5> DEFINE o == Pow(2, LimbBits - r)
          <5>2. B = p * o /\ o \in Nat \ {0}
            BY <5>1 DEF CutAt
          <5> HIDE DEF o, p
          <5> QED
            BY <1>1, <1>2, <5>2
        <4>6. y0 = p * x0 + z /\ z \in 0 .. p - 1 /\ y0 >= B * w /\ x0 \in Nat /\ y0 \in Nat
          BY <1>5, <3>1, <3>3, <4>2, <4>4
        <4> HIDE DEF w, x0, y0, p, z
        <4>7. x0 >= w
          <5>1. SUFFICES ASSUME x0 < w PROVE FALSE
            BY <4>4, <4>6
          <5>2. x0 + 1 <= w
            BY <4>4, <4>6, <5>1
          <5>3. p * (x0 + 1) <= B * w
            BY ONLY <1>1, <1>2, <4>4, <4>5, <4>6, <5>2
          <5>4. p * (x0 + 1) = p * x0 + p /\ p * x0 \in Nat
            BY ONLY <1>2, <4>6
          <5>5. B * w \in Int
            BY <1>1, <4>4
          <5> QED
            BY ONLY <1>2, <4>6, <5>3, <5>4, <5>5
        <4> QED
          BY <4>7 DEF w, x0
      <3>5. WithoutZero(s) \in Seq(Limb) /\ NatOf(WithoutZero(s)) = NatOf(s) /\ Trimmed(WithoutZero(s))
        BY <3>1, <3>3, <3>4, WithoutZeroKeeps
      <3> QED
        BY <3>1, <3>2, <3>5
    <2> QED
      BY <2>1, <2>2
  <1> DEFINE l == NatOf(lo)
             t == NatOf(q)
  <1>13. Dropped(d, k, r) = l + b * h1
    BY DEF Dropped, lo
  <1>14. t \in Nat /\ l \in 0 .. b - 1
    BY <1>5, <1>12, NatOfIs
  <1>15. NatOf(d) = l + b * (p * t + h1)
    BY <1>4, <1>12
  <1>16. l # 0 <=> \E i \in 1 .. k : d[i] # 0
    BY <1>6
  <1> DEFINE h == h1
  <1>17. h \in 0 .. p - 1 /\ Dropped(d, k, r) = l + b * h /\ NatOf(d) = l + b * (p * t + h)
    BY <1>12, <1>13, <1>15
  <1> HIDE DEF l, t, h, b, p
  <1>18. /\ l + b * (p * t + h) = (b * p) * t + (l + b * h)
         /\ l + b * h \in 0 .. b * p - 1
         /\ l + b * h # 0 <=> l # 0 \/ h # 0
    BY <1>2, <1>14, <1>17, TwoQuotients
  <1>19. NatOf(d) = (b * p) * t + (l + b * h)
    BY <1>17, <1>18
  <1> HIDE DEF q
  <1>20. /\ q \in Seq(Limb) /\ Trimmed(q)
         /\ Dropped(d, k, r) \in 0 .. b * p - 1 /\ NatOf(d) = (b * p) * t + Dropped(d, k, r)
         /\ Dropped(d, k, r) # 0 <=> (\E i \in 1 .. k : d[i] # 0) \/ h # 0
    BY <1>12, <1>16, <1>17, <1>18, <1>19
  <1> QED
    BY <1>20 DEF b, p, t, h, q

\* The bits that fall out decide whether the quotient is rounded: q is rounded
\* down, m is what is left.
RoundsTo(u, n, q, m, lost) ==
    /\ q \in Seq(Limb) /\ Trimmed(q) /\ m \in 0 .. Pow(2, n) - 1
    /\ NatOf(u.d) = Pow(2, n) * NatOf(q) + m
    /\ lost <=> m # 0
Lost(u, n) ==
    LET k == n \div LimbBits
    IN  \/ Len(u.d) - k <= 0
        \/ \E i \in 1 .. k : u.d[i] # 0
        \/ u.d[k + 1] % Pow(2, n % LimbBits) # 0
Kept(u, n) ==
    LET k == n \div LimbBits
    IN  IF Len(u.d) - k <= 0 THEN <<>> ELSE QuotientLimbs(u.d, k, n % LimbBits)

LEMMA ShiftedDown ==
  ASSUME NEW u, IsMpz(u), u.size # 0, NEW n \in Nat
  PROVE  \E m : RoundsTo(u, n, Kept(u, n), m, Lost(u, n))
  <1> DEFINE k == n \div LimbBits
             r == n % LimbBits
             d == u.d
             e == Pow(2, n)
             q == Kept(u, n)
  <1>1. d \in Seq(Limb) /\ Trimmed(d) /\ d # <<>> /\ NatOf(d) \in Nat /\ NatOf(d) # 0
        /\ NatOf(d) < Pow(B, Len(d)) /\ Len(d) \in Nat
    BY PartsOf, NatOfIs
  <1>2. /\ k \in Nat /\ r \in Nat /\ r < LimbBits /\ e = Pow(B, k) * Pow(2, r)
        /\ e \in Nat \ {0} /\ Pow(B, k) \in Nat \ {0} /\ Pow(2, r) \in Nat \ {0}
    BY ShiftParts
  <1>3. q = IF Len(d) - k <= 0 THEN <<>> ELSE QuotientLimbs(d, k, r)
    BY DEF Kept
  <1>4. Lost(u, n) <=> \/ Len(d) - k <= 0
                       \/ \E i \in 1 .. k : d[i] # 0
                       \/ d[k + 1] % Pow(2, r) # 0
    BY DEF Lost
  <1> HIDE DEF k, r, d, e, q
  <1>5. CASE Len(d) - k <= 0
    <2>1. Len(d) <= k
      BY <1>1, <1>2, <1>5
    <2>2. Pow(B, Len(d)) <= Pow(B, k)
      <3>1. B \in Nat \ {0} /\ Len(d) \in Nat /\ k \in Nat
        BY <1>1, <1>2, LimbsAre
      <3> QED
        BY ONLY <2>1, <3>1, PowGrows
    <2> DEFINE a == Pow(B, k)
               b == Pow(2, r)
               c == Pow(B, Len(d))
               x0 == NatOf(d)
    <2>3. c \in Int
      <3>1. Len(d) \in Nat /\ B \in Int
        BY <1>1, LimbsAre
      <3> QED
        BY ONLY <3>1, PowRec
    <2>4. a \in Nat \ {0} /\ b \in Nat \ {0} /\ e = a * b /\ x0 \in Nat /\ x0 < c /\ c <= a
      BY <1>1, <1>2, <2>2
    <2> HIDE DEF a, b, c, x0
    <2>5. x0 \in 0 .. e - 1
      BY ONLY <2>3, <2>4
    <2>6. q = <<>> /\ Lost(u, n)
      BY <1>3, <1>4, <1>5
    <2>7. <<>> \in Seq(Limb) /\ Trimmed(<<>>) /\ NatOf(<<>>) = 0
      BY NatOfShort DEF Trimmed
    <2>8. x0 = e * 0 + x0
      BY ONLY <1>2, <2>4
    <2>9. RoundsTo(u, n, q, x0, Lost(u, n))
      BY <1>1, <2>5, <2>6, <2>7, <2>8 DEF RoundsTo, x0, e, d
    <2> QED
      BY <2>9 DEF q
  <1>6. CASE ~(Len(d) - k <= 0)
    <2>1. k < Len(d)
      BY <1>1, <1>2, <1>6
    <2> DEFINE m == Dropped(d, k, r)
    <2>2. /\ QuotientLimbs(d, k, r) \in Seq(Limb) /\ Trimmed(QuotientLimbs(d, k, r))
          /\ m \in 0 .. (Pow(B, k) * Pow(2, r)) - 1
          /\ NatOf(d) = (Pow(B, k) * Pow(2, r)) * NatOf(QuotientLimbs(d, k, r)) + m
          /\ m # 0 <=> (\E i \in 1 .. k : d[i] # 0) \/ d[k + 1] % Pow(2, r) # 0
      BY ONLY <1>1, <1>2, <2>1, QuotientOfPower
    <2>3. q = QuotientLimbs(d, k, r) /\ (Lost(u, n) <=> m # 0)
      BY <1>3, <1>4, <1>6, <2>2
    <2> HIDE DEF m
    <2>4. RoundsTo(u, n, q, m, Lost(u, n))
      BY <1>2, <2>2, <2>3 DEF RoundsTo, e, d
    <2> QED
      BY <2>4 DEF q
  <1> QED
    BY <1>5, <1>6

LEMMA MpzShiftRightIs ==
  ASSUME NEW u, IsMpz(u), NEW n \in Nat
  PROVE  Is(mpz_fdiv_q_2exp(u, n), IntOf(u) \div Pow(2, n))
  <1> DEFINE e == Pow(2, n)
             q == Kept(u, n)
             adjust == ~(u.size > 0) /\ Lost(u, n)
             z == IF adjust THEN mpz_add_ui(Mpz(FALSE, q), 1) ELSE Mpz(FALSE, q)
  <1>1. mpz_fdiv_q_2exp(u, n) =
          IF u.size = 0 THEN mpz_init ELSE IF u.size < 0 THEN mpz_neg(z) ELSE z
    BY DEF mpz_fdiv_q_2exp, mpz_div_q_2exp, Kept, QuotientLimbs, Lost
  <1>2. /\ NatOf(u.d) \in Nat /\ u.size \in Int
        /\ u.size < 0 => IntOf(u) = -NatOf(u.d)
        /\ u.size >= 0 => IntOf(u) = NatOf(u.d)
        /\ u.size = 0 <=> IntOf(u) = 0
    BY PartsOf
  <1>3. e \in Nat \ {0}
    <2>1. 2 \in Nat \ {0}
      OBVIOUS
    <2> QED
      BY ONLY <2>1, n \in Nat, PowPositive
  <1>4. CASE u.size = 0
    <2>1. 0 \div e = 0
      BY <1>3, ModSmall
    <2> QED
      BY <1>1, <1>2, <1>4, <2>1, ZeroIsNumber DEF Is
  <1>5. CASE u.size # 0
    <2>1. PICK m : RoundsTo(u, n, q, m, Lost(u, n))
      BY <1>5, ShiftedDown
    <2> DEFINE x0 == NatOf(u.d)
               t == NatOf(q)
    <2>2. /\ q \in Seq(Limb) /\ Trimmed(q) /\ m \in 0 .. e - 1
          /\ x0 = e * t + m /\ (Lost(u, n) <=> m # 0)
      BY <2>1 DEF RoundsTo
    <2>3. t \in Nat
      BY <2>2, NatOfIs
    <2>4. /\ (e * t + m) \div e = t
          /\ (-(e * t + m)) \div e = IF m = 0 THEN -t ELSE -(t + 1)
      <3> HIDE DEF e, t
      <3> QED
        BY <1>3, <2>2, <2>3, RoundedDown
    <2>5. Is(Mpz(FALSE, q), t)
      BY <2>2, NaturalIs
    <2>6. Is(mpz_add_ui(Mpz(FALSE, q), 1), t + 1)
      BY <2>2, AddLimbIs, LimbsAre
    <2>7. CASE u.size > 0
      <3>1. z = Mpz(FALSE, q)
        BY <2>7
      <3>2. u.size >= 0 /\ u.size # 0 /\ ~(u.size < 0) /\ IntOf(u) = x0
        BY ONLY <1>2, <2>7
      <3> HIDE DEF z
      <3>3. mpz_fdiv_q_2exp(u, n) = Mpz(FALSE, q)
        BY ONLY <1>1, <3>1, <3>2
      <3> HIDE DEF q
      <3> QED
        BY <2>2, <2>4, <2>5, <3>2, <3>3
    <2>8. CASE u.size < 0
      <3>1. ~(u.size > 0) /\ IntOf(u) = -x0
        BY <1>2, <2>8
      <3> DEFINE v == IF m = 0 THEN t ELSE t + 1
      <3>2. Is(z, v) /\ v \in Nat
        <4>1. CASE m = 0
          BY <2>2, <2>3, <2>5, <4>1
        <4>2. CASE m # 0
          <5>1. adjust
            BY <2>2, <3>1, <4>2
          <5>2. z = mpz_add_ui(Mpz(FALSE, q), 1)
            BY <5>1
          <5>3. v = t + 1
            BY <4>2
          <5>4. v \in Nat
            BY <2>3, <5>3
          <5> DEFINE w == t + 1
          <5>5. Is(mpz_add_ui(Mpz(FALSE, q), 1), w) /\ v = w
            BY <2>6, <5>3
          <5> HIDE DEF z, v, w, q
          <5> QED
            BY <5>2, <5>4, <5>5
        <4> QED
          BY <4>1, <4>2
      <3>3. z = [size |-> z.size, d |-> z.d]
        <4>1. mpz_add_ui(Mpz(FALSE, q), 1) = mpz_abs_add_ui(Mpz(FALSE, q), 1)
          <5>1. Mpz(FALSE, q).size >= 0
            <6>1. Len(q) \in Nat
              BY <2>2, NatOfIs
            <6> HIDE DEF q
            <6> QED
              BY <6>1 DEF Mpz
          <5> QED
            BY <5>1 DEF mpz_add_ui
        <4> DEFINE y0 == mpz_abs_add_ui(Mpz(FALSE, q), 1)
        <4>2. y0 = [size |-> y0.size, d |-> y0.d]
          BY MpzIsRecord DEF mpz_abs_add_ui, mpz_set_ui, mpz_init
        <4> HIDE DEF y0
        <4>3. Mpz(FALSE, q) = [size |-> Mpz(FALSE, q).size, d |-> Mpz(FALSE, q).d]
          BY MpzIsRecord
        <4> QED
          BY <4>1, <4>2, <4>3 DEF y0
      <3> HIDE DEF z, v
      <3>4. Is(mpz_neg(z), -v)
        BY <3>2, <3>3, NegIs
      <3>5. mpz_fdiv_q_2exp(u, n) = mpz_neg(z)
        BY <1>1, <1>5, <2>8
      <3>6. IntOf(u) \div e = -v
        BY <2>2, <2>4, <3>1 DEF v
      <3> QED
        BY <3>4, <3>5, <3>6
    <2> QED
      BY <1>2, <1>5, <2>7, <2>8
  <1> QED
    BY <1>4, <1>5

LEMMA ShiftRightIs ==
  ASSUME NEW a, IsValue(a), NEW n \in Nat
  PROVE  Exactly(idris_bigShiftRight(a, n), Value(a) \div Pow(2, n))
  <1>1. Value(a) \in Int /\ (~a.big => a.n = Value(a)) /\ (a.big => IsMpz(a.z) /\ IntOf(a.z) = Value(a))
    BY ValueIs
  <1>2. Pow(2, n) \in Nat \ {0}
    <2>1. 2 \in Nat \ {0}
      OBVIOUS
    <2> QED
      BY ONLY <2>1, n \in Nat, PowPositive
  <1>3. Value(a) \div Pow(2, n) \in Int
    BY <1>1, <1>2, DivMod
  <1>4. Exactly(Fix(Value(a) \div Pow(2, n)), Value(a) \div Pow(2, n))
    BY <1>3, FixExactly
  <1>5. a.big => Is(mpz_fdiv_q_2exp(a.z, n), Value(a) \div Pow(2, n))
    BY <1>1, MpzShiftRightIs
  <1>6. a.big => Exactly(Big(mpz_fdiv_q_2exp(a.z, n)), Value(a) \div Pow(2, n))
    BY <1>5, BigNumber, BigExactly
  <1> QED
    BY <1>1, <1>4, <1>6 DEF idris_bigShiftRight

----------------------------------------------------------------------------
(* Big integers from numbers: mpz_set_d.                                   *)

\* The first power of B above x.
LEMMA LimbsNeeded ==
  ASSUME NEW x0 \in Nat \ {0}, NEW m \in Nat, x0 < Pow(B, m)
  PROVE  \E n \in 1 .. m : x0 \div Pow(B, n - 1) \in 1 .. B - 1
  <1>1. B \in Nat \ {0} /\ B \in Int
    BY LimbsAre
  <1> DEFINE S == {k \in Nat : x0 < Pow(B, k)}
  <1>2. S \in SUBSET Nat /\ S # {}
    OBVIOUS
  <1>3. PICK n \in S : \A k \in S : n <= k
    <2> HIDE DEF S
    <2> QED
      BY <1>2, LeastNumber
  <1>4. n \in Nat /\ x0 < Pow(B, n) /\ n <= m
    BY <1>3
  <1>5. n # 0
    <2>1. Pow(B, 0) = 1
      BY <1>1, PowRec
    <2> QED
      BY <1>4, <2>1
  <1>6. n - 1 \in Nat /\ ~(x0 < Pow(B, n - 1)) /\ n = (n - 1) + 1
    <2>1. n - 1 \in Nat /\ ~(n <= n - 1) /\ n = (n - 1) + 1
      BY <1>4, <1>5
    <2> QED
      BY <1>3, <2>1
  <1> DEFINE k == n - 1
             t == Pow(B, k)
  <1>7. t \in Nat \ {0} /\ Pow(B, n) = B * t
    <2>1. k \in Nat /\ n = k + 1
      BY <1>6
    <2> HIDE DEF k
    <2>2. Pow(B, k) \in Nat \ {0}
      BY ONLY <1>1, <2>1, PowPositive
    <2>3. Pow(B, k + 1) = B * Pow(B, k)
      BY ONLY <1>1, <2>1, PowRec
    <2> QED
      BY <2>1, <2>2, <2>3
  <1> DEFINE q == x0 \div t
  <1>8. q \in Int /\ x0 % t \in 0 .. t - 1 /\ x0 = t * q + (x0 % t)
    <2> HIDE DEF t
    <2> QED
      BY <1>7, DivMod
  <1>9. x0 < B * t /\ ~(x0 < t)
    BY <1>4, <1>6, <1>7
  <1> DEFINE r == x0 % t
  <1> HIDE DEF t, q, r
  <1>10. q \in 1 .. B - 1
    <2>1. r \in 0 .. t - 1 /\ x0 = t * q + r /\ q \in Int
      BY <1>8 DEF q, r
    <2>2. q >= 1
      <3>1. CASE q <= 0
        <4>1. t * q <= 0
          BY <1>7, <2>1, <3>1
        <4> QED
          BY <1>7, <1>9, <2>1, <4>1
      <3> QED
        BY <2>1, <3>1
    <2>3. q <= B - 1
      <3>1. CASE q >= B
        <4>1. t * q >= t * B
          BY <1>1, <1>7, <2>1, <3>1
        <4>2. t * B = B * t /\ t * q \in Int
          BY <1>1, <1>7, <2>1
        <4> QED
          BY <1>1, <1>7, <1>9, <2>1, <4>1, <4>2
      <3> QED
        BY <1>1, <2>1, <3>1
    <2> QED
      BY <1>1, <2>1, <2>2, <2>3
  <1>11. n \in 1 .. m
    BY <1>4, <1>5
  <1> QED
    BY <1>10, <1>11 DEF q, t, k

\* A number taken apart from the top: c[i] is what is left for the digits up to i.
TakenApart(b, d, c, n) ==
    /\ c[0] = 0
    /\ \A i \in 0 .. n : c[i] \in Int
    /\ \A i \in 1 .. n : d[i] \in Int /\ c[i] = c[i - 1] + d[i] * Pow(b, i - 1)

LEMMA PutTogether ==
  ASSUME NEW b \in Int, NEW n \in Nat, NEW d, NEW c, TakenApart(b, d, c, n)
  PROVE  Number(b, d, n) = c[n]
  <1>1. /\ Number(b, d, 0) = 0
        /\ \A i \in 1 .. n : Number(b, d, i) = Number(b, d, i - 1) + d[i] * Pow(b, i - 1)
    BY NumberRec DEF TakenApart
  <1> DEFINE S == {k \in Nat : k <= n => Number(b, d, k) = c[k]}
  <1>2. 0 \in S
    BY <1>1 DEF TakenApart
  <1>3. ASSUME NEW k \in Nat, k \in S PROVE k + 1 \in S
    <2>1. SUFFICES ASSUME k + 1 <= n PROVE Number(b, d, k + 1) = c[k + 1]
      OBVIOUS
    <2>2. k + 1 \in 1 .. n /\ (k + 1) - 1 = k /\ k <= n
      BY <2>1
    <2>3. Number(b, d, k + 1) = Number(b, d, k) + d[k + 1] * Pow(b, k)
      BY <1>1, <2>2
    <2>4. c[k + 1] = c[k] + d[k + 1] * Pow(b, k)
      BY <2>2 DEF TakenApart
    <2>5. Number(b, d, k) = c[k]
      BY <1>3, <2>2
    <2> QED
      BY <2>3, <2>4, <2>5
  <1> HIDE DEF S
  <1>4. n \in S
    BY <1>2, <1>3, Induction
  <1> QED
    BY <1>4 DEF S

LEMMA SetDoubleIs ==
  ASSUME NEW n \in Int, Abs(n) < Pow(B, MaxLimbs)
  PROVE  Is(mpz_set_d(2 * n), n)
  <1> DEFINE x0 == Abs(2 * n) \div 2
             Enough(k) == x0 \div Pow(B, k - 1) \in 1 .. B - 1
             rn == CHOOSE k \in 1 .. MaxLimbs : Enough(k)
             step == [i \in 1 .. rn |-> [rest \in Nat |->
                        <<rest \div Pow(B, i - 1), rest % Pow(B, i - 1)>>]]
             t == ChainDown(step, rn, x0)
  <1>1. mpz_set_d(2 * n) = IF x0 < 1 THEN mpz_init ELSE Mpz(2 * n < 0, t.r)
    BY DEF mpz_set_d
  <1>2. x0 = Abs(n) /\ x0 \in Nat /\ (2 * n < 0 <=> n < 0) /\ (n < 0 => n = -x0) /\ (n >= 0 => n = x0)
    BY DEF Abs
  <1>3. MaxLimbs \in Nat /\ B \in Nat \ {0} /\ B \in Int /\ Limb = 0 .. B - 1
    BY SizesAssumption, LimbsAre
  <1>4. CASE x0 < 1
    <2>1. x0 = 0 /\ n = 0
      BY <1>2, <1>4
    <2>2. mpz_set_d(2 * n) = mpz_init
      <3> HIDE DEF x0, t
      <3> QED
        BY <1>1, <1>4
    <2> HIDE DEF x0, t
    <2> QED
      BY <2>1, <2>2, ZeroIsNumber DEF Is
  <1>5. CASE ~(x0 < 1)
    <2>1. x0 \in Nat \ {0} /\ x0 < Pow(B, MaxLimbs)
      BY <1>2, <1>5
    <2> HIDE DEF x0
    <2>2. \E k \in 1 .. MaxLimbs : Enough(k)
      BY <1>3, <2>1, LimbsNeeded
    <2>3. rn \in 1 .. MaxLimbs /\ Enough(rn)
      <3> HIDE DEF Enough
      <3> QED
        BY <2>2
    <2> HIDE DEF rn
    <2>4. rn \in Nat /\ rn - 1 \in Nat /\ rn \in 1 .. rn /\ 0 \in 0 .. rn /\ rn \in 0 .. rn /\ 1 \in 1 .. rn
      BY <1>3, <2>3
    <2>5. ASSUME NEW i \in 1 .. rn
          PROVE  /\ i - 1 \in Nat /\ i \in Nat /\ Pow(B, i - 1) \in Nat \ {0} /\ Pow(B, i) = B * Pow(B, i - 1)
                 /\ i - 1 \in 0 .. rn /\ i \in 0 .. rn
      <3>1. i - 1 \in Nat /\ i \in Nat /\ i = (i - 1) + 1 /\ i - 1 \in 0 .. rn /\ i \in 0 .. rn
        BY <2>4
      <3> DEFINE k == i - 1
      <3>2. Pow(B, k) \in Nat \ {0}
        <4> HIDE DEF k
        <4> QED
          BY <1>3, <3>1, PowPositive DEF k
      <3>3. Pow(B, k + 1) = B * Pow(B, k)
        BY <1>3, <3>1, PowRec
      <3> QED
        BY <3>1, <3>2, <3>3
    <2>6a. ASSUME NEW i \in 1 .. rn, NEW c \in Nat
           PROVE  step[i][c] = <<c \div Pow(B, i - 1), c % Pow(B, i - 1)>>
                  /\ step[i][c] \in Nat \X Nat
      <3> DEFINE s == Pow(B, i - 1)
      <3>1. s \in Nat \ {0}
        BY <2>5
      <3>2. step[i][c] = <<c \div s, c % s>>
        OBVIOUS
      <3> HIDE DEF s
      <3>3. c \div s \in Nat /\ c % s \in Nat
        BY ONLY <3>1, c \in Nat
      <3> HIDE DEF step
      <3> QED
        BY <3>2, <3>3 DEF s
    <2> HIDE DEF t, step
    <2>6. StepsIn(step, rn, Nat, Nat)
      BY <2>6a DEF StepsIn
    <2>7. PICK c, e : ChainedDown(t, rn, Nat, Nat, x0, c, e) /\ FollowsDown(e, step, c, rn)
      <3>1. ChainDownIs(t, step, rn, Nat, Nat, x0)
        BY <1>2, <2>4, <2>6, ChainDownRuns DEF t
      <3> QED
        BY <3>1 DEF ChainDownIs
    <2>8. /\ t.r \in Seq(Nat) /\ Len(t.r) = rn
          /\ c \in [0 .. rn -> Nat] /\ c[rn] = x0
          /\ \A i \in 1 .. rn : t.r[i] = e[i][1] /\ c[i - 1] = e[i][2]
      BY <2>7 DEF ChainedDown
    <2>9. ASSUME NEW i \in 1 .. rn
          PROVE  /\ c[i] \in Nat /\ c[i - 1] \in Nat
                 /\ t.r[i] = c[i] \div Pow(B, i - 1) /\ c[i - 1] = c[i] % Pow(B, i - 1)
      <3>1. c[i] \in Nat /\ c[i - 1] \in Nat
        BY <2>5, <2>8
      <3>2. e[i] = step[i][c[i]]
        BY <2>7 DEF FollowsDown
      <3>3. e[i] = <<c[i] \div Pow(B, i - 1), c[i] % Pow(B, i - 1)>>
        BY <2>6a, <3>1, <3>2
      <3> QED
        BY <2>8, <3>1, <3>3
    <2> DEFINE d == t.r
    <2> HIDE DEF d
    <2>10. ASSUME NEW i \in 1 .. rn
           PROVE  /\ d[i] \in Int /\ c[i] = c[i - 1] + d[i] * Pow(B, i - 1)
                  /\ c[i - 1] < Pow(B, i - 1)
                  /\ c[i] < Pow(B, i) => d[i] \in Limb
      <3> DEFINE s == Pow(B, i - 1)
                 a == c[i]
                 q == a \div s
                 r == a % s
      <3>1. s \in Nat \ {0} /\ a \in Nat /\ d[i] = q /\ c[i - 1] = r /\ Pow(B, i) = B * s
        BY <2>5, <2>9 DEF d
      <3> HIDE DEF s, a
      <3>2. q \in Int /\ r \in 0 .. s - 1 /\ a = s * q + r
        <4>1. s \in Nat \ {0} /\ a \in Int
          BY <3>1
        <4> QED
          BY ONLY <4>1, DivMod
      <3> HIDE DEF q, r
      <3>3. a = r + q * s /\ r < s
        BY ONLY <3>1, <3>2
      <3>4. a < B * s => q \in 0 .. B - 1
        <4>1. ASSUME a < B * s PROVE q \in 0 .. B - 1
          <5>1. q >= 0
            <6>1. CASE q <= -1
              <7>1. s * q <= s * (-1)
                BY <3>1, <3>2, <6>1
              <7>2. s * q \in Int /\ s * (-1) = -s
                BY <3>1, <3>2
              <7> QED
                BY <3>1, <3>2, <7>1, <7>2
            <6> QED
              BY <3>2, <6>1
          <5>2. q <= B - 1
            <6>1. CASE q >= B
              <7>1. s * q >= s * B /\ s * B = B * s /\ s * q \in Int /\ B * s \in Int
                BY <1>3, <3>1, <3>2, <6>1
              <7> QED
                BY <3>1, <3>2, <4>1, <7>1
            <6> QED
              BY <1>3, <3>2, <6>1
          <5> QED
            BY <1>3, <3>2, <5>1, <5>2
        <4> QED
          BY <4>1
      <3>5. a < Pow(B, i) => q \in Limb
        BY <1>3, <3>1, <3>4
      <3>6. d[i] = q /\ c[i - 1] = r /\ c[i] = a /\ Pow(B, i - 1) = s
        BY <3>1 DEF a, s
      <3> QED
        BY <3>2, <3>3, <3>5, <3>6
    <2>11. \A i \in 0 .. rn : c[i] \in Int
      <3>1. \A i \in 0 .. rn : c[i] \in Nat
        BY <2>8
      <3> QED
        BY <3>1
    <2>12. c[0] = 0
      <3>1. c[1 - 1] < Pow(B, 1 - 1)
        BY <2>4, <2>10
      <3>2. Pow(B, 0) = 1
        BY <1>3, PowRec
      <3>3. c[0] \in Nat
        BY <2>4, <2>8
      <3>4. 1 - 1 = 0
        OBVIOUS
      <3>5. c[0] < 1
        BY <3>1, <3>2, <3>4
      <3> QED
        BY <3>3, <3>5
    <2>13. TakenApart(B, d, c, rn)
      BY <2>10, <2>11, <2>12 DEF TakenApart
    <2>14. Number(B, d, rn) = x0
      <3>1. Number(B, d, rn) = c[rn]
        BY ONLY <1>3, <2>4, <2>13, PutTogether
      <3> QED
        BY <2>8, <3>1
    <2>15. d[rn] \in 1 .. B - 1
      <3>1. d[rn] = x0 \div Pow(B, rn - 1)
        BY <2>4, <2>8, <2>9 DEF d
      <3> QED
        BY <2>3, <3>1
    <2>16. ASSUME NEW i \in 1 .. rn PROVE d[i] \in Limb
      <3>1. CASE i = rn
        BY <1>3, <2>15, <3>1
      <3>2. CASE i # rn
        <4> DEFINE j == i + 1
        <4>1. j \in 1 .. rn /\ j - 1 = i
          BY <2>4, <3>2
        <4> HIDE DEF j
        <4>2. c[i] < Pow(B, i)
          BY <2>10, <4>1
        <4> QED
          BY <2>10, <4>2
      <3> QED
        BY <3>1, <3>2
    <2>17. d \in Seq(Limb) /\ Len(d) = rn /\ NatOf(d) = x0 /\ Trimmed(d)
      <3>1. d \in Seq(Nat) /\ Len(d) = rn
        BY <2>8 DEF d
      <3>2. d \in Seq(Limb)
        BY <2>16, <3>1, FunctionIsSeq, SeqIsFunction
      <3> QED
        BY <2>14, <2>15, <3>1, <3>2 DEF NatOf, Trimmed
    <2>18. Is(Mpz(FALSE, d), x0) /\ Is(Mpz(TRUE, d), -x0)
      BY <2>17, NaturalIs
    <2>19. n < 0 \/ n >= 0
      OBVIOUS
    <2>20. mpz_set_d(2 * n) = Mpz(n < 0, d)
      BY <1>1, <1>2, <1>5 DEF d
    <2>21. CASE n < 0
      <3>1. (n < 0) = TRUE /\ n = -x0
        BY <1>2, <2>21
      <3>2. Mpz(n < 0, d) = Mpz(TRUE, d)
        BY <3>1
      <3> QED
        BY <2>18, <2>20, <3>1, <3>2
    <2>22. CASE n >= 0
      <3>1. (n < 0) = FALSE /\ n = x0
        BY <1>2, <2>22
      <3>2. Mpz(n < 0, d) = Mpz(FALSE, d)
        BY <3>1
      <3> QED
        BY <2>18, <2>20, <3>1, <3>2
    <2> QED
      BY <2>19, <2>21, <2>22
  <1> QED
    BY <1>4, <1>5

----------------------------------------------------------------------------
(* Words and integers, cast into each other.                               *)

LEMMA LowestLimb ==
  ASSUME NEW z, IsMpz(z)
  PROVE  /\ mpz_get_ui(z) \in Limb /\ Same(B, NatOf(z.d), mpz_get_ui(z))
         /\ IntOf(z) \in 0 .. B - 1 => mpz_get_ui(z) = IntOf(z)
  <1>1. /\ z.d \in Seq(Limb) /\ Len(z.d) \in Nat /\ NatOf(z.d) \in Nat
        /\ (z.size < 0 <=> IntOf(z) < 0) /\ (z.size < 0 \/ z.size >= 0)
        /\ (z.size >= 0 => IntOf(z) = NatOf(z.d))
        /\ (z.size = 0 <=> z.d = <<>>) /\ (NatOf(z.d) = 0 <=> z.d = <<>>)
    BY PartsOf
  <1>2. B \in Nat \ {0} /\ B \in Int /\ Limb = 0 .. B - 1
    BY LimbsAre
  <1>3. CASE z.size = 0
    <2>1. mpz_get_ui(z) = 0 /\ NatOf(z.d) = 0
      BY <1>1, <1>3 DEF mpz_get_ui
    <2>2. 0 \in Limb /\ Same(B, 0, 0)
      BY <1>2, SameCut DEF Same
    <2> QED
      BY <1>1, <1>3, <2>1, <2>2
  <1>4. CASE z.size # 0
    <2> DEFINE d == z.d
               n == Len(d)
    <2>1. mpz_get_ui(z) = d[1] /\ n \in Nat \ {0} /\ d \in Seq(Limb)
      <3>1. mpz_get_ui(z) = d[1] /\ d # <<>>
        BY <1>1, <1>4 DEF mpz_get_ui
      <3>2. Len(d) # 0
        BY <1>1, <3>1, EmptySeq
      <3> QED
        BY <1>1, <3>1, <3>2
    <2> HIDE DEF n
    <2>2. d[1] \in Limb /\ 1 \in 0 .. n /\ NatOf(d) = Number(B, d, n) /\ n \in Nat
      <3>1. 1 \in 1 .. n /\ n = Len(d)
        BY <2>1 DEF n
      <3> HIDE DEF d
      <3>2. d[1] \in Limb
        BY <2>1, <3>1, NatOfIs
      <3> QED
        BY <2>1, <3>1, <3>2 DEF NatOf
    <2> HIDE DEF d
    <2>3. IsDigits(B, d, n)
      <3>1. \A i \in 1 .. n : d[i] \in Limb
        BY <2>1, NatOfIs DEF n
      <3> QED
        BY <1>2, <3>1 DEF IsDigits
    <2>4. PICK m \in Nat : Number(B, d, n) = Number(B, d, 1) + Pow(B, 1) * m
      BY ONLY <1>2, <2>2, <2>3, NumberSplit
    <2>5. Number(B, d, 1) = d[1] /\ Pow(B, 1) = B
      <3>1. Number(B, d, 1) = d[1]
        <4>1. 1 \in Nat /\ \A i \in 1 .. 1 : d[i] \in Int
          BY <2>2, LimbIs
        <4>2. /\ Number(B, d, 0) = 0
              /\ \A i \in 1 .. 1 : Number(B, d, i) = Number(B, d, i - 1) + d[i] * Pow(B, i - 1)
          BY ONLY <1>2, <4>1, NumberRec
        <4>3. 1 \in 1 .. 1 /\ 1 - 1 = 0 /\ Pow(B, 0) = 1 /\ d[1] \in Int
          BY <1>2, <4>1, PowRec
        <4>4. Number(B, d, 1) = Number(B, d, 1 - 1) + d[1] * Pow(B, 1 - 1)
          BY <4>2, <4>3
        <4>5. Number(B, d, 1) = 0 + d[1] * 1
          BY <4>2, <4>3, <4>4
        <4> QED
          BY <4>3, <4>5
      <3> QED
        BY <1>2, <3>1, PowOne
    <2>6. NatOf(d) = d[1] + B * m
      BY <2>2, <2>4, <2>5
    <2>7. Same(B, NatOf(d), d[1])
      BY <2>6 DEF Same
    <2>8. NatOf(d) \in 0 .. B - 1 => NatOf(d) = d[1]
      <3> DEFINE l == d[1]
      <3>1. l \in 0 .. B - 1 /\ NatOf(d) = l + B * m
        BY <1>2, <2>2, <2>6
      <3> HIDE DEF l
      <3>2. CASE m = 0
        <4>1. NatOf(d) = l
          BY ONLY <1>2, <3>1, <3>2
        <4> QED
          BY <4>1 DEF l
      <3>3. CASE m >= 1
        <4>1. B * m >= B
          BY <1>2, <3>3
        <4>2. B * m \in Int
          BY <1>2
        <4>3. NatOf(d) >= B
          BY ONLY <1>2, <3>1, <4>1, <4>2
        <4>4. NatOf(d) \notin 0 .. B - 1
          BY ONLY <1>2, <4>3
        <4> QED
          BY <4>4
      <3> QED
        BY <3>2, <3>3
    <2>9. IntOf(z) \in 0 .. B - 1 => IntOf(z) = NatOf(d)
      <3>1. IntOf(z) \in 0 .. B - 1 => ~(IntOf(z) < 0)
        BY <1>2
      <3> QED
        BY <1>1, <3>1 DEF d
    <2> QED
      BY <2>1, <2>2, <2>7, <2>8, <2>9 DEF d
  <1> QED
    BY <1>3, <1>4

\* A word of any width is a limb, and signed it is a machine integer.
LEMMA WordsAreLimbs ==
  ASSUME W64 = LimbBits, NEW w \in Widths
  PROVE  /\ w \in Nat \ {0} /\ w <= LimbBits
         /\ \A n \in Word(w) : n \in Limb /\ n \in Nat /\ Sign(w, n) \in MachineInt
  <1>1. w \in Nat \ {0} /\ w <= LimbBits
    BY WidthsAssumption DEF Widths
  <1>2. B \in Nat \ {0} /\ Limb = 0 .. B - 1 /\ LimbBits \in Nat /\ B = Pow(2, LimbBits)
        /\ B = 2 * HighBit /\ HighBit \in Nat \ {0}
    BY LimbsAre
  <1>3. Pow(2, w) <= B /\ Pow(2, w) = 2 * Pow(2, w - 1) /\ Pow(2, w - 1) \in Nat \ {0} /\ Pow(2, w) \in Nat \ {0}
    <2> HIDE DEF LimbBits
    <2>1. 2 \in Nat \ {0} /\ w \in Nat /\ w > 0
      BY <1>1
    <2>2. Pow(2, w) <= Pow(2, LimbBits)
      BY ONLY <1>1, <1>2, <2>1, PowGrows
    <2>3. Pow(2, w) \in Nat \ {0} /\ Pow(2, w) = 2 * Pow(2, w - 1) /\ Pow(2, w - 1) \in Nat \ {0}
      BY <2>1, TwoPow
    <2> QED
      BY <1>2, <2>2, <2>3
  <1>4. ASSUME NEW n \in Word(w)
        PROVE  n \in Limb /\ n \in Nat /\ Sign(w, n) \in MachineInt
    <2> DEFINE t == Pow(2, w)
               u == Pow(2, w - 1)
               s == Sign(w, n)
    <2>1. n \in 0 .. t - 1 /\ s \in Int /\ s >= -u /\ s < u
      BY <1>1, SignIsSame DEF Word
    <2>2. t <= B /\ t = 2 * u /\ u \in Nat \ {0}
      BY <1>3
    <2> HIDE DEF t, u, s
    <2>3. n \in 0 .. B - 1 /\ n \in Nat
      BY <1>2, <2>1, <2>2
    <2>4. s \in -HighBit .. HighBit - 1
      BY <1>2, <2>1, <2>2
    <2> QED
      BY <1>2, <2>3, <2>4 DEF MachineInt, s
  <1> QED
    BY <1>1, <1>4

LEMMA WordsReturn ==
  ASSUME W64 = LimbBits, NEW w \in Widths, NEW n \in Word(w)
  PROVE  /\ Value(LZExt(w, n)) = n /\ LTrunc(w, LZExt(w, n)) = n
         /\ Value(LSExt(w, n)) = Sign(w, n)
  <1>1. n \in Limb /\ n \in Nat /\ Sign(w, n) \in MachineInt /\ w \in Nat /\ w <= LimbBits
    BY WordsAreLimbs
  <1>2. /\ B \in Nat \ {0} /\ Limb = 0 .. B - 1 /\ \A k \in Int : Wrap(k) = k % B
    BY LimbsAre
  <1>3. Wrap(n) = n
    <2>1. n \in 0 .. B - 1 /\ n \in Int
      BY <1>1, <1>2
    <2>2. n % B = n
      BY <1>2, <2>1, ModSmall
    <2> QED
      BY <1>2, <2>1, <2>2
  <1> DEFINE z == mpz_set_ui(n)
             v == LZExt(w, n)
  <1>4. IsMpz(z) /\ IntOf(z) = n
    BY <1>1, SetUnsigned
  <1>5. v = Big(z)
    BY <1>3 DEF LZExt, MKBIGUI
  <1> HIDE DEF z, v
  <1>6. v.big /\ v.z = z
    BY <1>5 DEF Big
  <1>7. Value(v) = n
    BY <1>4, <1>6 DEF Value
  <1>8. mpz_get_ui(z) = n
    BY <1>1, <1>2, <1>4, LowestLimb
  <1>9. LTrunc(w, v) = Cut(w, n)
    BY <1>6, <1>8 DEF LTrunc, idris_truncBigB64, bConst
  <1>10. Cut(w, n) = n
    BY <1>1, CutWord
  <1>11. Value(LSExt(w, n)) = Sign(w, n)
    <2> DEFINE s == Sign(w, n)
    <2>1. IntOf(mpz_set_si(s)) = s
      BY <1>1, SetSigned
    <2> HIDE DEF s
    <2>2. LSExt(w, n) = Big(mpz_set_si(s))
      BY DEF LSExt, MKBIGSI, s
    <2>3. Value(Big(mpz_set_si(s))) = IntOf(mpz_set_si(s))
      BY DEF Value, Big
    <2> QED
      BY <2>1, <2>2, <2>3 DEF s
  <1> QED
    BY <1>7, <1>9, <1>10, <1>11 DEF v

LEMMA CastIsRight ==
  ASSUME NEW a, IsValue(a), Value(a) \in 0 .. HighBit \div 2 - 1
  PROVE  Value(idris_castBigInt(a)) = Value(a)
  <1>1. Value(a) \in Int /\ (~a.big => a.n = Value(a)) /\ (a.big => IsMpz(a.z) /\ IntOf(a.z) = Value(a))
    BY ValueIs
  <1>2. CASE a.big
    <2> DEFINE v == Value(a)
               h == HighBit \div 2
    <2>1. h \in Nat \ {0} /\ B = 4 * h /\ Fixnum = -h .. h - 1
      BY FixnumIs
    <2>2. v \in 0 .. h - 1
      OBVIOUS
    <2>3. v \in 0 .. B - 1 /\ v \in Fixnum /\ v \in Int
      <3> HIDE DEF h, v
      <3> QED
        BY <2>1, <2>2
    <2>4. IsMpz(a.z) /\ IntOf(a.z) = v
      BY <1>1, <1>2
    <2> HIDE DEF v, h
    <2>5. mpz_get_ui(a.z) = v
      BY <2>3, <2>4, LowestLimb
    <2>6. idris_castBigInt(a) = Fix(v)
      BY <1>2, <2>5 DEF idris_castBigInt
    <2>7. Value(Fix(v)) = v
      BY <2>3, FixNumber
    <2> QED
      BY <2>6, <2>7 DEF v
  <1>3. CASE ~a.big
    BY <1>3 DEF idris_castBigInt
  <1> QED
    BY <1>2, <1>3

\* The words and the buffers of the invariants.
LEMMA WordsAgreeSeen ==
  ASSUME Value(x) \in Int, Value(y) \in Int
  PROVE  WordsAgree /\ BuffersKept
  <1>1. ASSUME NEW w \in Nat, NEW n \in Int PROVE Cut(w, n) \in Word(w)
    BY CutIsWord
  <1>2. ASSUME NEW w \in Widths, NEW v \in Widths, w < v, NEW o \in Operators
        PROVE  Agree(o, w, v, Cut(w, Value(x)), Cut(w, Value(y)))
    <2>1. w \in Nat
      BY WidthsAre
    <2>2. Cut(w, Value(x)) \in Word(w) /\ Cut(w, Value(y)) \in Word(w)
      BY <2>1, CutIsWord
    <2> QED
      BY <1>2, <2>2, OperationsAgree
  <1>3. W8 \in Nat /\ W32 \in Nat
    BY WidthsAssumption
  <1> DEFINE b == FiveBytes
             c == FourBytes
  <1>4. b \in Seq(Byte)
    <2>1. ASSUME NEW i \in 1 .. 5 PROVE Cut(W8, Value(y) + i) \in Byte
      <3> DEFINE k == Value(y) + i
      <3>1. k \in Int
        OBVIOUS
      <3> HIDE DEF k
      <3>2. Cut(W8, k) \in Word(W8)
        BY <1>3, <3>1, CutIsWord
      <3> QED
        BY <3>2 DEF Byte, k
    <2>2. b \in [1 .. 5 -> Byte] /\ 5 \in Nat
      BY <2>1 DEF FiveBytes
    <2> QED
      BY <2>2, FunctionIsSeq
  <1>5. c \in Seq(Byte)
    <2>1. ASSUME NEW i \in 1 .. 4 PROVE Cut(W8, Value(x) * i) \in Byte
      <3> DEFINE k == Value(x) * i
      <3>1. k \in Int
        OBVIOUS
      <3> HIDE DEF k
      <3>2. Cut(W8, k) \in Word(W8)
        BY <1>3, <3>1, CutIsWord
      <3> QED
        BY <3>2 DEF Byte, k
    <2>2. c \in [1 .. 4 -> Byte] /\ 4 \in Nat
      BY <2>1 DEF FourBytes
    <2> QED
      BY <2>2, FunctionIsSeq
  <1>6. Cut(W32, Value(x)) \in Word(W32)
    BY <1>3, CutIsWord
  <1> HIDE DEF b, c
  <1>7. StoredIsLoaded(b, Cut(W32, Value(x))) /\ CopiesArrive(b, c) /\ CopiesArrive(c, b)
        /\ FilesPass(b, c) /\ FilesPass(c, b)
    BY <1>4, <1>5, <1>6, IntsStored, Copies, Files
  <1>8. BuffersKept
    BY <1>7 DEF BuffersKept, b, c
  <1>9. WordsAgree
    BY <1>2 DEF WordsAgree
  <1> QED
    BY <1>8, <1>9

LEMMA WordsKeptSeen ==
  ASSUME W64 = LimbBits, IsValue(x), IsValue(y)
  PROVE  WordsKept
  <1>1. Value(x) \in Int /\ Value(y) \in Int
    BY ValueIs
  <1>2. Value(x) \in 0 .. HighBit \div 2 - 1 => Value(idris_castBigInt(x)) = Value(x)
    BY CastIsRight
  <1> DEFINE mem == [i \in 1 .. Bytes(W64) + 2 |-> Cut(W8, Value(y) + i)]
  <1>3. mem \in Seq(Byte)
    <2>1. W8 \in Nat /\ Bytes(W64) + 2 \in Nat
      <3>1. W64 \in Nat /\ W8 \in Nat \ {0}
        BY WidthsAssumption
      <3>2. W64 \div W8 \in Nat
        BY ONLY <3>1
      <3> QED
        BY <3>1, <3>2 DEF Bytes
    <2>2. ASSUME NEW i \in 1 .. Bytes(W64) + 2 PROVE Cut(W8, Value(y) + i) \in Byte
      <3> DEFINE k == Value(y) + i
      <3>1. k \in Int
        BY <1>1, <2>1
      <3> HIDE DEF k
      <3>2. Cut(W8, k) \in Word(W8)
        BY <2>1, <3>1, CutIsWord
      <3> QED
        BY <3>2 DEF Byte, k
    <2> DEFINE n == Bytes(W64) + 2
    <2>3. n \in Nat /\ mem \in [1 .. n -> Byte]
      BY <2>1, <2>2
    <2> HIDE DEF n, mem
    <2> QED
      BY <2>3, FunctionIsSeq
  <1> HIDE DEF mem
  <1>4. ASSUME NEW w \in Widths
        PROVE  LET n == Cut(w, Value(x))
               IN  /\ Divides(w, n, Cut(w, Value(y)))
                   /\ StoresAndLoads(w, mem, n)
                   /\ Value(LZExt(w, n)) = n /\ LTrunc(w, LZExt(w, n)) = n
                   /\ Value(LSExt(w, n)) = Sign(w, n)
    <2> DEFINE n == Cut(w, Value(x))
               k == Cut(w, Value(y))
    <2>1. w \in Nat
      BY WidthsAre
    <2>2. n \in Word(w) /\ k \in Word(w)
      BY <1>1, <2>1, CutIsWord
    <2> HIDE DEF n, k
    <2>3. Divides(w, n, k)
      BY <2>2, WordsDivide
    <2>4. StoresAndLoads(w, mem, n)
      BY <1>3, <2>2, StoredWord
    <2>5. Value(LZExt(w, n)) = n /\ LTrunc(w, LZExt(w, n)) = n /\ Value(LSExt(w, n)) = Sign(w, n)
      BY <2>2, WordsReturn
    <2> QED
      BY <2>3, <2>4, <2>5 DEF n, k
  <1> QED
    BY <1>2, <1>4 DEF WordsKept, mem

----------------------------------------------------------------------------
(* Division: the inverse of a divisor, and one limb of a quotient.         *)

Two(p) == p[1] * B + p[2]
IsTwo(p) == p = <<p[1], p[2]>> /\ p[1] \in Limb /\ p[2] \in Limb

LEMMA TwoIs ==
  ASSUME NEW p, IsTwo(p)
  PROVE  /\ Two(p) \in 0 .. B * B - 1 /\ p[1] = Two(p) \div B /\ p[2] = Two(p) % B
         /\ p[1] \in 0 .. B - 1 /\ p[2] \in 0 .. B - 1
  <1>1. B \in Nat \ {0} /\ p[1] \in 0 .. B - 1 /\ p[2] \in 0 .. B - 1
    BY LimbsAre DEF IsTwo
  <1> DEFINE a == p[1]
             b == p[2]
             t == Two(p)
  <1>2. t = a * B + b /\ a \in 0 .. B - 1 /\ b \in 0 .. B - 1
    BY <1>1 DEF Two
  <1> HIDE DEF a, b, t
  <1>3. B * a <= B * (B - 1) /\ B * (B - 1) = B * B - B /\ B * a >= 0 /\ a * B = B * a /\ B * a \in Int
        /\ B * B \in Int
    BY ONLY <1>1, <1>2, ProductOrder
  <1>4. t \in 0 .. B * B - 1 /\ t = B * a + b /\ a \in Int
    BY ONLY <1>1, <1>2, <1>3
  <1>5. t \div B = a /\ t % B = b
    BY ONLY <1>1, <1>2, <1>4, DivisionIs
  <1> QED
    BY <1>1, <1>4, <1>5 DEF a, b, t

LEMMA SumOfTwo ==
  ASSUME NEW a1 \in Limb, NEW a2 \in Limb, NEW b1 \in Limb, NEW b2 \in Limb
  PROVE  LET s == gmp_add_ssaaaa(a1, a2, b1, b2) IN
         /\ IsTwo(s)
         /\ \E c \in {0, 1} : Two(s) + c * (B * B) = (a1 * B + a2) + (b1 * B + b2)
  <1> DEFINE ax == Wrap(a2 + b2)
             c2 == Bit(ax < a2)
             h == Wrap(a1 + b1 + c2)
             s == gmp_add_ssaaaa(a1, a2, b1, b2)
  <1>1. B \in Nat \ {0} /\ a1 \in 0 .. B - 1 /\ a2 \in 0 .. B - 1 /\ b1 \in 0 .. B - 1 /\ b2 \in 0 .. B - 1
    BY LimbsAre, LimbIs
  <1>2. ax \in 0 .. B - 1 /\ ax + B * c2 = a2 + b2
    BY LimbSum, LimbsAre
  <1>3. c2 \in {0, 1}
    BY DEF Bit
  <1>4. s = <<h, ax>>
    BY DEF gmp_add_ssaaaa
  <1> HIDE DEF ax, c2, s
  <1>5. h \in 0 .. B - 1 /\ \E c \in {0, 1} : h + c * B = a1 + b1 + c2
    <2> DEFINE t == a1 + b1 + c2
    <2>1. t \in Int /\ 0 <= t /\ t <= 2 * B - 1 /\ h = t % B
      BY <1>1, <1>3 DEF Wrap
    <2> HIDE DEF t, h
    <2>2. h \in 0 .. B - 1
      BY ONLY <1>1, <2>1, DivMod
    <2>3. (t < B => h = t) /\ (t >= B => h = t - B)
      BY ONLY <1>1, <2>1
    <2>5. h + 0 * B = t \/ h + 1 * B = t
      BY ONLY <1>1, <2>1, <2>2, <2>3
    <2> QED
      BY <2>2, <2>5 DEF t
  <1>6. IsTwo(s)
    BY <1>2, <1>4, <1>5, LimbsAre DEF IsTwo
  <1>7. PICK c \in {0, 1} : h + c * B = a1 + b1 + c2
    BY <1>5
  <1> HIDE DEF h
  <1>8. h * B + ax + c * (B * B) = (a1 * B + a2) + (b1 * B + b2)
    <2>1. (h + c * B) * B = h * B + c * (B * B) /\ (a1 + b1 + c2) * B = a1 * B + b1 * B + B * c2
      BY ONLY <1>1, <1>3, <1>5
    <2>2. h * B \in Int /\ c * (B * B) \in Int /\ a1 * B \in Int /\ b1 * B \in Int /\ B * c2 \in Int
      BY ONLY <1>1, <1>3, <1>5
    <2>3. (h + c * B) * B = (a1 + b1 + c2) * B /\ a2 \in Int /\ b2 \in Int /\ ax \in Int
      BY ONLY <1>1, <1>2, <1>7
    <2>4. h * B + c * (B * B) = a1 * B + b1 * B + B * c2
      BY ONLY <2>1, <2>3
    <2> DEFINE e1 == h * B
               e2 == c * (B * B)
               e3 == a1 * B
               e4 == b1 * B
               e5 == B * c2
    <2>5. e1 + e2 = e3 + e4 + e5 /\ ax + e5 = a2 + b2 /\ e1 \in Int /\ e2 \in Int /\ e3 \in Int
          /\ e4 \in Int /\ e5 \in Int
      BY ONLY <1>2, <2>2, <2>4
    <2> HIDE DEF e1, e2, e3, e4, e5
    <2>6. e1 + ax + e2 = (e3 + a2) + (e4 + b2)
      BY ONLY <2>3, <2>5
    <2> QED
      BY <2>6 DEF e1, e2, e3, e4, e5
  <1>9. Two(s) = h * B + ax
    BY <1>4 DEF Two
  <1>10. \E e \in {0, 1} : Two(s) + e * (B * B) = (a1 * B + a2) + (b1 * B + b2)
    BY <1>8, <1>9
  <1> QED
    BY ONLY <1>6, <1>10 DEF s

LEMMA DifferenceOfTwo ==
  ASSUME NEW a1 \in Limb, NEW a2 \in Limb, NEW b1 \in Limb, NEW b2 \in Limb
  PROVE  LET s == gmp_sub_ddmmss(a1, a2, b1, b2) IN
         /\ IsTwo(s)
         /\ \E c \in {0, 1} : Two(s) - c * (B * B) = (a1 * B + a2) - (b1 * B + b2)
  <1> DEFINE ax == Wrap(a2 - b2)
             c2 == Bit(a2 < b2)
             h == Wrap(a1 - b1 - c2)
             s == gmp_sub_ddmmss(a1, a2, b1, b2)
  <1>1. B \in Nat \ {0} /\ a1 \in 0 .. B - 1 /\ a2 \in 0 .. B - 1 /\ b1 \in 0 .. B - 1 /\ b2 \in 0 .. B - 1
    BY LimbsAre, LimbIs
  <1>2. ax \in 0 .. B - 1 /\ ax - B * c2 = a2 - b2
    BY LimbDifference, LimbsAre
  <1>3. c2 \in {0, 1}
    BY DEF Bit
  <1>4. s = <<h, ax>>
    BY DEF gmp_sub_ddmmss
  <1> HIDE DEF ax, c2, s
  <1>5. h \in 0 .. B - 1 /\ \E c \in {0, 1} : h - c * B = a1 - b1 - c2
    <2> DEFINE t == a1 - b1 - c2
    <2>1. t \in Int /\ -B <= t /\ t <= B - 1 /\ h = t % B
      BY <1>1, <1>3 DEF Wrap
    <2> HIDE DEF t, h
    <2>2. h \in 0 .. B - 1
      BY ONLY <1>1, <2>1, DivMod
    <2>3. (t >= 0 => h = t) /\ (t < 0 => h = t + B)
      BY ONLY <1>1, <2>1
    <2>5. h - 0 * B = t \/ h - 1 * B = t
      BY ONLY <1>1, <2>1, <2>2, <2>3
    <2> QED
      BY <2>2, <2>5 DEF t
  <1>6. IsTwo(s)
    BY <1>2, <1>4, <1>5, LimbsAre DEF IsTwo
  <1>7. PICK c \in {0, 1} : h - c * B = a1 - b1 - c2
    BY <1>5
  <1> HIDE DEF h
  <1>8. (h * B + ax) - c * (B * B) = (a1 * B + a2) - (b1 * B + b2)
    <2>1. (h - c * B) * B = h * B - c * (B * B) /\ (a1 - b1 - c2) * B = a1 * B - b1 * B - B * c2
      BY ONLY <1>1, <1>3, <1>5
    <2>2. h * B \in Int /\ c * (B * B) \in Int /\ a1 * B \in Int /\ b1 * B \in Int /\ B * c2 \in Int
      BY ONLY <1>1, <1>3, <1>5
    <2>3. (h - c * B) * B = (a1 - b1 - c2) * B /\ a2 \in Int /\ b2 \in Int /\ ax \in Int
      BY ONLY <1>1, <1>2, <1>7
    <2>4. h * B - c * (B * B) = a1 * B - b1 * B - B * c2
      BY ONLY <2>1, <2>3
    <2> DEFINE e1 == h * B
               e2 == c * (B * B)
               e3 == a1 * B
               e4 == b1 * B
               e5 == B * c2
    <2>5. e1 - e2 = e3 - e4 - e5 /\ ax - e5 = a2 - b2 /\ e1 \in Int /\ e2 \in Int /\ e3 \in Int
          /\ e4 \in Int /\ e5 \in Int
      BY ONLY <1>2, <2>2, <2>4
    <2> HIDE DEF e1, e2, e3, e4, e5
    <2>6. (e1 + ax) - e2 = (e3 + a2) - (e4 + b2)
      BY ONLY <2>3, <2>5
    <2> QED
      BY <2>6 DEF e1, e2, e3, e4, e5
  <1>9. Two(s) = h * B + ax
    BY <1>4 DEF Two
  <1>10. \E e \in {0, 1} : Two(s) - e * (B * B) = (a1 * B + a2) - (b1 * B + b2)
    <2>1. Two(s) - c * (B * B) = (a1 * B + a2) - (b1 * B + b2)
      BY ONLY <1>8, <1>9
    <2> QED
      BY ONLY <2>1, c \in {0, 1}, Zenon
  <1> QED
    BY ONLY <1>6, <1>10 DEF s

LEMMA DivideTwoByOne ==
  ASSUME NEW nh, NEW nl, NEW d, NEW di, NEW k, Single(B, d, di, k), SingleDividend(B, d, nh, nl), di \in Limb
  PROVE  LET t == gmp_udiv_qrnnd_preinv(nh, nl, d, di) IN
         t = <<t[1], t[2]>> /\ Division(B, d, nh * B + nl, t[1], t[2])
  <1>1. /\ B \in Nat \ {0} /\ Limb = 0 .. B - 1 /\ d \in Nat /\ d < B /\ d >= 1
        /\ nh \in Nat /\ nh <= d - 1 /\ nl \in Nat /\ nl <= B - 1 /\ di \in Nat /\ di <= B - 1
        /\ nh \in Limb /\ nl \in Limb /\ nh + 1 \in Limb
    <2>1. B \in Nat \ {0} /\ B >= 4 /\ Limb = 0 .. B - 1
      BY LimbsAre
    <2>2. /\ d \in Nat /\ d < B /\ B <= 2 * d /\ nh \in 0 .. d - 1 /\ nl \in 0 .. B - 1
      BY DEF Single, SingleDividend
    <2>3. di \in 0 .. B - 1
      BY ONLY <2>1, di \in Limb
    <2>4. nh \in 0 .. B - 1 /\ nh + 1 \in 0 .. B - 1 /\ d >= 1
      BY ONLY <2>1, <2>2
    <2> QED
      BY ONLY <2>1, <2>2, <2>3, <2>4
  <1>2. \A n \in Int : Wrap(n) = n % B
    BY LimbsAre
  <1>3. Wrap(nh + 1) = nh + 1
    BY ONLY <1>1, LimbBase
  <1> DEFINE p == gmp_umul_ppmm(nh, di)
             e == Estimate(p, nh + 1, nl)
             w == Wrap(nl - e[1] * d)
             over == w > e[2]
             ay == IF over THEN Wrap(e[1] - 1) ELSE e[1]
             ax == IF over THEN Wrap(w + d) ELSE w
             q == IF ax >= d THEN Wrap(ay + 1) ELSE ay
             rem == IF ax >= d THEN ax - d ELSE ax
             t == gmp_udiv_qrnnd_preinv(nh, nl, d, di)
  <1>4. t = <<q, rem>>
    <2>1. t = Corrected(e, w, d)
      BY <1>3 DEF gmp_udiv_qrnnd_preinv, WithEstimate
    <2>2. Corrected(e, w, d) = IF ax >= d THEN <<Wrap(ay + 1), ax - d>> ELSE <<ay, ax>>
      BY DEF Corrected
    <2> HIDE DEF e, w, ay, ax, t
    <2> QED
      BY ONLY <2>1, <2>2
  <1>5. p \in Limb \X Limb /\ p[2] + B * p[1] = nh * di
    BY <1>1, ProductIs DEF IsProduct
  <1> HIDE DEF p
  <1>6. p[1] \in Limb /\ p[2] \in Limb
    BY ONLY <1>5
  <1>7. IsTwo(e) /\ \E c \in {0, 1} : Two(e) + c * (B * B) = (p[1] * B + p[2]) + ((nh + 1) * B + nl)
    BY ONLY <1>1, <1>6, SumOfTwo DEF Estimate
  <1> HIDE DEF e
  <1>8. PICK c \in {0, 1} : Two(e) + c * (B * B) = (p[1] * B + p[2]) + ((nh + 1) * B + nl)
    BY ONLY <1>7
  <1>9. e[1] \in 0 .. B - 1 /\ e[2] \in 0 .. B - 1
    BY ONLY <1>7, TwoIs
  <1> DEFINE q1 == e[1] + c * B
             q0 == e[2]
             r == nh * B + nl - q1 * d
  <1>10. SingleEstimate(B, d, di, nh, nl, q1, q0, r)
    <2>1. c \in Int /\ q1 \in Int /\ q0 \in 0 .. B - 1
      BY ONLY <1>1, <1>9
    <2>2. q1 * B + q0 = Two(e) + c * (B * B)
      <3> DEFINE e1 == e[1]
                 e2 == e[2]
      <3>1. e1 \in Int /\ e2 \in Int
        BY ONLY <1>1, <1>9
      <3>2. Two(e) = e1 * B + e2
        BY DEF Two
      <3>3. q1 = e1 + c * B /\ q0 = e2
        OBVIOUS
      <3> HIDE DEF e1, e2, q1, q0
      <3>4. (e1 + c * B) * B = e1 * B + c * (B * B) /\ e1 * B \in Int /\ c * (B * B) \in Int
        BY ONLY <1>1, <2>1, <3>1
      <3> QED
        BY ONLY <3>1, <3>2, <3>3, <3>4
    <2>3. p[1] * B + p[2] = nh * di
      <3> DEFINE e1 == p[1]
                 e2 == p[2]
      <3>1. e1 \in Int /\ e2 \in Int /\ e2 + B * e1 = nh * di
        BY ONLY <1>1, <1>5, <1>6
      <3> HIDE DEF e1, e2
      <3>2. e1 * B + e2 = nh * di
        BY ONLY <1>1, <3>1
      <3> QED
        BY <3>2 DEF e1, e2
    <2>4. (B + di) * nh + B + nl = nh * di + ((nh + 1) * B + nl)
      BY ONLY <1>1
    <2> HIDE DEF q1, q0
    <2>5. (B + di) * nh + B + nl = q1 * B + q0
      BY ONLY <1>8, <2>2, <2>3, <2>4
    <2> QED
      BY ONLY <2>1, <2>5 DEF SingleEstimate, r
  <1>11. OneCorrection(B, d, q1, q0, r, w, ax, ay, q, rem)
    <2> DEFINE e1 == e[1]
    <2>1. e1 \in 0 .. B - 1 /\ c \in Int /\ e1 \in Int
      BY <1>1, <1>9
    <2> HIDE DEF e1
    <2>2. w = r % B
      <3>1. r = (nl - e1 * d) + B * (nh - c * d)
        <4>1. r = nh * B + nl - (e1 + c * B) * d
          BY DEF e1
        <4>2. nh * B + nl - (e1 + c * B) * d = (nl - e1 * d) + B * (nh - c * d)
          BY ONLY <1>1, <2>1
        <4> QED
          BY ONLY <4>1, <4>2
      <3>2. nl - e1 * d \in Int /\ nh - c * d \in Int
        BY ONLY <1>1, <2>1
      <3> DEFINE a == nl - e1 * d
                 m == nh - c * d
      <3>3. r = a + B * m /\ a \in Int /\ m \in Int /\ w = Wrap(a)
        BY <3>1, <3>2 DEF e1
      <3> HIDE DEF a, m, r, w
      <3> QED
        BY ONLY <1>1, <1>2, <3>3, ModAddMultiple
    <2>3. w \in 0 .. B - 1 /\ r \in Int
      <3>1. r \in Int
        BY ONLY <1>1, <2>1 DEF r, q1, e1
      <3> HIDE DEF r, w
      <3> QED
        BY ONLY <1>1, <2>2, <3>1, DivMod
    <2>4. (q1 - 1) % B = (e1 - 1) % B /\ q1 % B = e1
      <3>1. q1 - 1 = (e1 - 1) + B * c /\ q1 = e1 + B * c /\ e1 - 1 \in Int
        BY ONLY <1>1, <2>1 DEF q1, e1
      <3> DEFINE a == e1 - 1
      <3>2. q1 - 1 = a + B * c /\ a \in Int
        BY ONLY <3>1
      <3> HIDE DEF a, q1
      <3>3. (a + B * c) % B = a % B /\ (e1 + B * c) % B = e1 % B
        BY ONLY <1>1, <2>1, <3>2, ModAddMultiple
      <3>4. e1 % B = e1
        BY ONLY <1>1, <2>1, ModSmall
      <3> QED
        BY ONLY <3>1, <3>2, <3>3, <3>4 DEF a
    <2>5. w + d \in Int /\ e1 - 1 \in Int
      <3> HIDE DEF w
      <3> QED
        BY ONLY <1>1, <2>1, <2>3
    <2>6. w > q0 => ax = (w + d) % B /\ ay = (q1 - 1) % B
      <3> SUFFICES ASSUME w > q0 PROVE ax = (w + d) % B /\ ay = (q1 - 1) % B
        OBVIOUS
      <3>1. ax = Wrap(w + d) /\ ay = Wrap(e1 - 1)
        BY DEF e1
      <3> HIDE DEF w, ax, ay, q1
      <3> QED
        BY ONLY <1>2, <2>4, <2>5, <3>1
    <2>7. w <= q0 => ax = w /\ ay = q1 % B
      <3> SUFFICES ASSUME w <= q0 PROVE ax = w /\ ay = q1 % B
        OBVIOUS
      <3>0. q0 \in Int
        BY ONLY <1>1, <1>9
      <3>1. ~over
        <4> HIDE DEF w, q0
        <4>1. ~(w > q0)
          BY ONLY <1>1, <2>3, <3>0, w <= q0
        <4> QED
          BY <4>1 DEF q0
      <3>2. ax = w /\ ay = e1
        <4> HIDE DEF over, w
        <4> QED
          BY <3>1 DEF e1
      <3> HIDE DEF w, ax, ay, q1
      <3> QED
        BY ONLY <2>4, <3>2
    <2>8. ax \in Int /\ ay \in Int
      <3>1. Wrap(w + d) \in Int /\ Wrap(e1 - 1) \in Int
        <4> DEFINE a == w + d
                   m == e1 - 1
        <4>1. a \in Int /\ m \in Int
          BY <2>5
        <4> HIDE DEF a, m
        <4>2. Wrap(a) \in Int /\ Wrap(m) \in Int
          <5>1. a % B \in 0 .. B - 1 /\ m % B \in 0 .. B - 1
            BY ONLY <1>1, <4>1, DivMod
          <5>2. a % B \in Int /\ m % B \in Int
            BY ONLY <1>1, <5>1
          <5> QED
            BY ONLY <1>2, <4>1, <5>2
        <4> QED
          BY <4>2 DEF a, m
      <3> HIDE DEF w, over
      <3>2. w \in Int
        BY ONLY <1>1, <2>3
      <3> QED
        BY <2>1, <3>1, <3>2 DEF e1
    <2>9. (ax >= d => q = (ay + 1) % B /\ rem = ax - d) /\ (ax < d => q = ay /\ rem = ax)
      <3> HIDE DEF ax, ay
      <3>1. Wrap(ay + 1) = (ay + 1) % B
        <4>1. ay + 1 \in Int
          BY ONLY <2>8
        <4> QED
          BY ONLY <1>2, <4>1
      <3>2. ax < d => ~(ax >= d)
        BY ONLY <1>1, <2>8
      <3> QED
        BY <3>1, <3>2
    <2> HIDE DEF w, ax, ay, q, rem, q1, q0, r
    <2> QED
      BY ONLY <2>2, <2>6, <2>7, <2>9 DEF OneCorrection
  <1> HIDE DEF w, ax, ay, q, rem, q1, q0, r, t
  <1>12. Division(B, d, nh * B + nl, q, rem)
    BY ONLY <1>10, <1>11, SingleCorrects, Single(B, d, di, k), SingleDividend(B, d, nh, nl)
  <1>13. t[1] = q /\ t[2] = rem
    BY ONLY <1>4
  <1> QED
    BY ONLY <1>4, <1>12, <1>13 DEF t

\* The quotient and the two limbs of the remainder.
IsThree(e) == e = <<e[1], e[2], e[3]>> /\ e[1] \in Limb /\ e[2] \in Limb /\ e[3] \in Limb

LEMMA Tripled ==
  ASSUME NEW a, NEW p, p = <<p[1], p[2]>>
  PROVE  LET t == <<a>> \o p IN t = <<t[1], t[2], t[3]>> /\ t[1] = a /\ t[2] = p[1] /\ t[3] = p[2]
  <1> DEFINE b == p[1]
             c == p[2]
  <1>1. p = <<b, c>>
    OBVIOUS
  <1> HIDE DEF b, c
  <1>2. <<a>> \o p = <<a, b, c>>
    <2> DEFINE R == {a, b, c}
    <2>1. a \in R /\ b \in R /\ c \in R
      OBVIOUS
    <2>2. <<a>> \in Seq(R) /\ Len(<<a>>) = 1 /\ <<a>>[1] = a /\ p \in Seq(R) /\ Len(p) = 2 /\ p[1] = b /\ p[2] = c
          /\ <<a, b, c>> \in Seq(R) /\ Len(<<a, b, c>>) = 3 /\ <<a, b, c>>[1] = a
          /\ <<a, b, c>>[2] = b /\ <<a, b, c>>[3] = c
      BY ONLY <1>1, <2>1
    <2> HIDE DEF R
    <2>3. /\ <<a>> \o p \in Seq(R) /\ Len(<<a>> \o p) = 3
          /\ \A i \in 1 .. 3 : (<<a>> \o p)[i] = IF i <= 1 THEN a ELSE p[i - 1]
      <3> DEFINE s == <<a>>
      <3>1. s \in Seq(R) /\ Len(s) = 1 /\ s[1] = a /\ p \in Seq(R) /\ Len(p) = 2
        BY ONLY <2>2
      <3> HIDE DEF s
      <3>2. /\ s \o p \in Seq(R) /\ Len(s \o p) = Len(s) + Len(p)
            /\ \A i \in 1 .. Len(s) + Len(p) : (s \o p)[i] = IF i <= Len(s) THEN s[i] ELSE p[i - Len(s)]
        BY ONLY <3>1, ConcatProperties
      <3>3. /\ s \o p \in Seq(R) /\ Len(s \o p) = 3
            /\ \A i \in 1 .. 3 : (s \o p)[i] = IF i <= 1 THEN a ELSE p[i - 1]
        BY ONLY <3>1, <3>2
      <3> QED
        BY ONLY <3>3 DEF s
    <2>4. \A i \in 1 .. 3 : (<<a>> \o p)[i] = <<a, b, c>>[i]
      <3>1. (<<a>> \o p)[1] = a /\ (<<a>> \o p)[2] = b /\ (<<a>> \o p)[3] = c
        BY ONLY <2>2, <2>3
      <3>2. \A i \in 1 .. 3 : i = 1 \/ i = 2 \/ i = 3
        OBVIOUS
      <3> QED
        BY ONLY <2>2, <3>1, <3>2
    <2> QED
      BY ONLY <2>2, <2>3, <2>4, SeqEqual
  <1> QED
    BY <1>2 DEF b, c

LEMMA OrderOfTwo ==
  ASSUME NEW p, IsTwo(p), NEW d1 \in Limb, NEW d0 \in Limb
  PROVE  /\ (p[1] > d1 \/ (p[1] = d1 /\ p[2] >= d0)) <=> Two(p) >= d1 * B + d0
         /\ p[1] >= d1 <=> Two(p) >= d1 * B
  <1> DEFINE a == p[1]
             c == p[2]
  <1>1. B \in Nat \ {0} /\ d1 \in 0 .. B - 1 /\ d0 \in 0 .. B - 1 /\ a \in 0 .. B - 1 /\ c \in 0 .. B - 1
    BY LimbsAre, LimbIs DEF IsTwo
  <1>2. Two(p) = a * B + c
    BY DEF Two
  <1> HIDE DEF a, c
  <1>3. a * B = B * a /\ d1 * B = B * d1 /\ a * B \in Int /\ d1 * B \in Int /\ B * (d1 + 1) = B * d1 + B
        /\ B * (a + 1) = B * a + B
    BY ONLY <1>1
  <1>4. a > d1 => B * (d1 + 1) <= B * a
    <2>1. a > d1 => d1 + 1 <= a
      BY ONLY <1>1
    <2>2. d1 + 1 \in Int /\ a \in Int
      BY ONLY <1>1
    <2> QED
      BY ONLY <1>1, <2>1, <2>2, ProductOrder
  <1>5. a < d1 => B * (a + 1) <= B * d1
    <2>1. a < d1 => a + 1 <= d1
      BY ONLY <1>1
    <2>2. a + 1 \in Int /\ d1 \in Int
      BY ONLY <1>1
    <2> QED
      BY ONLY <1>1, <2>1, <2>2, ProductOrder
  <1>6. (a > d1 \/ (a = d1 /\ c >= d0)) <=> a * B + c >= d1 * B + d0
    <2>1. CASE a > d1
      BY ONLY <1>1, <1>3, <1>4, <2>1
    <2>2. CASE a < d1
      BY ONLY <1>1, <1>3, <1>5, <2>2
    <2>3. CASE a = d1
      BY ONLY <1>1, <1>3, <2>3
    <2> QED
      BY ONLY <1>1, <2>1, <2>2, <2>3
  <1>7. a >= d1 <=> a * B + c >= d1 * B
    <2>1. CASE a > d1
      BY ONLY <1>1, <1>3, <1>4, <2>1
    <2>2. CASE a < d1
      BY ONLY <1>1, <1>3, <1>5, <2>2
    <2>3. CASE a = d1
      BY ONLY <1>1, <1>3, <2>3
    <2> QED
      BY ONLY <1>1, <2>1, <2>2, <2>3
  <1> QED
    BY ONLY <1>2, <1>6, <1>7 DEF a, c

LEMMA RestIs ==
  ASSUME NEW q, IsTwo(q), NEW n1 \in Limb, NEW n0 \in Limb, NEW d1 \in Limb, NEW d0 \in Limb
  PROVE  /\ IsTwo(Rest(q, n1, n0, d1, d0))
         /\ \E m \in Int : Two(Rest(q, n1, n0, d1, d0)) + m * (B * B)
                             = n1 * B + n0 - (q[1] + 1) * (d1 * B + d0)
  <1> DEFINE q1 == q[1]
             h == Wrap(n1 - d1 * q1)
             s == gmp_sub_ddmmss(h, n0, d1, d0)
             t == gmp_umul_ppmm(d0, q1)
             r == gmp_sub_ddmmss(s[1], s[2], t[1], t[2])
  <1>1. /\ B \in Nat \ {0} /\ Limb = 0 .. B - 1 /\ n1 \in 0 .. B - 1 /\ n0 \in 0 .. B - 1
        /\ d1 \in 0 .. B - 1 /\ d0 \in 0 .. B - 1 /\ q1 \in 0 .. B - 1
    BY LimbsAre, LimbIs DEF IsTwo
  <1>w. \A n \in Int : Wrap(n) = n % B
    BY LimbsAre
  <1>2. Rest(q, n1, n0, d1, d0) = r
    BY DEF Rest, Less
  <1> HIDE DEF q1
  <1>3. h \in Limb /\ \E j \in Int : h + j * B = n1 - d1 * q1
    <2> DEFINE a == n1 - d1 * q1
    <2>1. a \in Int
      BY ONLY <1>1
    <2> HIDE DEF a
    <2>2. a \div B \in Int /\ a % B \in 0 .. B - 1 /\ a = B * (a \div B) + (a % B)
      BY ONLY <1>1, <2>1, DivMod
    <2>3. h = a % B
      BY <1>w, <2>1 DEF a
    <2>4. (a % B) + (a \div B) * B = a
      <3> DEFINE ay == a \div B
                 z == a % B
      <3>1. ay \in Int /\ z \in Int /\ a = B * ay + z
        BY <1>1, <2>2
      <3> HIDE DEF ay, z
      <3>2. z + ay * B = a
        BY ONLY <1>1, <3>1
      <3> QED
        BY <3>2 DEF ay, z
    <2> QED
      BY <1>1, <2>2, <2>3, <2>4 DEF a
  <1> HIDE DEF h
  <1>4. PICK j \in Int : h + j * B = n1 - d1 * q1
    BY <1>3
  <1>5. IsTwo(s) /\ \E c \in {0, 1} : Two(s) - c * (B * B) = (h * B + n0) - (d1 * B + d0)
    BY ONLY <1>3, DifferenceOfTwo, n0 \in Limb, d1 \in Limb, d0 \in Limb
  <1>6. PICK c \in {0, 1} : Two(s) - c * (B * B) = (h * B + n0) - (d1 * B + d0)
    BY ONLY <1>5
  <1>7. q1 \in Limb
    BY ONLY <1>1
  <1>8. t \in Limb \X Limb /\ t[2] + B * t[1] = d0 * q1
    BY ONLY <1>7, d0 \in Limb, ProductIs DEF IsProduct
  <1> HIDE DEF s, t
  <1>9. s[1] \in Limb /\ s[2] \in Limb /\ t[1] \in Limb /\ t[2] \in Limb
    BY <1>5, <1>8 DEF IsTwo
  <1>10. IsTwo(r) /\ \E e \in {0, 1} : Two(r) - e * (B * B) = (s[1] * B + s[2]) - (t[1] * B + t[2])
    BY ONLY <1>9, DifferenceOfTwo
  <1>11. PICK e \in {0, 1} : Two(r) - e * (B * B) = (s[1] * B + s[2]) - (t[1] * B + t[2])
    BY ONLY <1>10
  <1> HIDE DEF r
  <1>12. s[1] * B + s[2] = Two(s)
    BY DEF Two
  <1>13. t[1] * B + t[2] = d0 * q1
    <2> DEFINE a1 == t[1]
               a2 == t[2]
    <2>1. a1 \in Int /\ a2 \in Int /\ a2 + B * a1 = d0 * q1
      BY <1>1, <1>8, <1>9
    <2> HIDE DEF a1, a2
    <2>2. a1 * B + a2 = d0 * q1
      BY ONLY <1>1, <2>1
    <2> QED
      BY <2>2 DEF a1, a2
  <1> DEFINE ts == Two(s)
             tr == Two(r)
  <1>14. ts \in Int /\ tr \in Int /\ h \in Int /\ c \in Int /\ e \in Int
    <2>1. ts \in 0 .. B * B - 1 /\ tr \in 0 .. B * B - 1
      BY ONLY <1>5, <1>10, TwoIs
    <2>2. B * B \in Int
      BY ONLY <1>1
    <2> HIDE DEF ts, tr
    <2> QED
      BY ONLY <1>1, <1>3, <2>1, <2>2
  <1>15. tr - e * (B * B) = ts - d0 * q1
    BY <1>11, <1>12, <1>13
  <1>16. ts - c * (B * B) = (h * B + n0) - (d1 * B + d0)
    BY <1>6
  <1> HIDE DEF ts, tr
  <1> DEFINE m == -(e + c) + j
  <1>17. tr + m * (B * B) = n1 * B + n0 - (q1 + 1) * (d1 * B + d0)
    <2>1. (h + j * B) * B = h * B + j * (B * B) /\ (n1 - d1 * q1) * B = n1 * B - (d1 * q1) * B
      BY ONLY <1>1, <1>14, j \in Int
    <2>2. h * B + j * (B * B) = n1 * B - (d1 * q1) * B
      BY <1>4, <2>1
    <2>3. (q1 + 1) * (d1 * B + d0) = (d1 * q1) * B + d0 * q1 + d1 * B + d0
      BY ONLY <1>1
    <2>4. m * (B * B) = j * (B * B) - e * (B * B) - c * (B * B)
      BY ONLY <1>1, <1>14, j \in Int
    <2> DEFINE f1 == j * (B * B)
               f2 == e * (B * B)
               f3 == c * (B * B)
               f4 == h * B
               f5 == n1 * B
               f6 == (d1 * q1) * B
               f7 == d0 * q1
               f8 == d1 * B
               f9 == m * (B * B)
               f10 == (q1 + 1) * (d1 * B + d0)
    <2>5. /\ f1 \in Int /\ f2 \in Int /\ f3 \in Int /\ f4 \in Int /\ f5 \in Int /\ f6 \in Int /\ f7 \in Int
          /\ f8 \in Int
      BY ONLY <1>1, <1>14, j \in Int
    <2>6. /\ f4 + f1 = f5 - f6 /\ f10 = f6 + f7 + f8 + d0 /\ f9 = f1 - f2 - f3
          /\ tr - f2 = ts - f7 /\ ts - f3 = (f4 + n0) - (f8 + d0)
      BY ONLY <1>15, <1>16, <2>2, <2>3, <2>4
    <2> HIDE DEF f1, f2, f3, f4, f5, f6, f7, f8, f9, f10
    <2>7. tr + f9 = f5 + n0 - f10
      BY ONLY <1>1, <1>14, <2>5, <2>6
    <2> QED
      BY <2>7 DEF f5, f9, f10
  <1>18. m \in Int
    BY ONLY <1>14, j \in Int
  <1> HIDE DEF m
  <1>19. \E z \in Int : Two(r) + z * (B * B) = n1 * B + n0 - (q1 + 1) * (d1 * B + d0)
    BY <1>17, <1>18 DEF tr
  <1> QED
    BY ONLY <1>2, <1>10, <1>19 DEF q1

LEMMA EstimateIs ==
  ASSUME NEW b, NEW d1, NEW d0, NEW d, NEW v, NEW k, Divisor(b, d1, d0, d, v, k),
         NEW u2, NEW u1, NEW u0, Dividend(b, d, u2, u1, u0)
  PROVE  LET t == (b + v) * u2 + u1 IN
         /\ t \in 0 .. b * b - 1
         /\ Estimated(b, d, v, u2, u1, u0, t \div b, t % b, (u2 * b + u1) * b + u0 - (t \div b + 1) * d)
  <1> DEFINE t == (b + v) * u2 + u1
             q1 == t \div b
             q0 == t % b
             r == (u2 * b + u1) * b + u0 - (q1 + 1) * d
  <1>1. b \in Nat \ {0} /\ d \in Nat /\ v \in Nat /\ u2 \in Nat /\ u1 \in Nat /\ u0 \in Nat /\ t \in Nat
    BY DEF Divisor, Dividend
  <1> HIDE DEF t
  <1>2. q1 \in Int /\ q0 \in 0 .. b - 1 /\ t = b * q1 + q0
    BY ONLY <1>1, DivMod
  <1> HIDE DEF q1, q0
  <1>3. r \in Int
    BY ONLY <1>1, <1>2
  <1>4. t = q1 * b + q0
    BY ONLY <1>1, <1>2
  <1>5. Estimated(b, d, v, u2, u1, u0, q1, q0, r)
    BY <1>2, <1>3, <1>4 DEF Estimated, t
  <1>6. q1 \in 0 .. b - 1
    BY ONLY <1>5, EstimateBelow, Divisor(b, d1, d0, d, v, k), Dividend(b, d, u2, u1, u0)
  <1>7. t \in 0 .. b * b - 1
    <2>1. b * q1 <= b * (b - 1) /\ b * (b - 1) = b * b - b /\ b * q1 \in Int /\ b * b \in Int
      BY ONLY <1>1, <1>6, ProductOrder
    <2> QED
      BY ONLY <1>1, <1>2, <2>1
  <1> QED
    BY ONLY <1>5, <1>7 DEF t, q1, q0, r

\* gmp_udiv_qr_3by2 divides three limbs by two: its estimate, which a
\* multiplication by the inverse gives, is right after at most two corrections.
THEOREM DivideThreeByTwo ==
  ASSUME NEW n2, NEW n1, NEW n0, NEW d1, NEW d0, NEW dinv, NEW d, NEW k,
         Divisor(B, d1, d0, d, dinv, k), Dividend(B, d, n2, n1, n0), dinv \in Limb
  PROVE  LET t == gmp_udiv_qr_3by2(n2, n1, n0, d1, d0, dinv) IN
         IsThree(t) /\ Division(B, d, (n2 * B + n1) * B + n0, t[1], t[2] * B + t[3])
  <1> DEFINE T == (B + dinv) * n2 + n1
             q1 == T \div B
             q0 == T % B
             r == (n2 * B + n1) * B + n0 - (q1 + 1) * d
  <1>1. /\ B \in Nat \ {0} /\ B >= 4 /\ Limb = 0 .. B - 1
        /\ n2 \in 0 .. B - 1 /\ n1 \in 0 .. B - 1 /\ n0 \in 0 .. B - 1
        /\ d1 \in 0 .. B - 1 /\ d0 \in 0 .. B - 1 /\ d = d1 * B + d0 /\ d \in Nat
    <2>1. B \in Nat \ {0} /\ B >= 4 /\ Limb = 0 .. B - 1
      BY LimbsAre
    <2> QED
      BY <2>1 DEF Divisor, Dividend
  <1>2. T \in 0 .. B * B - 1 /\ Estimated(B, d, dinv, n2, n1, n0, q1, q0, r)
    BY ONLY EstimateIs, Divisor(B, d1, d0, d, dinv, k), Dividend(B, d, n2, n1, n0)
  <1>3. q1 \in 0 .. B - 1 /\ q0 \in 0 .. B - 1
    <2> HIDE DEF q1, q0, r
    <2>1. q1 \in 0 .. B - 1
      BY ONLY <1>2, EstimateBelow, Divisor(B, d1, d0, d, dinv, k), Dividend(B, d, n2, n1, n0)
    <2> QED
      BY ONLY <1>2, <2>1 DEF Estimated
  <1> DEFINE p == gmp_umul_ppmm(n2, dinv)
             q == Estimate(p, n2, n1)
             w == Rest(q, n1, n0, d1, d0)
             over == w[1] >= q[2]
             ax == IF over THEN gmp_add_ssaaaa(w[1], w[2], d1, d0) ELSE w
             ay == IF over THEN q[1] ELSE Wrap(q[1] + 1)
             big == ax[1] > d1 \/ (ax[1] = d1 /\ ax[2] >= d0)
             z == gmp_sub_ddmmss(ax[1], ax[2], d1, d0)
             t == gmp_udiv_qr_3by2(n2, n1, n0, d1, d0, dinv)
  <1>4. t = IF big THEN <<Wrap(ay + 1)>> \o z ELSE <<ay>> \o ax
    <2>1. Once(n2, n1, n0, d1, d0, dinv) = First(q, w, d1, d0)
      BY DEF Once, FirstOf3by2
    <2>2. First(q, w, d1, d0) = [q |-> ay, r |-> ax]
      BY DEF First
    <2>3. t = Second([q |-> ay, r |-> ax], d1, d0)
      BY <2>1, <2>2 DEF gmp_udiv_qr_3by2
    <2> HIDE DEF ay, ax, t
    <2> QED
      BY <2>3 DEF Second
  <1>5. n2 \in Limb /\ n1 \in Limb /\ n0 \in Limb /\ d1 \in Limb /\ d0 \in Limb
    BY ONLY <1>1
  <1>6. p \in Limb \X Limb /\ p[2] + B * p[1] = n2 * dinv
    BY <1>5, ProductIs DEF IsProduct
  <1> HIDE DEF p
  <1>7. p[1] \in Limb /\ p[2] \in Limb
    BY ONLY <1>6
  <1>8. IsTwo(q) /\ \E c \in {0, 1} : Two(q) + c * (B * B) = (p[1] * B + p[2]) + (n2 * B + n1)
    BY ONLY <1>5, <1>7, SumOfTwo DEF Estimate
  <1> HIDE DEF q
  <1>9. Two(q) = T
    <2>1. PICK c \in {0, 1} : Two(q) + c * (B * B) = (p[1] * B + p[2]) + (n2 * B + n1)
      BY ONLY <1>8
    <2>2. p[1] * B + p[2] = n2 * dinv
      <3> DEFINE e1 == p[1]
                 e2 == p[2]
      <3>1. e1 \in Int /\ e2 \in Int /\ e2 + B * e1 = n2 * dinv
        BY ONLY <1>1, <1>6, <1>7
      <3> HIDE DEF e1, e2
      <3>2. e1 * B + e2 = n2 * dinv
        BY ONLY <1>1, <3>1
      <3> QED
        BY <3>2 DEF e1, e2
    <2>3. T = n2 * dinv + (n2 * B + n1)
      <3>1. dinv \in Int
        BY ONLY <1>1, dinv \in Limb
      <3> QED
        BY ONLY <1>1, <3>1 DEF T
    <2> DEFINE tq == Two(q)
    <2>4. tq + c * (B * B) = T
      BY ONLY <2>1, <2>2, <2>3
    <2>5. tq \in 0 .. B * B - 1
      BY ONLY <1>8, TwoIs
    <2> HIDE DEF tq, T
    <2>6. B * B \in Nat
      BY ONLY <1>1
    <2>7. c = 0 \/ c = 1
      OBVIOUS
    <2>8. tq = T
      BY ONLY <1>2, <2>4, <2>5, <2>6, <2>7
    <2> QED
      BY <2>8 DEF tq
  <1>10. q[1] = q1 /\ q[2] = q0
    <2> HIDE DEF T
    <2> QED
      BY ONLY <1>8, <1>9, TwoIs
  <1> HIDE DEF q1, q0
  <1>11. IsTwo(w) /\ \E m \in Int : Two(w) + m * (B * B) = n1 * B + n0 - (q[1] + 1) * (d1 * B + d0)
    BY ONLY <1>5, <1>8, RestIs
  <1> HIDE DEF w
  <1>12. Two(w) = r % (B * B)
    <2>1. PICK m \in Int : Two(w) + m * (B * B) = n1 * B + n0 - (q[1] + 1) * (d1 * B + d0)
      BY ONLY <1>11
    <2> DEFINE s == B * B
               tw == Two(w)
    <2>2. tw \in 0 .. s - 1 /\ s \in Nat \ {0}
      <3>1. B * B \in Nat \ {0}
        BY ONLY <1>1
      <3> QED
        BY ONLY <1>11, <3>1, TwoIs
    <2>3. tw + m * s = n1 * B + n0 - (q1 + 1) * d
      BY ONLY <1>1, <1>10, <2>1
    <2> HIDE DEF s, tw
    <2>4. r = s * (n2 + m) + tw
      <3>1. (n2 * B + n1) * B + n0 - (q1 + 1) * d = s * n2 + (n1 * B + n0 - (q1 + 1) * d)
        <4>1. (n2 * B + n1) * B = s * n2 + n1 * B
          BY ONLY <1>1 DEF s
        <4>2. s * n2 \in Int /\ n1 * B \in Int /\ (q1 + 1) * d \in Int
          BY ONLY <1>1, <1>3, <2>2
        <4> QED
          BY ONLY <1>1, <4>1, <4>2
      <3>2. s * (n2 + m) = s * n2 + m * s /\ s * n2 \in Int /\ m * s \in Int
        BY ONLY <1>1, <2>2, m \in Int
      <3> QED
        BY ONLY <2>2, <2>3, <3>1, <3>2
    <2>5. n2 + m \in Int
      BY ONLY <1>1, m \in Int
    <2>6. r % s = tw
      <3> DEFINE a == n2 + m
      <3>1. r = s * a + tw /\ a \in Int
        BY <2>4, <2>5
      <3> HIDE DEF a, r
      <3> QED
        BY ONLY <2>2, <3>1, DivisionIs
    <2> QED
      BY <2>6 DEF s, tw
  <1>13. over <=> Two(w) >= q0 * B
    <2>1. q0 \in Limb /\ 0 \in Limb
      BY ONLY <1>1, <1>3
    <2> QED
      BY ONLY <1>10, <1>11, <2>1, OrderOfTwo
  <1>14. w[1] \in Limb /\ w[2] \in Limb /\ Two(w) = w[1] * B + w[2]
    BY <1>11 DEF IsTwo, Two
  <1>15. over => IsTwo(ax) /\ Two(ax) = (Two(w) + d) % (B * B)
    <2> SUFFICES ASSUME over PROVE IsTwo(ax) /\ Two(ax) = (Two(w) + d) % (B * B)
      OBVIOUS
    <2>1. ax = gmp_add_ssaaaa(w[1], w[2], d1, d0)
      OBVIOUS
    <2> HIDE DEF ax
    <2>2. IsTwo(ax) /\ \E c \in {0, 1} : Two(ax) + c * (B * B) = (w[1] * B + w[2]) + (d1 * B + d0)
      BY ONLY <1>5, <1>14, <2>1, SumOfTwo
    <2>3. PICK c \in {0, 1} : Two(ax) + c * (B * B) = (w[1] * B + w[2]) + (d1 * B + d0)
      BY ONLY <2>2
    <2> DEFINE s == B * B
               tx == Two(ax)
               tw == Two(w)
    <2>4. tx + c * s = tw + d
      BY ONLY <1>1, <1>14, <2>3
    <2>5. tx \in 0 .. s - 1 /\ s \in Nat \ {0}
      <3>1. B * B \in Nat \ {0}
        BY ONLY <1>1
      <3> QED
        BY ONLY <2>2, <3>1, TwoIs
    <2> HIDE DEF s, tx, tw
    <2>6. tw + d = s * c + tx /\ c \in Int
      BY ONLY <2>4, <2>5, c \in {0, 1}
    <2>7. (tw + d) % s = tx
      <3> DEFINE a == tw + d
      <3>1. a = s * c + tx
        BY <2>6
      <3> HIDE DEF a
      <3>2. a % s = tx
        BY ONLY <2>5, <2>6, <3>1, DivisionIs
      <3> QED
        BY <3>2 DEF a
    <2> QED
      BY <2>2, <2>7 DEF s, tx, tw
  <1>16. IsTwo(ax) /\ (~over => ax = w)
    BY <1>11, <1>15
  <1> HIDE DEF over
  <1>17. ay \in Limb /\ (over => ay = q1) /\ (~over => ay = Wrap(q1 + 1))
    <2>1. Wrap(q1 + 1) \in Limb /\ q1 \in Limb
      <3>1. q1 + 1 \in Int /\ q1 \in Limb
        BY ONLY <1>1, <1>3
      <3> DEFINE a == q1 + 1
      <3>2. a \in Int
        BY <3>1
      <3> HIDE DEF a
      <3>3. Wrap(a) = a % B
        BY <3>2, LimbsAre
      <3>4. a % B \in 0 .. B - 1
        BY ONLY <1>1, <3>2, DivMod
      <3> QED
        BY <1>1, <3>1, <3>3, <3>4 DEF a
    <2> QED
      BY <1>10, <2>1
  <1> HIDE DEF ax, ay
  <1>18. big <=> Two(ax) >= d
    BY ONLY <1>1, <1>5, <1>16, OrderOfTwo
  <1>19. ax[1] \in Limb /\ ax[2] \in Limb /\ Two(ax) = ax[1] * B + ax[2] /\ Two(ax) \in 0 .. B * B - 1
    BY <1>16, TwoIs DEF IsTwo, Two
  <1>20. IsTwo(z) /\ \E c \in {0, 1} : Two(z) - c * (B * B) = (ax[1] * B + ax[2]) - (d1 * B + d0)
    BY ONLY <1>5, <1>19, DifferenceOfTwo
  <1> HIDE DEF z
  <1>21. big => Two(z) = Two(ax) - d
    <2> SUFFICES ASSUME big PROVE Two(z) = Two(ax) - d
      OBVIOUS
    <2>1. Two(ax) >= d
      BY <1>18
    <2>2. PICK c \in {0, 1} : Two(z) - c * (B * B) = (ax[1] * B + ax[2]) - (d1 * B + d0)
      BY ONLY <1>20
    <2> DEFINE s == B * B
               tx == Two(ax)
               tz == Two(z)
    <2>3. tz - c * s = tx - d
      BY ONLY <1>1, <1>19, <2>2
    <2>4. tz \in 0 .. s - 1 /\ s \in Nat \ {0} /\ tx \in 0 .. s - 1 /\ tx >= d
      <3>1. B * B \in Nat \ {0}
        BY ONLY <1>1
      <3> QED
        BY ONLY <1>19, <1>20, <2>1, <3>1, TwoIs
    <2> HIDE DEF s, tx, tz
    <2>5. c = 0 \/ c = 1
      OBVIOUS
    <2>6. tz = tx - d
      BY ONLY <1>1, <2>3, <2>4, <2>5
    <2> QED
      BY <2>6 DEF tx, tz
  <1> HIDE DEF big
  <1> DEFINE y1 == IF over THEN q1 ELSE q1 + 1
             q9 == IF big THEN y1 + 1 ELSE y1
             rem == IF big THEN Two(ax) - d ELSE Two(ax)
  <1>22. TwoCorrections(B, d, q1, q0, r, Two(w), Two(ax), y1, q9, rem)
    <2>1. Two(w) >= q0 * B => Two(ax) = (Two(w) + d) % (B * B) /\ y1 = q1
      BY <1>13, <1>15
    <2>2. Two(w) < q0 * B => ~(Two(w) >= q0 * B)
      <3>1. Two(w) \in Int /\ q0 * B \in Int
        <4>1. Two(w) \in 0 .. B * B - 1
          BY ONLY <1>11, TwoIs
        <4>2. B * B \in Int /\ q0 * B \in Int
          BY ONLY <1>1, <1>3
        <4> DEFINE tw == Two(w)
        <4> HIDE DEF tw
        <4>3. tw \in Int
          BY ONLY <4>1, <4>2 DEF tw
        <4> QED
          BY ONLY <4>2, <4>3 DEF tw
      <3> DEFINE tw == Two(w)
                 e == q0 * B
      <3>2. tw \in Int /\ e \in Int
        BY <3>1
      <3> HIDE DEF tw, e
      <3>3. tw < e => ~(tw >= e)
        BY ONLY <3>2
      <3> QED
        BY <3>3 DEF tw, e
    <2>3. Two(w) < q0 * B => Two(ax) = Two(w) /\ y1 = q1 + 1
      BY <1>13, <1>16, <2>2
    <2>4. Two(ax) < d => ~(Two(ax) >= d)
      <3> DEFINE tx == Two(ax)
      <3>1. tx \in Int /\ d \in Int
        <4>1. B * B \in Int
          BY ONLY <1>1
        <4> QED
          BY ONLY <1>1, <1>19, <4>1
      <3> HIDE DEF tx
      <3>2. tx < d => ~(tx >= d)
        BY ONLY <3>1
      <3> QED
        BY <3>2 DEF tx
    <2>5. (Two(ax) >= d => q9 = y1 + 1 /\ rem = Two(ax) - d) /\ (Two(ax) < d => q9 = y1 /\ rem = Two(ax))
      <3> HIDE DEF y1
      <3> QED
        BY <1>18, <2>4
    <2> HIDE DEF y1, q9, rem, r
    <2> QED
      BY ONLY <1>12, <2>1, <2>3, <2>5 DEF TwoCorrections
  <1>23. Division(B, d, (n2 * B + n1) * B + n0, q9, rem)
    <2> HIDE DEF y1, q9, rem, r
    <2> QED
      BY ONLY <1>2, <1>22, EstimateCorrects, Divisor(B, d1, d0, d, dinv, k), Dividend(B, d, n2, n1, n0)
  <1>24. q9 \in 0 .. B - 1
    BY ONLY <1>23 DEF Division
  <1>25. \A n \in 0 .. B - 1 : Wrap(n) = n
    BY LimbBase
  <1>26. big => Wrap(ay + 1) = q9
    <2> SUFFICES ASSUME big PROVE Wrap(ay + 1) = q9
      OBVIOUS
    <2>1. q9 = y1 + 1
      OBVIOUS
    <2>2. q1 + 1 \in 0 .. B - 1
      BY <1>1, <1>3, <1>24, <2>1
    <2>3. ay = y1
      <3>1. Wrap(q1 + 1) = q1 + 1
        BY ONLY <1>25, <2>2
      <3> QED
        BY <1>17, <3>1
    <2> HIDE DEF q9
    <2>4. Wrap(q9) = q9
      BY ONLY <1>24, <1>25
    <2> QED
      BY ONLY <2>1, <2>3, <2>4
  <1>27. ~big => ay = q9
    <2> SUFFICES ASSUME ~big PROVE ay = q9
      OBVIOUS
    <2>1. q9 = y1
      OBVIOUS
    <2>2. ~over => Wrap(q1 + 1) = q1 + 1
      <3> SUFFICES ASSUME ~over PROVE Wrap(q1 + 1) = q1 + 1
        OBVIOUS
      <3>1. q1 + 1 \in 0 .. B - 1
        BY <1>24, <2>1
      <3> QED
        BY ONLY <1>25, <3>1
    <2> QED
      BY <1>17, <2>1, <2>2
  <1>28. q9 \in Limb
    BY ONLY <1>1, <1>24
  <1> HIDE DEF y1, q9, t
  <1>29. CASE big
    <2>1. t = <<q9>> \o z
      BY ONLY <1>4, <1>26, <1>29
    <2>2. z = <<z[1], z[2]>> /\ z[1] \in Limb /\ z[2] \in Limb
      BY ONLY <1>20 DEF IsTwo
    <2>3. t = <<t[1], t[2], t[3]>> /\ t[1] = q9 /\ t[2] = z[1] /\ t[3] = z[2]
      BY ONLY <2>1, <2>2, Tripled
    <2>4. t[2] * B + t[3] = rem
      BY <1>21, <1>29, <2>3 DEF Two
    <2> QED
      BY ONLY <1>23, <1>28, <2>2, <2>3, <2>4 DEF IsThree, t
  <1>30. CASE ~big
    <2>1. t = <<q9>> \o ax
      BY ONLY <1>4, <1>27, <1>30
    <2>2. ax = <<ax[1], ax[2]>> /\ ax[1] \in Limb /\ ax[2] \in Limb
      BY ONLY <1>16 DEF IsTwo
    <2>3. t = <<t[1], t[2], t[3]>> /\ t[1] = q9 /\ t[2] = ax[1] /\ t[3] = ax[2]
      BY ONLY <2>1, <2>2, Tripled
    <2>4. t[2] * B + t[3] = rem
      BY <1>30, <2>3 DEF Two
    <2> QED
      BY ONLY <1>23, <1>28, <2>2, <2>3, <2>4 DEF IsThree, t
  <1> QED
    BY ONLY <1>29, <1>30

\* The high half of the inverse of u1.
LEMMA UpperHalf ==
  ASSUME NEW u1 \in Limb, B <= 2 * u1
  PROVE  /\ u1 \div H \in 1 .. H - 1 /\ u1 % H \in 0 .. H - 1 /\ u1 = H * (u1 \div H) + (u1 % H)
         /\ H <= 2 * (u1 \div H)
  <1> DEFINE uh == u1 \div H
             ul == u1 % H
  <1>1. /\ B \in Nat \ {0} /\ H \in Nat \ {0} /\ H >= 2 /\ B = H * H /\ u1 \in Nat /\ u1 <= B - 1
        /\ B <= 2 * u1
    <2>1. B \in Nat \ {0} /\ H \in Nat \ {0} /\ H >= 2 /\ B = H * H /\ Limb = 0 .. B - 1
      BY LimbsAre
    <2> QED
      BY ONLY <2>1, u1 \in Limb, B <= 2 * u1
  <1>2. uh \in 0 .. H - 1 /\ ul \in 0 .. H - 1 /\ u1 = H * uh + ul
    BY HalvesOf
  <1> HIDE DEF uh, ul
  <1>3. PICK g \in Nat : H = 2 * g
    <2>1. HalfBits \in Nat /\ HalfBits > 0 /\ H = Pow(2, HalfBits)
      BY LimbsAre
    <2> QED
      BY <2>1, TwoPow
  <1>4. H <= 2 * uh
    <2>1. ASSUME uh <= g - 1 PROVE FALSE
      <3>1. H * uh <= H * (g - 1)
        BY ONLY <1>1, <1>2, <2>1, ProductOrder
      <3>2. 2 * (H * (g - 1)) = B - 2 * H /\ H * (g - 1) \in Int /\ H * uh \in Int
        <4>1. H * (g - 1) \in Int /\ H * uh \in Int
          BY ONLY <1>1, <1>2
        <4>2. 2 * (H * (g - 1)) = H * (2 * g) - 2 * H
          BY ONLY <1>1
        <4>3. H * (2 * g) = H * H
          BY ONLY <1>3
        <4> QED
          BY ONLY <1>1, <4>1, <4>2, <4>3
      <3> DEFINE e == H * uh
                 f == H * (g - 1)
      <3>3. e <= f /\ e \in Int /\ f \in Int /\ 2 * f = B - 2 * H /\ u1 = e + ul
        BY ONLY <1>2, <3>1, <3>2
      <3> HIDE DEF e, f
      <3> QED
        BY ONLY <1>1, <1>2, <3>3
    <2> QED
      BY ONLY <1>2, <1>3, <2>1
  <1>5. uh \in 1 .. H - 1
    BY ONLY <1>1, <1>2, <1>4
  <1> QED
    BY ONLY <1>2, <1>4, <1>5 DEF uh, ul

LEMMA InvertHighIs ==
  ASSUME NEW u1 \in Limb, B <= 2 * u1
  PROVE  LET e == InvertHigh(u1, Com(u1) \div (u1 \div H)) IN
         e.q \in 0 .. H - 1 /\ e.r \in 0 .. u1 - 1 /\ (H + e.q) * u1 = H * B - 1 - e.r
  <1> DEFINE uh == u1 \div H
             ul == u1 % H
             c == Com(u1)
             qh == c \div uh
             rr == c % uh
  <1>1. /\ B \in Nat \ {0} /\ H \in Nat \ {0} /\ H >= 2 /\ B = H * H /\ u1 \in Nat /\ u1 <= B - 1
        /\ B <= 2 * u1
    <2>1. B \in Nat \ {0} /\ H \in Nat \ {0} /\ H >= 2 /\ B = H * H /\ Limb = 0 .. B - 1
      BY LimbsAre
    <2> QED
      BY ONLY <2>1, u1 \in Limb, B <= 2 * u1
  <1>2. uh \in 1 .. H - 1 /\ ul \in 0 .. H - 1 /\ u1 = H * uh + ul /\ H <= 2 * uh
    BY UpperHalf
  <1>3. c \in Nat /\ c = B - 1 - u1
    BY ONLY <1>1 DEF Com
  <1> HIDE DEF uh, ul, c
  <1>4. qh \in Nat /\ rr \in 0 .. uh - 1 /\ c = uh * qh + rr
    <2>1. uh \in Nat \ {0} /\ c \in Int
      BY ONLY <1>2, <1>3
    <2>2. qh \in Int /\ rr \in 0 .. uh - 1 /\ c = uh * qh + rr
      BY ONLY <2>1, DivMod
    <2>3. qh \in Nat
      <3> HIDE DEF qh, rr
      <3>1. uh * (-1) < uh * qh
        BY ONLY <1>3, <2>1, <2>2
      <3>2. -1 < qh
        <4>1. -1 \in Int /\ uh > 0 /\ uh \in Nat
          BY ONLY <2>1
        <4> QED
          BY ONLY <2>2, <3>1, <4>1, ProductOrder
      <3> QED
        BY ONLY <2>2, <3>2
    <2> QED
      BY <2>2, <2>3
  <1> HIDE DEF qh, rr
  <1>5. qh <= H - 1
    <2>1. ASSUME qh >= H PROVE FALSE
      <3>1. uh * H <= uh * qh /\ H * H <= H * (2 * uh)
        <4> DEFINE m == 2 * uh
        <4>1. m \in Int /\ H <= m /\ uh \in Nat
          BY ONLY <1>1, <1>2
        <4> HIDE DEF m
        <4>2. uh * H <= uh * qh /\ H * H <= H * m
          BY ONLY <1>1, <1>4, <2>1, <4>1, ProductOrder
        <4> QED
          BY <4>2 DEF m
      <3>2. H * (2 * uh) = 2 * (uh * H) /\ uh * H \in Int /\ uh * qh \in Int
        BY ONLY <1>1, <1>2, <1>4
      <3> DEFINE e == uh * H
                 f == uh * qh
      <3>3. e <= f /\ B <= 2 * e /\ e \in Int /\ f \in Int /\ f <= c
        BY ONLY <1>1, <1>2, <1>4, <3>1, <3>2
      <3> HIDE DEF e, f
      <3> QED
        BY ONLY <1>1, <1>3, <3>3
    <2> QED
      BY ONLY <1>1, <1>4, <2>1
  <1> DEFINE p == qh * ul
             r == rr * H + H - 1
  <1>6. p \in Nat /\ p <= B - 2 * H + 1
    <2>1. p \in Nat
      BY ONLY <1>1, <1>2, <1>4
    <2>2. qh * ul <= qh * (H - 1) /\ (H - 1) * qh <= (H - 1) * (H - 1)
      <3> DEFINE m == H - 1
      <3>1. m \in Nat /\ ul \in Int /\ ul <= m /\ qh <= m
        BY ONLY <1>1, <1>2, <1>5
      <3> HIDE DEF m
      <3>2. qh * ul <= qh * m /\ m * qh <= m * m
        BY ONLY <1>4, <3>1, ProductOrder
      <3> QED
        BY <3>2 DEF m
    <2>3. (H - 1) * (H - 1) = B - 2 * H + 1 /\ (H - 1) * qh = qh * (H - 1) /\ (H - 1) * qh \in Int
      BY ONLY <1>1, <1>4
    <2> HIDE DEF qh
    <2> QED
      BY ONLY <1>1, <2>1, <2>2, <2>3
  <1>7. r \in Nat /\ r <= u1 - 1 /\ r >= H - 1 /\ rr * H \in 0 .. B - H
    <2>1. H * rr <= H * (uh - 1) /\ H * rr >= 0 /\ H * (uh - 1) = H * uh - H /\ H * rr = rr * H
          /\ H * rr \in Int /\ H * uh \in Int
      <3>1. uh - 1 \in Int /\ rr \in Int /\ rr <= uh - 1 /\ rr >= 0
        BY ONLY <1>2, <1>4
      <3> DEFINE m == uh - 1
      <3>2. m \in Int /\ rr <= m
        BY ONLY <3>1
      <3> HIDE DEF m
      <3>3. H * rr <= H * m
        BY ONLY <1>1, <3>1, <3>2, ProductOrder
      <3>4. H * rr >= 0 /\ H * (uh - 1) = H * uh - H /\ H * rr = rr * H /\ H * rr \in Int /\ H * uh \in Int
        BY ONLY <1>1, <1>2, <3>1
      <3> QED
        BY ONLY <3>3, <3>4 DEF m
    <2> QED
      BY ONLY <1>1, <1>2, <2>1
  <1>8. (H + qh) * u1 = H * B - 1 - (r - p)
    <2>1. (H + qh) * u1 = H * u1 + qh * (H * uh) + p
      BY ONLY <1>1, <1>2, <1>4
    <2>2. qh * (H * uh) = H * (uh * qh) /\ uh * qh = c - rr
      BY ONLY <1>1, <1>2, <1>3, <1>4
    <2>3. H * (c - rr) = H * (B - 1 - u1) - rr * H
      BY ONLY <1>1, <1>2, <1>3, <1>4
    <2>4. H * (B - 1 - u1) = H * B - H - H * u1
      BY ONLY <1>1
    <2>5. H * u1 \in Int /\ rr * H \in Int /\ H * B \in Int
      BY ONLY <1>1, <1>2, <1>4
    <2> HIDE DEF p
    <2>6. (H + qh) * u1 = H * u1 + (H * B - H - H * u1 - rr * H) + p
      BY <2>1, <2>2, <2>3, <2>4
    <2> QED
      BY ONLY <1>1, <1>6, <2>5, <2>6
  <1> DEFINE rw == Wrap((c - qh * uh) * H) + H - 1
  <1>9. rw = r
    <2>1. (c - qh * uh) * H = rr * H
      <3>1. c - qh * uh = rr
        BY ONLY <1>2, <1>3, <1>4
      <3> QED
        BY <3>1
    <2>2. Wrap(rr * H) = rr * H
      <3> DEFINE m == rr * H
      <3>1. m \in 0 .. B - 1
        BY ONLY <1>1, <1>7
      <3> HIDE DEF m
      <3>2. Wrap(m) = m
        BY ONLY <3>1, LimbBase
      <3> QED
        BY <3>2 DEF m
    <2> QED
      BY <2>1, <2>2
  <1> DEFINE more == Wrap(r + u1)
             fix == IF r >= p THEN 0 ELSE IF more >= u1 /\ more < p THEN 2 ELSE 1
             e == InvertHigh(u1, c \div uh)
  <1>10. e.q = qh - fix /\ e.r = Wrap(r + fix * u1 - p)
    <2>1. e = [q |-> qh - fix, r |-> Wrap(r + fix * u1 - p)]
      <3>1. InvertHigh(u1, qh) = [q |-> qh - (IF rw >= p THEN 0 ELSE IF Wrap(rw + u1) >= u1 /\ Wrap(rw + u1) < p THEN 2 ELSE 1),
                                 r |-> Wrap(rw + (IF rw >= p THEN 0 ELSE IF Wrap(rw + u1) >= u1 /\ Wrap(rw + u1) < p THEN 2 ELSE 1) * u1 - p)]
        BY DEF InvertHigh, uh, ul, c
      <3> HIDE DEF rw, r, p
      <3>2. InvertHigh(u1, qh) = [q |-> qh - fix, r |-> Wrap(r + fix * u1 - p)]
        BY <1>9, <3>1
      <3> QED
        BY <3>2 DEF qh
    <2> HIDE DEF e, fix
    <2> QED
      BY ONLY <2>1
  <1> HIDE DEF p, r, rw, e
  <1>11. more = IF r + u1 < B THEN r + u1 ELSE (r + u1) - B
    <2>1. r + u1 \in Int /\ r + u1 >= 0 /\ r + u1 < 2 * B
      BY ONLY <1>1, <1>7
    <2>2. more = (r + u1) % B
      BY <2>1, LimbsAre
    <2> DEFINE a == r + u1
    <2>3. a \in Int /\ a >= 0 /\ a < 2 * B /\ more = a % B
      BY ONLY <2>1, <2>2
    <2> HIDE DEF a, more
    <2>4. more = IF a < B THEN a ELSE a - B
      BY ONLY <1>1, <2>3
    <2> QED
      BY ONLY <2>4 DEF a
  <1> HIDE DEF more
  <1>12. fix \in {0, 1, 2} /\ r + fix * u1 - p \in 0 .. u1 - 1
    <2>1. CASE r >= p
      BY ONLY <1>1, <1>6, <1>7, <2>1
    <2>2. CASE r < p /\ r + u1 >= B
      <3>1. ~(more >= u1)
        BY ONLY <1>1, <1>7, <1>11, <2>2
      <3>2. fix = 1
        BY ONLY <1>6, <1>7, <2>2, <3>1
      <3> HIDE DEF fix
      <3> QED
        BY ONLY <1>1, <1>6, <1>7, <2>2, <3>2
    <2>3. CASE r < p /\ r + u1 < B /\ r + u1 < p
      <3>1. more >= u1 /\ more < p
        BY ONLY <1>1, <1>7, <1>11, <2>3
      <3>2. fix = 2
        BY ONLY <1>6, <1>7, <2>3, <3>1
      <3> HIDE DEF fix
      <3> QED
        BY ONLY <1>1, <1>6, <1>7, <2>3, <3>2
    <2>4. CASE r < p /\ r + u1 < B /\ r + u1 >= p
      <3>1. ~(more < p)
        BY ONLY <1>1, <1>6, <1>7, <1>11, <2>4
      <3>2. fix = 1
        BY ONLY <1>6, <1>7, <2>4, <3>1
      <3> HIDE DEF fix
      <3> QED
        BY ONLY <1>1, <1>6, <1>7, <2>4, <3>2
    <2> QED
      BY ONLY <1>1, <1>6, <1>7, <2>1, <2>2, <2>3, <2>4
  <1> HIDE DEF fix
  <1> DEFINE r2 == r + fix * u1 - p
  <1>13. e.r = r2 /\ r2 \in 0 .. u1 - 1
    <2>1. r2 \in 0 .. B - 1 /\ r2 \in 0 .. u1 - 1
      BY ONLY <1>1, <1>12
    <2>2. e.r = Wrap(r2)
      BY <1>10
    <2> HIDE DEF r2
    <2>3. Wrap(r2) = r2
      BY ONLY <2>1, LimbBase
    <2> QED
      BY ONLY <2>1, <2>2, <2>3
  <1>14. (H + e.q) * u1 = H * B - 1 - r2
    <2>1. (H + (qh - fix)) * u1 = (H + qh) * u1 - fix * u1 /\ (H + qh) * u1 \in Int /\ fix * u1 \in Int /\ H * B \in Int
      BY ONLY <1>1, <1>4, <1>12
    <2>2. (H + (qh - fix)) * u1 = H * B - 1 - r2
      BY ONLY <1>1, <1>6, <1>7, <1>8, <2>1
    <2> QED
      BY <1>10, <2>2
  <1>15. e.q \in 0 .. H - 1
    <2> DEFINE z == qh - fix
    <2>1. z \in Int /\ z <= H - 1 /\ e.q = z
      BY ONLY <1>1, <1>4, <1>5, <1>10, <1>12
    <2> HIDE DEF z, r2
    <2>2. (H + z) * u1 = H * B - 1 - r2
      BY <1>14, <2>1
    <2>3. z >= 0
      <3>1. ASSUME z <= -1 PROVE FALSE
        <4>1. u1 * (H + z) <= u1 * (H - 1)
          <5> DEFINE m == H + z
                     n == H - 1
          <5>1. m \in Int /\ n \in Int /\ m <= n
            BY ONLY <1>1, <2>1, <3>1
          <5> HIDE DEF m, n
          <5>2. u1 * m <= u1 * n
            BY ONLY <1>1, <5>1, ProductOrder
          <5> QED
            BY <5>2 DEF m, n
        <4>2. u1 * (H - 1) = H * u1 - u1 /\ u1 * (H + z) = (H + z) * u1 /\ H * u1 \in Int /\ H * B \in Int
              /\ u1 * (H + z) \in Int
          BY ONLY <1>1, <2>1
        <4>3. H * u1 <= H * (B - 1) /\ H * (B - 1) = H * B - H
          <5>1. B - 1 \in Int
            BY ONLY <1>1
          <5> QED
            BY ONLY <1>1, <5>1, ProductOrder
        <4>4. r2 \in Int /\ r2 <= u1 - 1
          BY ONLY <1>1, <1>13
        <4> QED
          BY ONLY <1>1, <2>2, <4>1, <4>2, <4>3, <4>4
      <3> QED
        BY ONLY <2>1, <3>1
    <2>4. z \in 0 .. H - 1
      BY ONLY <1>1, <2>1, <2>3
    <2> QED
      BY ONLY <2>1, <2>4
  <1> HIDE DEF r2
  <1> QED
    BY ONLY <1>13, <1>14, <1>15 DEF e, c, uh

\* The low half, and so the inverse of u1.
LEMMA InvertLowIs ==
  ASSUME NEW u1 \in Limb, B <= 2 * u1, NEW e, e.q \in 0 .. H - 1, e.r \in 0 .. u1 - 1,
         (H + e.q) * u1 = H * B - 1 - e.r
  PROVE  LET f == InvertLow(u1, e) IN
         f.q \in Limb /\ f.r \in 0 .. u1 - 1 /\ (B + f.q) * u1 = B * B - 1 - f.r
  <1> DEFINE uh == u1 \div H
             ul == u1 % H
             qh == e.q
             r1 == e.r
             rh == r1 \div H
             rl == r1 % H
             T == (H + qh) * rh + rl
             m1 == T \div H
             m0 == T % H
             R == (rh * H + rl) * H + (H - 1) - (m1 + 1) * u1
  <1>1. /\ B \in Nat \ {0} /\ H \in Nat \ {0} /\ H >= 2 /\ B = H * H /\ u1 \in Nat /\ u1 <= B - 1
        /\ B <= 2 * u1 /\ Limb = 0 .. B - 1
    <2>1. B \in Nat \ {0} /\ H \in Nat \ {0} /\ H >= 2 /\ B = H * H /\ Limb = 0 .. B - 1
      BY LimbsAre
    <2> QED
      BY ONLY <2>1, u1 \in Limb, B <= 2 * u1
  <1>2. uh \in 1 .. H - 1 /\ ul \in 0 .. H - 1 /\ u1 = H * uh + ul
    BY UpperHalf
  <1>3. qh \in 0 .. H - 1 /\ r1 \in 0 .. u1 - 1 /\ (H + qh) * u1 = H * B - 1 - r1
    OBVIOUS
  <1> HIDE DEF uh, ul, qh, r1
  <1>4. rh \in 0 .. H - 1 /\ rl \in 0 .. H - 1 /\ r1 = H * rh + rl
    <2>1. r1 \in Limb
      BY ONLY <1>1, <1>3
    <2> QED
      BY ONLY <2>1, HalvesOf
  <1> HIDE DEF rh, rl
  <1> DEFINE k == r1 + 1
  <1>5. Divisor(H, uh, ul, u1, qh, k)
    <2>1. (H + qh) * u1 = H * H * H - k
      <3>1. H * B = H * H * H /\ H * B \in Int
        BY ONLY <1>1
      <3> QED
        BY ONLY <1>1, <1>3, <3>1
    <2>2. k \in Nat /\ 1 <= k /\ k <= u1 /\ uh \in 0 .. H - 1 /\ u1 = uh * H + ul /\ H * H <= 2 * u1
          /\ H \in Nat /\ qh \in Nat
      BY ONLY <1>1, <1>2, <1>3
    <2> HIDE DEF k
    <2> QED
      BY ONLY <1>1, <1>2, <2>1, <2>2 DEF Divisor
  <1>6. Dividend(H, u1, rh, rl, H - 1)
    <2>1. H - 1 \in 0 .. H - 1 /\ rh * H + rl < u1
      BY ONLY <1>1, <1>3, <1>4
    <2> QED
      BY ONLY <1>4, <2>1 DEF Dividend
  <1>7. T \in 0 .. H * H - 1 /\ Estimated(H, u1, qh, rh, rl, H - 1, m1, m0, R)
    <2> DEFINE u0 == H - 1
    <2>1. Dividend(H, u1, rh, rl, u0)
      BY <1>6
    <2> HIDE DEF u0, k
    <2>2. T \in 0 .. H * H - 1 /\ Estimated(H, u1, qh, rh, rl, u0, m1, m0, (rh * H + rl) * H + u0 - (m1 + 1) * u1)
      BY ONLY <1>5, <2>1, EstimateIs
    <2> QED
      BY ONLY <2>2 DEF u0
  <1>8. m1 \in 0 .. H - 1 /\ m0 \in 0 .. H - 1 /\ T = H * m1 + m0 /\ T \in 0 .. B - 1
    <2> DEFINE u0 == H - 1
    <2>1. Dividend(H, u1, rh, rl, u0) /\ Estimated(H, u1, qh, rh, rl, u0, m1, m0, R)
      BY ONLY <1>6, <1>7 DEF u0
    <2> HIDE DEF u0, k, m1, m0, R
    <2>2. m1 \in 0 .. H - 1
      BY ONLY <1>5, <2>1, EstimateBelow
    <2>3. T \in 0 .. B - 1 /\ T \in Int
      BY ONLY <1>1, <1>7
    <2> HIDE DEF T
    <2>4. m0 \in 0 .. H - 1 /\ T = H * m1 + m0
      BY ONLY <1>1, <2>3, DivMod DEF m1, m0
    <2> QED
      BY ONLY <2>2, <2>3, <2>4
  <1> DEFINE p == Wrap(rh * qh + r1)
             ql0 == p \div H + 1
             r2 == Wrap(Wrap(r1 * H) + H - 1 - ql0 * u1)
             low == r2 >= Wrap(p * H)
             r3 == IF low THEN Wrap(r2 + u1) ELSE r2
             qf == Wrap(qh * H + ql0 - Bit(low) + Bit(r3 >= u1))
             rf == IF r3 >= u1 THEN r3 - u1 ELSE r3
             f == InvertLow(u1, e)
  <1>9. f.q = qf /\ f.r = rf
    <2>1. f = [q |-> qf, r |-> rf]
      BY DEF InvertLow, rh, qh, r1
    <2> HIDE DEF f, qf, rf
    <2> QED
      BY ONLY <2>1
  <1> HIDE DEF f
  <1>10. p = T
    <2>1. rh * qh + r1 = T
      BY ONLY <1>1, <1>3, <1>4
    <2> HIDE DEF T
    <2>2. Wrap(T) = T
      BY ONLY <1>8, LimbBase
    <2> QED
      BY ONLY <2>1, <2>2
  <1>11. ql0 = m1 + 1
    BY <1>10
  <1> HIDE DEF p, T, ql0, m1, m0
  <1>12. r2 = R % B
    <2>1. Wrap(r1 * H) = (r1 * H) % B
      <3>1. r1 * H \in Int
        BY ONLY <1>1, <1>3
      <3> QED
        BY ONLY <3>1, LimbsAre
    <2> DEFINE w == (r1 * H) % B
               z == (r1 * H) \div B
    <2>2. w \in Int /\ z \in Int /\ r1 * H = B * z + w
      <3> DEFINE a == r1 * H
      <3>1. a \in Int
        BY ONLY <1>1, <1>3
      <3> HIDE DEF a
      <3>2. a \div B \in Int /\ a % B \in 0 .. B - 1 /\ a = B * (a \div B) + (a % B)
        BY ONLY <1>1, <3>1, DivMod
      <3>3. a % B \in Int
        BY ONLY <1>1, <3>2
      <3> QED
        BY ONLY <3>2, <3>3 DEF a
    <2> HIDE DEF w, z
    <2>3. (m1 + 1) * u1 \in Int
      BY ONLY <1>1, <1>8
    <2> DEFINE ax == w + H - 1 - (m1 + 1) * u1
    <2>4. ax \in Int /\ R = ax + B * z
      <3>1. rh * H + rl = r1
        BY ONLY <1>1, <1>4
      <3>2. R = r1 * H + (H - 1) - (m1 + 1) * u1
        BY <3>1
      <3>3. r1 * H \in Int /\ B * z \in Int
        BY ONLY <1>1, <1>3, <2>2
      <3> DEFINE a == r1 * H
                 c == B * z
                 g == (m1 + 1) * u1
      <3>4. a \in Int /\ c \in Int /\ g \in Int /\ a = c + w /\ R = a + (H - 1) - g /\ ax = w + H - 1 - g
        BY ONLY <2>2, <2>3, <3>2, <3>3
      <3> HIDE DEF R, ax, a, c, g
      <3>5. ax \in Int /\ R = ax + c
        BY ONLY <1>1, <2>2, <3>4
      <3> QED
        BY ONLY <3>5 DEF c
    <2>5. r2 = Wrap(ax)
      BY <1>11, <2>1 DEF w
    <2> HIDE DEF ax, R, r2
    <2>6. Wrap(ax) = ax % B
      BY <2>4, LimbsAre
    <2> QED
      BY ONLY <1>1, <2>2, <2>4, <2>5, <2>6, ModAddMultiple
  <1>13. r2 \in 0 .. B - 1 /\ R \in Int
    <2>1. R \in Int
      BY ONLY <1>1, <1>4, <1>8
    <2> HIDE DEF R, r2
    <2> QED
      BY ONLY <1>1, <1>12, <2>1, DivMod
  <1>14. Wrap(p * H) = m0 * H
    <2>1. p * H = B * m1 + m0 * H /\ m0 * H \in 0 .. B - 1 /\ p * H \in Int
      <3>1. (H * m1 + m0) * H = B * m1 + m0 * H
        BY ONLY <1>1, <1>8
      <3>2. H * m0 <= H * (H - 1) /\ H * (H - 1) = B - H /\ H * m0 = m0 * H /\ m0 * H >= 0 /\ H * m0 \in Int
        BY ONLY <1>1, <1>8, ProductOrder
      <3>3. p * H \in Int
        BY ONLY <1>1, <1>8, <1>10
      <3> QED
        BY ONLY <1>1, <1>8, <1>10, <3>1, <3>2, <3>3
    <2> DEFINE a == p * H
               c == m0 * H
    <2>2. a = B * m1 + c /\ c \in 0 .. B - 1 /\ a \in Int /\ m1 \in Int
      BY ONLY <1>8, <2>1
    <2> HIDE DEF a, c
    <2>3. a % B = c
      BY ONLY <1>1, <2>2, DivisionIs
    <2>4. Wrap(a) = a % B
      BY <2>2, LimbsAre
    <2> QED
      BY <2>3, <2>4 DEF a, c
  <1>15. low <=> r2 >= m0 * H
    BY <1>14
  <1> HIDE DEF low, r2, R
  <1>16. low => r3 = (r2 + u1) % B
    <2>1. r2 + u1 \in Int
      BY ONLY <1>1, <1>13
    <2> QED
      BY <2>1, LimbsAre
  <1>17. ~low => r3 = r2
    OBVIOUS
  <1>18. r3 \in 0 .. B - 1
    <2> DEFINE a == r2 + u1
    <2>1. a \in Int
      BY ONLY <1>1, <1>13
    <2> HIDE DEF a
    <2>2. a % B \in 0 .. B - 1
      BY ONLY <1>1, <2>1, DivMod
    <2> QED
      BY <1>13, <1>16, <1>17, <2>2 DEF a
  <1> DEFINE ay == IF low THEN m1 ELSE m1 + 1
             q == IF r3 >= u1 THEN ay + 1 ELSE ay
  <1>19. qf = Wrap(qh * H + q) /\ ay \in Int
    <2>1. qh * H + ql0 - Bit(low) + Bit(r3 >= u1) = qh * H + q
      <3> DEFINE a == qh * H
                 big == r3 >= u1
      <3>1. a \in Int /\ m1 \in Int
        BY ONLY <1>1, <1>3, <1>8
      <3> HIDE DEF a, big
      <3>2. (low => Bit(low) = 1) /\ (~low => Bit(low) = 0) /\ (big => Bit(big) = 1) /\ (~big => Bit(big) = 0)
        BY DEF Bit
      <3>3. (low => ay = m1) /\ (~low => ay = m1 + 1) /\ (big => q = ay + 1) /\ (~big => q = ay)
        BY DEF big
      <3> HIDE DEF ay, q
      <3>4. a + ql0 - Bit(low) + Bit(big) = a + q
        BY ONLY <1>11, <3>1, <3>2, <3>3
      <3> QED
        BY ONLY <3>4 DEF a, big
    <2>2. ay \in Int
      BY <1>8
    <2> QED
      BY <2>1, <2>2
  <1> HIDE DEF r3, qf
  <1>20. TwoCorrections(H, u1, m1, m0, R, r2, r3, ay, q, rf)
    <2>1. r2 = R % (H * H)
      BY ONLY <1>1, <1>12
    <2>2. r2 >= m0 * H => r3 = (r2 + u1) % (H * H) /\ ay = m1
      BY <1>1, <1>15, <1>16
    <2>3. r2 < m0 * H => ~(r2 >= m0 * H)
      BY ONLY <1>1, <1>8, <1>13
    <2>4. r2 < m0 * H => r3 = r2 /\ ay = m1 + 1
      BY <1>15, <1>17, <2>3
    <2>5. r3 < u1 => ~(r3 >= u1)
      BY ONLY <1>1, <1>18
    <2>6. (r3 >= u1 => q = ay + 1 /\ rf = r3 - u1) /\ (r3 < u1 => q = ay /\ rf = r3)
      <3> HIDE DEF ay
      <3> QED
        BY <2>5
    <2> HIDE DEF ay, q, rf
    <2> QED
      BY ONLY <2>1, <2>2, <2>4, <2>6 DEF TwoCorrections
  <1>21. Division(H, u1, (rh * H + rl) * H + (H - 1), q, rf)
    <2> DEFINE u0 == H - 1
    <2>1. Dividend(H, u1, rh, rl, u0) /\ Estimated(H, u1, qh, rh, rl, u0, m1, m0, R)
      <3>1. Estimated(H, u1, qh, rh, rl, u0, m1, m0, R)
        BY ONLY <1>7 DEF m1, m0, R, u0
      <3> QED
        BY ONLY <1>6, <3>1 DEF u0
    <2> HIDE DEF u0, k, ay, q, rf
    <2>2. Division(H, u1, (rh * H + rl) * H + u0, q, rf)
      BY ONLY <1>5, <1>20, <2>1, EstimateCorrects
    <2> QED
      BY ONLY <2>2 DEF u0
  <1> HIDE DEF q, rf, ay
  <1>22. q \in 0 .. H - 1 /\ rf \in 0 .. u1 - 1 /\ r1 * H + (H - 1) = q * u1 + rf
    <2>1. rh * H + rl = r1
      BY ONLY <1>1, <1>4
    <2> QED
      BY ONLY <1>21, <2>1 DEF Division
  <1>23. qf = qh * H + q /\ qf \in Limb
    <2> DEFINE a == qh * H + q
    <2>1. a \in 0 .. B - 1
      <3>1. H * qh <= H * (H - 1) /\ H * (H - 1) = B - H /\ H * qh = qh * H /\ H * qh \in Nat
        BY ONLY <1>1, <1>3, ProductOrder
      <3> QED
        BY ONLY <1>1, <1>3, <1>22, <3>1
    <2> HIDE DEF a
    <2>2. Wrap(a) = a
      BY ONLY <2>1, LimbBase
    <2>3. qf = a
      BY <1>19, <2>2 DEF a
    <2> QED
      BY ONLY <1>1, <2>1, <2>3 DEF a
  <1>24. (B + qf) * u1 = B * B - 1 - rf
    <2>1. (B + (qh * H + q)) * u1 = H * ((H + qh) * u1) + q * u1
      BY ONLY <1>1, <1>3, <1>22
    <2>2. H * (H * B - 1 - r1) = B * B - H - r1 * H
      BY ONLY <1>1, <1>3
    <2>3. (B + qf) * u1 = (B * B - H - r1 * H) + q * u1
      BY <1>3, <1>23, <2>1, <2>2
    <2>4. B * B \in Int /\ r1 * H \in Int /\ q * u1 \in Int
      BY ONLY <1>1, <1>3, <1>22
    <2> DEFINE a == B * B
               c == r1 * H
               g == q * u1
               z == (B + qf) * u1
    <2>5. a \in Int /\ c \in Int /\ g \in Int /\ z = (a - H - c) + g /\ c + (H - 1) = g + rf
      BY ONLY <1>22, <2>3, <2>4
    <2> HIDE DEF a, c, g, z
    <2>6. rf \in Int
      BY ONLY <1>1, <1>22
    <2>7. z = a - 1 - rf
      BY ONLY <1>1, <2>5, <2>6
    <2> QED
      BY ONLY <2>7 DEF a, z
  <1> QED
    BY ONLY <1>9, <1>22, <1>23, <1>24 DEF f

LEMMA InverseFits ==
  ASSUME NEW u1 \in Limb, NEW u0 \in Limb, NEW V \in Int, NEW S \in Int,
         (B + V) * (u1 * B + u0) = B * B * B - 1 - S, S <= u1 * B + u0 - 1 + u0
  PROVE  V >= 0
  <1> DEFINE d == u1 * B + u0
             c == B * B * B
  <1>1. B \in Nat \ {0} /\ B >= 4 /\ u1 \in 0 .. B - 1 /\ u0 \in 0 .. B - 1
    BY LimbsAre, LimbIs
  <1>2. d \in Nat /\ B * d <= c - B /\ c \in Int /\ (B + V) * d = c - 1 - S /\ S <= d - 1 + u0
    <2>1. B * u1 <= B * (B - 1) /\ B * (B - 1) = B * B - B /\ B * u1 = u1 * B /\ u1 * B \in Nat
      BY ONLY <1>1, ProductOrder
    <2>2. B * B \in Nat
      BY ONLY <1>1
    <2>3. d <= B * B - 1 /\ d \in Nat
      BY ONLY <1>1, <2>1, <2>2
    <2> DEFINE e == B * B - 1
    <2>4. d <= e /\ e \in Int /\ B * e = c - B /\ c \in Int
      BY ONLY <1>1, <2>2, <2>3
    <2>5. (B + V) * d = c - 1 - S /\ S <= d - 1 + u0
      <3>1. u1 * B + u0 - 1 + u0 = d - 1 + u0
        BY ONLY <1>1, <2>1
      <3> QED
        BY <3>1
    <2> HIDE DEF d, e, c
    <2>6. B * d <= B * e
      BY ONLY <1>1, <2>3, <2>4, ProductOrder
    <2> QED
      BY ONLY <2>3, <2>4, <2>5, <2>6
  <1> HIDE DEF d, c
  <1>3. ASSUME V <= -1 PROVE FALSE
    <2>1. d * (B + V) <= d * (B - 1)
      <3> DEFINE ax == B + V
                 ay == B - 1
      <3>1. ax \in Int /\ ay \in Int /\ ax <= ay
        BY ONLY <1>1, <1>3, V \in Int
      <3> HIDE DEF ax, ay
      <3>2. d * ax <= d * ay
        BY ONLY <1>2, <3>1, ProductOrder
      <3> QED
        BY <3>2 DEF ax, ay
    <2>2. d * (B - 1) = B * d - d /\ d * (B + V) = (B + V) * d /\ B * d \in Int
      BY ONLY <1>1, <1>2, V \in Int
    <2> QED
      BY ONLY <1>1, <1>2, <2>1, <2>2, S \in Int
  <1> QED
    BY <1>3

LEMMA NoPower ==
  ASSUME NEW u1 \in Limb, NEW u0 \in Limb, B <= 2 * u1, u0 # 0, NEW c \in Int,
         c * (u1 * B + u0) = B * B * B
  PROVE  FALSE
  <1> DEFINE d == u1 * B + u0
             L == LimbBits
             M == L + L
  <1>1. /\ B \in Nat \ {0} /\ B >= 4 /\ u1 \in 0 .. B - 1 /\ u0 \in 0 .. B - 1 /\ L \in Nat \ {0}
        /\ HighBit \in Nat /\ B = 2 * HighBit /\ B = Pow(2, L) /\ HighBit <= u1
    <2>1. /\ B \in Nat \ {0} /\ B >= 4 /\ L \in Nat \ {0} /\ HighBit \in Nat /\ B = 2 * HighBit /\ B = Pow(2, L)
      BY LimbsAre
    <2>2. u1 \in 0 .. B - 1 /\ u0 \in 0 .. B - 1
      BY LimbIs
    <2>3. HighBit <= u1
      BY ONLY <2>1, <2>2, B <= 2 * u1
    <2> QED
      BY ONLY <2>1, <2>2, <2>3
  <1>2. d \in Nat /\ HighBit * B <= d /\ d < B * B /\ d > 0
    <2>1. B * HighBit <= B * u1 /\ B * u1 <= B * (B - 1)
      BY ONLY <1>1, ProductOrder
    <2>2. B * (B - 1) = B * B - B /\ B * u1 = u1 * B /\ B * HighBit = HighBit * B
          /\ u1 * B \in Int /\ B * B \in Int /\ HighBit * B \in Nat /\ HighBit * B > 0
      BY ONLY <1>1
    <2> QED
      BY ONLY <1>1, <2>1, <2>2
  <1> HIDE DEF d, L
  <1>3. B * B = Pow(2, M) /\ M \in Nat /\ M + L \in Nat /\ B * B * B = Pow(2, M + L)
    <2>1. M \in Nat /\ L \in Nat /\ M + L \in Nat
      BY ONLY <1>1
    <2>2. Pow(2, M) = Pow(2, L) * Pow(2, L)
      BY ONLY <2>1, TwoSum
    <2> HIDE DEF M
    <2>3. Pow(2, M + L) = Pow(2, M) * Pow(2, L)
      BY ONLY <2>1, TwoSum
    <2> QED
      BY ONLY <1>1, <2>1, <2>2, <2>3
  <1> DEFINE N == M + L
  <1>4. c \in Nat
    <2>1. c * d = B * B * B
      BY DEF d
    <2>2. B * B * B > 0
      BY ONLY <1>1
    <2>3. d * 0 < d * c
      BY ONLY <1>2, <2>1, <2>2
    <2>4. 0 < c
      <3>1. d > 0 /\ 0 \in Int
        BY ONLY <1>2
      <3> QED
        BY ONLY <1>2, <2>3, <3>1, ProductOrder
    <2> QED
      BY <2>4
  <1>5. PICK j \in 0 .. N : d = Pow(2, j)
    <2>1. N \in Nat /\ c * d = Pow(2, N)
      BY <1>3 DEF d
    <2> HIDE DEF N
    <2> QED
      BY ONLY <1>2, <1>4, <2>1, DivisorsOfPower
  <1>6. M - 1 \in Nat /\ Pow(2, M) = 2 * Pow(2, M - 1) /\ M \in Nat /\ Pow(2, M - 1) \in Nat
    <2>1. M \in Nat /\ M > 0
      BY ONLY <1>1
    <2> HIDE DEF M
    <2> QED
      BY ONLY <2>1, TwoPow
  <1> HIDE DEF M
  <1>7. Pow(2, M - 1) = HighBit * B
    <2>1. 2 * (HighBit * B) = B * B /\ HighBit * B \in Int
      <3>1. 2 * (HighBit * B) = (2 * HighBit) * B /\ HighBit * B \in Int
        BY ONLY <1>1
      <3>2. (2 * HighBit) * B = B * B
        BY ONLY <1>1
      <3> QED
        BY ONLY <3>1, <3>2
    <2> DEFINE e == HighBit * B
               p == Pow(2, M - 1)
    <2>2. 2 * e = 2 * p /\ e \in Int /\ p \in Int
      BY <1>3, <1>6, <2>1
    <2> HIDE DEF e, p
    <2>3. p = e
      BY ONLY <2>2
    <2> QED
      BY <2>3 DEF e, p
  <1>8. j \in Nat /\ 2 \in Nat \ {0}
    BY <1>5
  <1>9. j < M
    <2>1. ASSUME M <= j PROVE FALSE
      <3>1. Pow(2, M) <= Pow(2, j)
        BY ONLY <1>3, <1>8, <2>1, PowGrows
      <3> QED
        <4> DEFINE p == Pow(2, M)
        <4>1. p = B * B /\ p <= d /\ d < B * B
          BY ONLY <1>2, <1>3, <1>5, <3>1
        <4>2. B * B \in Int
          BY ONLY <1>1
        <4> QED
          BY ONLY <1>2, <4>1, <4>2
    <2> QED
      BY ONLY <1>3, <1>8, <2>1
  <1>10. j >= M - 1
    <2>1. ASSUME j + 1 <= M - 1 PROVE FALSE
      <3>1. j + 1 \in Nat /\ Pow(2, j + 1) = 2 * Pow(2, j)
        BY <1>8, TwoPow
      <3>2. Pow(2, j + 1) <= Pow(2, M - 1)
        <4> DEFINE a == j + 1
                   e == M - 1
        <4>1. a \in Nat /\ e \in Nat /\ a <= e
          BY ONLY <1>6, <2>1, <3>1
        <4> HIDE DEF a, e
        <4>2. Pow(2, a) <= Pow(2, e)
          BY ONLY <1>8, <4>1, PowGrows
        <4> QED
          BY <4>2 DEF a, e
      <3>3. 2 * d <= HighBit * B
        BY ONLY <1>5, <1>7, <3>1, <3>2
      <3>4. HighBit * B \in Int
        BY ONLY <1>1
      <3> QED
        BY ONLY <1>2, <3>3, <3>4
    <2> QED
      BY ONLY <1>6, <1>8, <2>1
  <1>11. d = HighBit * B
    <2>1. j = M - 1
      BY ONLY <1>3, <1>6, <1>8, <1>9, <1>10
    <2> QED
      BY ONLY <1>5, <1>7, <2>1
  <1>12. u0 = 0
    <2>1. d = B * u1 + u0 /\ d = B * HighBit + 0 /\ 0 \in 0 .. B - 1 /\ u1 \in Int /\ HighBit \in Int
      BY ONLY <1>1, <1>11 DEF d
    <2>2. d % B = u0
      BY ONLY <1>1, <2>1, DivisionIs
    <2>3. d % B = 0
      BY ONLY <1>1, <2>1, DivisionIs
    <2> QED
      BY <2>2, <2>3
  <1> QED
    BY <1>12, u0 # 0

LEMMA InvertBothIs ==
  ASSUME NEW u1 \in Limb, NEW u0 \in Limb, B <= 2 * u1, u0 # 0, NEW m \in Limb, NEW r0 \in 0 .. u1 - 1,
         (B + m) * u1 = B * B - 1 - r0
  PROVE  LET v == InvertBoth(u1, u0, m, Wrap(Com(r0) + u0)) IN
         v \in Limb /\ \E s \in 0 .. (u1 * B + u0) - 1 : (B + v) * (u1 * B + u0) = B * B * B - 1 - s
  <1> DEFINE d == u1 * B + u0
             rho == (B - 1 - r0) + u0
             rw == Wrap(Com(r0) + u0)
             less == IF rw >= u0 THEN 0 ELSE IF rw >= u1 THEN 2 ELSE 1
             q == Wrap(m - less)
             rx == Wrap(rw - less * u1)
             t == gmp_umul_ppmm(u0, q)
             rr == Wrap(rx + t[1])
             ge == rr > u1 \/ (rr = u1 /\ t[2] > u0)
             v == InvertBoth(u1, u0, m, rw)
             b2 == B * B
             b3 == B * B * B
  <1>1. /\ B \in Nat \ {0} /\ B >= 4 /\ u1 \in Nat /\ u1 <= B - 1 /\ u0 \in Nat /\ u0 <= B - 1 /\ u0 >= 1
        /\ B <= 2 * u1 /\ m \in Nat /\ m <= B - 1 /\ r0 \in Nat /\ r0 <= u1 - 1 /\ Limb = 0 .. B - 1
        /\ b2 \in Nat /\ b3 \in Nat /\ d \in Nat /\ u1 * B \in Nat
    <2>1. B \in Nat \ {0} /\ B >= 4 /\ Limb = 0 .. B - 1
      BY LimbsAre
    <2>2. /\ u1 \in Nat /\ u1 <= B - 1 /\ u0 \in Nat /\ u0 <= B - 1 /\ u0 >= 1
          /\ m \in Nat /\ m <= B - 1 /\ r0 \in Nat /\ r0 <= u1 - 1
      BY ONLY <2>1, u0 # 0, u1 \in Limb, u0 \in Limb, m \in Limb, r0 \in 0 .. u1 - 1
    <2> QED
      BY ONLY <2>1, <2>2, B <= 2 * u1
  <1>2. v = IF rr < t[1] THEN Wrap(q - 1 - Bit(ge)) ELSE q
    BY DEF InvertBoth, InvertTimes, InvertMinus
  <1> HIDE DEF v
  <1>3. rw = IF rho < B THEN rho ELSE rho - B
    <2>1. rho \in Int /\ rho >= 0 /\ rho < 2 * B
      BY ONLY <1>1
    <2>2. rw = rho % B
      <3>1. Com(r0) + u0 = rho
        BY DEF Com
      <3> QED
        BY <2>1, <3>1, LimbsAre
    <2> HIDE DEF rho, rw
    <2> QED
      BY ONLY <1>1, <2>1, <2>2
  <1>4. rho \in Int /\ rho >= B - u1 + u0 /\ rho <= B - 1 + u0
    BY ONLY <1>1
  <1>r. rho = (B - 1 - r0) + u0
    OBVIOUS
  <1> HIDE DEF rw
  <1>5. less \in {0, 1, 2} /\ rho - less * u1 >= B - u1 /\ rho - less * u1 <= B - 1
    <2>1. CASE rho < B
      <3>1. rw >= u0
        BY ONLY <1>1, <1>3, <1>r, <2>1
      <3>2. less = 0
        BY <3>1
      <3> HIDE DEF less, rho
      <3> QED
        BY ONLY <1>1, <1>4, <2>1, <3>2
    <2>2. CASE rho >= B
      <3>1. ~(rw >= u0) /\ rw = rho - B
        BY ONLY <1>1, <1>3, <1>r, <2>2
      <3>2. CASE rw >= u1
        <4>1. less = 2
          BY <3>1, <3>2
        <4> HIDE DEF less, rho
        <4> QED
          BY ONLY <1>1, <1>4, <3>1, <3>2, <4>1
      <3>3. CASE ~(rw >= u1)
        <4>1. less = 1
          BY <3>1, <3>3
        <4> HIDE DEF less, rho
        <4>2. rw \in Int
          BY ONLY <1>1, <1>4, <3>1
        <4> QED
          BY ONLY <1>1, <1>4, <2>2, <3>1, <3>3, <4>1, <4>2
      <3> QED
        BY ONLY <3>2, <3>3
    <2> QED
      BY ONLY <1>1, <1>4, <2>1, <2>2
  <1> HIDE DEF less
  <1> DEFINE r1 == rho - less * u1
             m1 == m - less
             s1 == b2 - 1 - B * r1 - m1 * u0
  <1>6. r1 \in 0 .. B - 1 /\ r1 >= B - u1 /\ m1 \in Int /\ m1 >= -2 /\ m1 <= B - 1
    BY ONLY <1>1, <1>4, <1>5
  <1>7. rx = r1
    <2>1. \E a \in {0, 1} : rw = rho - B * a
      BY ONLY <1>1, <1>3, <1>4
    <2>2. PICK a \in {0, 1} : rw = rho - B * a
      BY ONLY <2>1
    <2>3. rw - less * u1 = B * (-a) + r1 /\ -a \in Int /\ rw - less * u1 \in Int
      BY ONLY <1>1, <1>4, <1>5, <2>2, a \in {0, 1}
    <2> DEFINE ax == rw - less * u1
               z == -a
    <2>4. ax = B * z + r1 /\ z \in Int /\ ax \in Int /\ rx = Wrap(ax)
      BY ONLY <2>3
    <2> HIDE DEF ax, z, r1, rx
    <2>5. ax % B = r1
      BY ONLY <1>1, <1>6, <2>4, DivisionIs
    <2> QED
      BY <2>4, <2>5, LimbsAre
  <1> HIDE DEF rx
  <1>8. (B + m1) * d = b3 - 1 - s1
    <2>1. (B + m) * d = ((B + m) * u1) * B + (B + m) * u0
      BY ONLY <1>1
    <2>2. ((B + m) * u1) * B = b3 - B - B * r0
      <3>1. (B * B - 1 - r0) * B = B * B * B - B - B * r0
        BY ONLY <1>1
      <3> QED
        BY ONLY <3>1, (B + m) * u1 = B * B - 1 - r0
    <2>3. (B + m1) * d = (B + m) * d - less * (u1 * B) - less * u0
      BY ONLY <1>1, <1>5
    <2>4. B * r1 = b2 - B - B * r0 + B * u0 - less * (u1 * B)
      <3>1. r1 = (B - 1 - r0 + u0) - less * u1
        BY ONLY <1>1, <1>5, <1>r
      <3>2. B * ((B - 1 - r0 + u0) - less * u1) = b2 - B - B * r0 + B * u0 - less * (u1 * B)
        BY ONLY <1>1, <1>5
      <3> QED
        BY ONLY <3>1, <3>2
    <2>5. m1 * u0 = m * u0 - less * u0 /\ (B + m) * u0 = B * u0 + m * u0
      BY ONLY <1>1, <1>5
    <2>6. /\ B * r0 \in Int /\ less * (u1 * B) \in Int /\ less * u0 \in Int /\ B * u0 \in Int
          /\ m * u0 \in Int
      BY ONLY <1>1, <1>5
    <2> DEFINE e1 == B * r0
               e2 == less * (u1 * B)
               e3 == less * u0
               e4 == B * u0
               e5 == m * u0
               e6 == B * r1
               e7 == m1 * u0
               e8 == (B + m1) * d
    <2>7. /\ e8 = (b3 - B - e1) + (e4 + e5) - e2 - e3
          /\ e6 = b2 - B - e1 + e4 - e2 /\ e7 = e5 - e3 /\ s1 = b2 - 1 - e6 - e7
      <3>1. (B + m) * d = (b3 - B - e1) + (e4 + e5)
        BY ONLY <2>1, <2>2, <2>5
      <3>2. (b3 - B - e1) + (e4 + e5) \in Int
        BY ONLY <1>1, <2>6
      <3> DEFINE ay == (b3 - B - e1) + (e4 + e5)
                 z == (B + m) * d
      <3>3. z = ay /\ ay \in Int /\ e8 = z - e2 - e3
        BY ONLY <2>3, <3>1, <3>2
      <3> HIDE DEF ay, z, e1, e2, e3, e4, e5, e6, e7, e8
      <3>4. e8 = ay - e2 - e3
        BY ONLY <3>3
      <3>5. e1 \in Int /\ e2 \in Int /\ e3 \in Int /\ e4 \in Int /\ e5 \in Int
        BY ONLY <2>6 DEF e1, e2, e3, e4, e5
      <3>6. e8 = (b3 - B - e1) + (e4 + e5) - e2 - e3
        <4> HIDE DEF b3, b2, s1
        <4> QED
          BY ONLY <1>1, <3>4, <3>5 DEF ay
      <3>7. e6 = b2 - B - e1 + e4 - e2 /\ e7 = e5 - e3
        BY ONLY <2>4, <2>5 DEF e1, e2, e3, e4, e5, e6, e7
      <3>8. s1 = b2 - 1 - e6 - e7
        BY DEF e6, e7
      <3> QED
        BY ONLY <3>6, <3>7, <3>8
    <2>8. e1 \in Int /\ e2 \in Int /\ e3 \in Int /\ e4 \in Int /\ e5 \in Int
      BY ONLY <2>6
    <2> HIDE DEF e1, e2, e3, e4, e5, e6, e7, e8, s1, b2, b3
    <2>9. e8 = b3 - 1 - s1
      BY ONLY <1>1, <2>7, <2>8
    <2> QED
      BY ONLY <2>9 DEF e8
  <1>9. B * r1 >= b2 - u1 * B /\ s1 \in Int /\ s1 <= u1 * B - 1 - m1 * u0 /\ m1 * u0 \in Int /\ B * r1 \in Int
    <2>1. B * (B - u1) <= B * r1
      <3> DEFINE ax == B - u1
      <3>1. ax \in Int /\ ax <= r1 /\ r1 \in Int
        BY ONLY <1>1, <1>6
      <3> HIDE DEF ax, r1
      <3>2. B * ax <= B * r1
        BY ONLY <1>1, <3>1, ProductOrder
      <3> QED
        BY <3>2 DEF ax
    <2>2. B * (B - u1) = b2 - u1 * B /\ B * r1 \in Int /\ m1 * u0 \in Int
      <3>1. r1 \in Int
        BY ONLY <1>1, <1>6
      <3> HIDE DEF r1, m1
      <3> QED
        BY ONLY <1>1, <1>6, <3>1
    <2> HIDE DEF r1, m1, b2
    <2> QED
      BY ONLY <1>1, <2>1, <2>2
  <1>10. m1 >= 0
    <2>1. -(m1 * u0) <= 2 * u0
      <3>1. u0 * (-2) <= u0 * m1 /\ u0 * (-2) = -(2 * u0) /\ u0 * m1 = m1 * u0
        <4>1. -2 \in Int /\ u0 * (-2) = -(2 * u0) /\ u0 * m1 = m1 * u0
          BY ONLY <1>1, <1>6
        <4> HIDE DEF m1
        <4>2. u0 * (-2) <= u0 * m1
          BY ONLY <1>1, <1>6, <4>1, ProductOrder
        <4> QED
          BY ONLY <4>1, <4>2
      <3> DEFINE ay == m1 * u0
                 z == u0 * (-2)
                 g == u0 * m1
      <3>2. z <= g /\ z = -(2 * u0) /\ g = ay /\ ay \in Int /\ u0 \in Int
        BY ONLY <1>1, <1>9, <3>1
      <3> HIDE DEF ay, z, g
      <3>3. -ay <= 2 * u0
        BY ONLY <3>2
      <3> QED
        BY ONLY <3>3 DEF ay
    <2>2. s1 <= u1 * B + u0 - 1 + u0
      <3> DEFINE ay == m1 * u0
                 z == u1 * B
      <3>1. s1 \in Int /\ s1 <= z - 1 - ay /\ ay \in Int /\ z \in Int /\ u0 \in Int /\ -ay <= 2 * u0
        BY ONLY <1>1, <1>9, <2>1
      <3> HIDE DEF s1, ay, z
      <3>2. s1 <= z + u0 - 1 + u0
        BY ONLY <3>1
      <3> QED
        BY ONLY <3>2 DEF z
    <2>3. (B + m1) * (u1 * B + u0) = B * B * B - 1 - s1
      BY ONLY <1>8
    <2> HIDE DEF s1, m1
    <2> QED
      BY ONLY <1>6, <1>9, <2>2, <2>3, InverseFits, u1 \in Limb, u0 \in Limb
  <1>11. q = m1 /\ m1 \in Limb
    <2>1. m1 \in 0 .. B - 1
      BY ONLY <1>1, <1>6, <1>10
    <2> HIDE DEF m1
    <2>2. Wrap(m1) = m1
      BY ONLY <2>1, LimbBase
    <2> QED
      BY <1>1, <2>1, <2>2 DEF m1
  <1> HIDE DEF q
  <1>12. t \in Limb \X Limb /\ t[2] + B * t[1] = u0 * m1
    <2> HIDE DEF m1
    <2> QED
      BY ONLY <1>11, ProductIs, u0 \in Limb DEF IsProduct, t
  <1> HIDE DEF t
  <1> DEFINE t1 == t[1]
             t2 == t[2]
  <1>13. t1 \in 0 .. B - 1 /\ t2 \in 0 .. B - 1 /\ B * t1 + t2 = m1 * u0
    <2>1. t[1] \in 0 .. B - 1 /\ t[2] \in 0 .. B - 1
      BY ONLY <1>1, <1>12
    <2>2. t2 + B * t1 = u0 * m1 /\ t1 \in 0 .. B - 1 /\ t2 \in 0 .. B - 1
      BY ONLY <1>12, <2>1
    <2> HIDE DEF t1, t2, m1
    <2> QED
      BY ONLY <1>1, <1>6, <2>2
  <1>14. rr = IF r1 + t1 < B THEN r1 + t1 ELSE (r1 + t1) - B
    <2> DEFINE a == r1 + t1
    <2>1. a \in Int /\ a >= 0 /\ a < 2 * B
      <3> HIDE DEF r1, t1
      <3> QED
        BY ONLY <1>1, <1>6, <1>13
    <2>2. rr = a % B
      BY <1>7, <2>1, LimbsAre
    <2> HIDE DEF a, rr
    <2>3. rr = IF a < B THEN a ELSE a - B
      BY ONLY <1>1, <2>1, <2>2
    <2> QED
      BY ONLY <2>3 DEF a
  <1>15. ge <=> rr * B + t2 > d
    <2>1. rr \in 0 .. B - 1
      <3> HIDE DEF r1, t1, rr
      <3> QED
        BY ONLY <1>1, <1>6, <1>13, <1>14
    <2> HIDE DEF rr
    <2>2. rr * B = B * rr /\ u1 * B = B * u1 /\ B * (u1 + 1) = B * u1 + B /\ B * (rr + 1) = B * rr + B
          /\ B * rr \in Int /\ B * u1 \in Int
      BY ONLY <1>1, <2>1
    <2>3. CASE rr > u1
      <3>1. B * (u1 + 1) <= B * rr
        <4>1. u1 + 1 \in Int /\ rr \in Int /\ u1 + 1 <= rr
          BY ONLY <1>1, <2>1, <2>3
        <4> QED
          BY ONLY <1>1, <4>1, ProductOrder
      <3>2. rr * B + t2 > d
        <4> DEFINE ay == B * rr
                   z == B * u1
                   g == rr * B
        <4>1. /\ g = ay /\ ay \in Int /\ z \in Int /\ z + B <= ay /\ d = z + u0 /\ t2 \in Int /\ t2 >= 0
              /\ u0 \in Int /\ u0 <= B - 1 /\ B \in Int
          BY ONLY <1>1, <1>13, <2>2, <3>1
        <4> HIDE DEF ay, z, g, t2, d
        <4>2. g + t2 > d
          BY ONLY <4>1
        <4> QED
          BY ONLY <4>2 DEF g
      <3> QED
        BY <2>3, <3>2
    <2>4. CASE rr < u1
      <3>1. B * (rr + 1) <= B * u1
        <4>1. rr + 1 \in Int /\ u1 \in Int /\ rr + 1 <= u1
          BY ONLY <1>1, <2>1, <2>4
        <4> QED
          BY ONLY <1>1, <4>1, ProductOrder
      <3>2. ~(rr * B + t2 > d)
        <4> DEFINE ay == B * rr
                   z == B * u1
                   g == rr * B
        <4>1. /\ g = ay /\ ay \in Int /\ z \in Int /\ ay + B <= z /\ d = z + u0 /\ t2 \in Int /\ t2 <= B - 1
              /\ u0 \in Int /\ u0 >= 0 /\ B \in Int
          BY ONLY <1>1, <1>13, <2>2, <3>1
        <4> HIDE DEF ay, z, g, t2, d
        <4>2. ~(g + t2 > d)
          BY ONLY <4>1
        <4> QED
          BY ONLY <4>2 DEF g
      <3>3. ~ge
        BY ONLY <1>1, <2>1, <2>4
      <3> QED
        BY <3>2, <3>3
    <2>5. CASE rr = u1
      <3>1. rr * B + t2 > d <=> t2 > u0
        <4> HIDE DEF t2
        <4> QED
          BY ONLY <1>1, <1>13, <2>1, <2>2, <2>5 DEF d
      <3>2. ge <=> t2 > u0
        <4>1. ~(rr > u1)
          BY ONLY <1>1, <2>1, <2>5
        <4> QED
          BY <2>5, <4>1
      <3> QED
        BY ONLY <3>1, <3>2
    <2> QED
      BY ONLY <1>1, <2>1, <2>3, <2>4, <2>5
  <1> HIDE DEF ge, rr
  <1>16. s1 = b2 - 1 - B * (r1 + t1) - t2 /\ b2 <= 2 * d
    <2>1. B * (r1 + t1) = B * r1 + B * t1 /\ B * t1 \in Int
      <3> HIDE DEF r1, t1, m1, d, b2, b3, s1
      <3>1. r1 \in Int /\ t1 \in Int
        BY ONLY <1>1, <1>6, <1>13
      <3> QED
        BY ONLY <1>1, <3>1
    <2>2. s1 = b2 - 1 - B * r1 - (B * t1 + t2)
      BY ONLY <1>13
    <2>3. B * B <= B * (2 * u1) /\ B * (2 * u1) = 2 * (u1 * B)
      <3> DEFINE ax == 2 * u1
      <3>1. ax \in Int /\ B <= ax
        BY ONLY <1>1
      <3> HIDE DEF ax
      <3>2. B * B <= B * ax
        BY ONLY <1>1, <3>1, ProductOrder
      <3>3. B * (2 * u1) = 2 * (u1 * B)
        BY ONLY <1>1
      <3> QED
        BY <3>2, <3>3 DEF ax
    <2> DEFINE e1 == B * r1
               e2 == B * t1
               e3 == B * (r1 + t1)
    <2>4. e1 \in Int /\ e2 \in Int /\ e3 = e1 + e2 /\ s1 = b2 - 1 - e1 - (e2 + t2)
      BY ONLY <1>9, <2>1, <2>2
    <2>5. t2 \in Int
      BY ONLY <1>1, <1>13
    <2> HIDE DEF e1, e2, e3, s1, t2, b2
    <2>6. s1 = b2 - 1 - e3 - t2
      BY ONLY <1>1, <2>4, <2>5
    <2>7. b2 <= 2 * d
      BY ONLY <1>1, <2>3 DEF b2, d
    <2> QED
      BY ONLY <2>6, <2>7 DEF e3
  <1>19. b2 <= 2 * d /\ b2 \in Int /\ d \in Int
    BY ONLY <1>1, <1>16
  <1> DEFINE Goal == v \in Limb /\ \E s \in 0 .. d - 1 : (B + v) * d = b3 - 1 - s
  <1>17. ASSUME r1 + t1 < B PROVE Goal
    <2>1. rr = r1 + t1
      BY ONLY <1>14, <1>17
    <2>2. v = q
      <3>1. ~(rr < t[1])
        <4>1. ~(rr < t1)
          <5> HIDE DEF r1, t1
          <5> QED
            BY ONLY <1>1, <1>6, <1>13, <2>1
        <4> QED
          BY <4>1
      <3> QED
        BY ONLY <1>2, <3>1
    <2>3. s1 \in 0 .. d - 1
      <3> DEFINE a == r1 + t1
      <3>1. a \in Int /\ a <= B - 1 /\ r1 \in Int /\ t1 >= 0 /\ t1 \in Int
        <4>1. r1 \in Int /\ t1 \in Int /\ t1 >= 0
          BY ONLY <1>1, <1>6, <1>13
        <4> HIDE DEF r1, t1
        <4> QED
          BY ONLY <1>1, <1>17, <4>1
      <3>2. s1 = b2 - 1 - B * a - t2
        BY ONLY <1>16
      <3>3. B * a <= b2 - B /\ B * a \in Int
        <4>1. B - 1 \in Int /\ B * (B - 1) = b2 - B
          BY ONLY <1>1
        <4> HIDE DEF a
        <4>2. B * a <= B * (B - 1) /\ B * a \in Int
          BY ONLY <1>1, <3>1, <4>1, ProductOrder
        <4> QED
          BY ONLY <4>1, <4>2
      <3>4. s1 <= u1 * B - 1
        <4>1. m1 * u0 >= 0
          <5> HIDE DEF m1
          <5> QED
            BY ONLY <1>1, <1>6, <1>10
        <4> HIDE DEF s1, m1
        <4> QED
          BY ONLY <1>1, <1>9, <4>1
      <3> DEFINE e == B * a
      <3>6. s1 = b2 - 1 - e - t2
        BY ONLY <3>2
      <3>7. e <= b2 - B /\ e \in Int
        BY ONLY <3>3
      <3>8. b2 \in Int /\ B \in Int
        BY ONLY <1>1
      <3>9. t2 \in Int /\ t2 <= B - 1
        <4> HIDE DEF t2
        <4> QED
          BY ONLY <1>1, <1>13
      <3> HIDE DEF a, s1, b2, t2, e
      <3>5. s1 >= 0 /\ s1 \in Int
        BY ONLY <3>6, <3>7, <3>8, <3>9
      <3> QED
        BY ONLY <1>1, <3>4, <3>5 DEF d
    <2>4. v \in Limb /\ (B + v) * d = b3 - 1 - s1
      BY ONLY <1>8, <1>11, <2>2
    <2> HIDE DEF s1, d, b3
    <2> QED
      BY ONLY <2>3, <2>4
  <1>18. ASSUME ~(r1 + t1 < B) PROVE Goal
    <2> DEFINE ax == rr * B + t2
    <2>1. rr = (r1 + t1) - B /\ rr \in 0 .. B - 1 /\ rr < t1
      <3>1. rr = (r1 + t1) - B
        BY ONLY <1>14, <1>18
      <3>2. r1 \in Int /\ t1 \in Int /\ r1 <= B - 1 /\ t1 <= B - 1 /\ r1 + t1 >= B
        <4> HIDE DEF r1, t1, m1, d, b2, b3, s1
        <4>1. r1 \in Int /\ t1 \in Int /\ r1 <= B - 1 /\ t1 <= B - 1
          BY ONLY <1>1, <1>6, <1>13
        <4> QED
          BY ONLY <1>1, <1>18, <4>1
      <3> HIDE DEF r1, t1
      <3> QED
        BY ONLY <1>1, <3>1, <3>2
    <2>2. v = Wrap(q - 1 - Bit(ge))
      BY ONLY <1>2, <2>1
    <2>3. s1 = -1 - ax /\ ax \in Nat /\ ax <= b2 - 1
      <3>1. B * (r1 + t1) = B * rr + b2 /\ r1 + t1 \in Int
        <4> DEFINE a == r1 + t1
        <4>1. a = rr + B /\ a \in Int
          <5>1. r1 \in Int /\ t1 \in Int
            BY ONLY <1>1, <1>6, <1>13
          <5> HIDE DEF r1, t1
          <5> QED
            BY ONLY <1>1, <2>1, <5>1
        <4> HIDE DEF a
        <4>2. B * (rr + B) = B * rr + b2
          BY ONLY <1>1, <2>1
        <4>3. B * a = B * (rr + B)
          BY ONLY <4>1
        <4> QED
          BY ONLY <4>1, <4>2, <4>3 DEF a
      <3>2. B * rr <= B * (B - 1) /\ B * (B - 1) = b2 - B /\ B * rr = rr * B /\ B * rr \in Nat
        <4>1. B - 1 \in Int /\ B * (B - 1) = b2 - B /\ B * rr = rr * B /\ B * rr \in Nat /\ rr \in Int
          BY ONLY <1>1, <2>1
        <4>2. B * rr <= B * (B - 1)
          <5>1. rr <= B - 1
            BY ONLY <1>1, <2>1
          <5> QED
            BY ONLY <1>1, <4>1, <5>1, ProductOrder
        <4> QED
          BY ONLY <4>1, <4>2
      <3> DEFINE e == B * rr
                 f == B * (r1 + t1)
      <3>3. s1 = b2 - 1 - f - t2 /\ f = e + b2 /\ e \in Nat /\ e <= b2 - B /\ ax = e + t2
        BY ONLY <1>16, <3>1, <3>2
      <3> HIDE DEF e, f, s1, t2, b2, ax
      <3> QED
        BY ONLY <1>1, <1>13, <3>3
    <2>4. ge <=> ax > d
      BY ONLY <1>15
    <2>5. ax # d
      <3>1. ASSUME ax = d PROVE FALSE
        <4> DEFINE c == B + (m1 - 1)
        <4>1. c \in Int /\ c * d = (B + m1) * d - d
          <5> HIDE DEF m1, d
          <5> QED
            BY ONLY <1>1, <1>6
        <4>2. (B + m1) * d = b3 - 1 - s1 /\ s1 = -1 - d
          BY ONLY <1>8, <2>3, <3>1
        <4> HIDE DEF s1, c
        <4>3. c * d = b3
          <5> DEFINE g == (B + m1) * d
          <5>1. g = b3 - 1 - s1 /\ c * d = g - d
            BY ONLY <4>1, <4>2
          <5> HIDE DEF g, b3, d
          <5> QED
            BY ONLY <1>1, <4>2, <5>1
        <4> QED
          BY ONLY <4>1, <4>3, NoPower, u1 \in Limb, u0 \in Limb, B <= 2 * u1, u0 # 0 DEF d, b3
      <3> QED
        BY <3>1
    <2> HIDE DEF ax
    <2> DEFINE j == 1 + Bit(ge)
               w == m1 - j
               s == s1 + j * d
    <2>6. j \in {1, 2} /\ (ge => j = 2) /\ (~ge => j = 1)
      BY DEF Bit
    <2> HIDE DEF j
    <2>7. s \in 0 .. d - 1
      <3> HIDE DEF s1
      <3>1. CASE ge
        <4>1. ax > d
          BY ONLY <2>4, <3>1
        <4>2. s = s1 + 2 * d
          BY ONLY <2>6, <3>1
        <4> HIDE DEF s, b2, d
        <4> QED
          BY ONLY <1>19, <2>3, <4>1, <4>2
      <3>2. CASE ~ge
        <4>1. ax < d
          <5> HIDE DEF d
          <5> QED
            BY ONLY <1>1, <2>3, <2>4, <2>5, <3>2
        <4>2. s = s1 + d
          <5>1. s = s1 + 1 * d
            BY ONLY <2>6, <3>2
          <5> HIDE DEF s, d
          <5> QED
            BY ONLY <1>1, <5>1
        <4> HIDE DEF s, b2, d
        <4> QED
          BY ONLY <1>19, <2>3, <4>1, <4>2
      <3> QED
        BY ONLY <3>1, <3>2
    <2>8. (B + w) * d = b3 - 1 - s /\ w \in Int
      <3>1. (B + w) * d = (B + m1) * d - j * d /\ (B + m1) * d \in Int /\ j * d \in Int /\ w \in Int
        <4> HIDE DEF m1, d
        <4> QED
          BY ONLY <1>1, <1>6, <2>6
      <3> DEFINE g == (B + m1) * d
                 f == j * d
                 ay == (B + w) * d
      <3>2. g = b3 - 1 - s1 /\ ay = g - f /\ s = s1 + f /\ g \in Int /\ f \in Int
        BY ONLY <1>8, <3>1
      <3> HIDE DEF g, f, ay, s, s1, b3
      <3>3. ay = b3 - 1 - s
        BY ONLY <1>1, <1>9, <3>2
      <3> QED
        BY ONLY <3>1, <3>3 DEF ay
    <2> HIDE DEF s
    <2>9. w >= 0
      <3>1. s <= u1 * B + u0 - 1 + u0 /\ s \in Int
        BY ONLY <1>1, <2>7 DEF d
      <3>2. (B + w) * (u1 * B + u0) = B * B * B - 1 - s
        BY ONLY <2>8
      <3> HIDE DEF w
      <3> QED
        BY ONLY <2>8, <3>1, <3>2, InverseFits, u1 \in Limb, u0 \in Limb
    <2>10. w \in 0 .. B - 1
      <3>1. w \in Int /\ w <= B - 1
        <4> HIDE DEF m1
        <4> QED
          BY ONLY <1>1, <1>6, <2>6
      <3> HIDE DEF w
      <3> QED
        BY ONLY <2>9, <3>1
    <2>11. v = w
      <3>1. q - 1 - Bit(ge) = w
        <4>1. Bit(ge) \in Int
          BY DEF Bit
        <4> DEFINE bg == Bit(ge)
        <4>2. j = 1 + bg /\ bg \in Int
          BY ONLY <4>1 DEF j
        <4> HIDE DEF bg, m1
        <4>3. q - 1 - bg = w
          BY ONLY <1>6, <1>11, <4>2
        <4> QED
          BY ONLY <4>3 DEF bg
      <3> HIDE DEF w
      <3>2. Wrap(w) = w
        BY ONLY <2>10, LimbBase
      <3> QED
        BY ONLY <2>2, <3>1, <3>2
    <2>12. v \in Limb /\ (B + v) * d = b3 - 1 - s
      <3> HIDE DEF w
      <3> QED
        BY ONLY <1>1, <2>8, <2>10, <2>11
    <2> HIDE DEF d, b3
    <2> QED
      BY ONLY <2>7, <2>12
  <1>20. Goal
    BY ONLY <1>17, <1>18
  <1> QED
    BY <1>20 DEF Goal, v, rw, d, b3

LEMMA InvertOneIs ==
  ASSUME NEW u1 \in Limb, B <= 2 * u1
  PROVE  LET v == mpn_invert_3by2(u1, 0) IN v \in Limb /\ \E k \in Nat : Single(B, u1, v, k)
  <1> DEFINE e == InvertHigh(u1, Com(u1) \div (u1 \div H))
             f == InvertLow(u1, e)
             v == mpn_invert_3by2(u1, 0)
             k == f.r + 1
             fq == f.q
  <1>1. e.q \in 0 .. H - 1 /\ e.r \in 0 .. u1 - 1 /\ (H + e.q) * u1 = H * B - 1 - e.r
    BY InvertHighIs
  <1>2. v = fq
    BY DEF mpn_invert_3by2, InvertMore
  <1> HIDE DEF e
  <1>3. fq \in Limb /\ f.r \in 0 .. u1 - 1 /\ (B + fq) * u1 = B * B - 1 - f.r
    BY <1>1, InvertLowIs
  <1>4. B \in Nat /\ B >= 2 /\ Limb = 0 .. B - 1
    BY LimbsAre
  <1>5. u1 \in Nat /\ u1 < B
    BY ONLY <1>4, u1 \in Limb
  <1>6. k \in Nat /\ 1 <= k /\ k <= u1
    BY ONLY <1>3, <1>5
  <1>7. (B + fq) * u1 = B * B - k
    <2> DEFINE ax == (B + fq) * u1
               ay == B * B
               r == f.r
    <2>1. ax = ay - 1 - r /\ ay \in Int /\ r \in Int
      BY ONLY <1>3, <1>4, <1>5
    <2> HIDE DEF ax, ay, r
    <2>2. ax = ay - (r + 1)
      BY ONLY <2>1
    <2> QED
      BY ONLY <2>2 DEF ax, ay, r
  <1>8. fq \in Nat
    BY ONLY <1>3, <1>4
  <1> HIDE DEF f, fq, k
  <1>9. Single(B, u1, fq, k)
    BY ONLY <1>4, <1>5, <1>6, <1>7, <1>8, B <= 2 * u1 DEF Single
  <1> HIDE DEF v
  <1> QED
    BY ONLY <1>2, <1>3, <1>6, <1>9 DEF v

\* mpn_invert_3by2 finds that inverse, the quotient of B ^ 3 - 1 by the two limbs
\* less B, for every divisor whose highest bit is set.
THEOREM InvertIs ==
  ASSUME NEW u1 \in Limb, NEW u0 \in Limb, B <= 2 * u1
  PROVE  LET v == mpn_invert_3by2(u1, u0) IN
         v \in Limb /\ \E k \in Nat : Divisor(B, u1, u0, u1 * B + u0, v, k)
  <1> DEFINE e == InvertHigh(u1, Com(u1) \div (u1 \div H))
             f == InvertLow(u1, e)
             v == mpn_invert_3by2(u1, u0)
             d == u1 * B + u0
             b3 == B * B * B
  <1>1. B \in Nat /\ B >= 2 /\ Limb = 0 .. B - 1
    BY LimbsAre
  <1>2. u1 \in 0 .. B - 1 /\ u0 \in 0 .. B - 1 /\ u1 \in Nat /\ u0 \in Nat
    BY ONLY <1>1, u1 \in Limb, u0 \in Limb
  <1>3. d \in Nat /\ B * B <= 2 * d /\ b3 \in Int
    <2>1. B * B <= B * (2 * u1)
      <3> DEFINE ax == 2 * u1
      <3>1. ax \in Int /\ B <= ax
        BY ONLY <1>2, B <= 2 * u1
      <3> HIDE DEF ax
      <3>2. B * B <= B * ax
        BY ONLY <1>1, <3>1, ProductOrder
      <3> QED
        BY <3>2 DEF ax
    <2>2. B * (2 * u1) = 2 * (u1 * B) /\ u1 * B \in Nat /\ B * B * B \in Int
      BY ONLY <1>1, <1>2
    <2> QED
      BY ONLY <1>1, <1>2, <2>1, <2>2
  <1>4. ASSUME v \in Limb, NEW s \in 0 .. d - 1, (B + v) * d = b3 - 1 - s
        PROVE  v \in Limb /\ \E k \in Nat : Divisor(B, u1, u0, d, v, k)
    <2> DEFINE k == s + 1
    <2>1. k \in Nat /\ 1 <= k /\ k <= d /\ v \in Nat
      <3> HIDE DEF d, v
      <3> QED
        BY ONLY <1>1, <1>3, <1>4
    <2>2. (B + v) * d = b3 - k
      <3> DEFINE ax == (B + v) * d
      <3>1. ax = b3 - 1 - s /\ s \in Int /\ b3 \in Int
        BY ONLY <1>3, <1>4
      <3> HIDE DEF ax, b3
      <3>2. ax = b3 - (s + 1)
        BY ONLY <3>1
      <3> QED
        BY ONLY <3>2 DEF ax
    <2> HIDE DEF k, v
    <2>3. Divisor(B, u1, u0, d, v, k)
      BY ONLY <1>1, <1>2, <1>3, <2>1, <2>2 DEF Divisor
    <2> QED
      BY ONLY <1>4, <2>1, <2>3
  <1>5. e.q \in 0 .. H - 1 /\ e.r \in 0 .. u1 - 1 /\ (H + e.q) * u1 = H * B - 1 - e.r
    BY InvertHighIs
  <1>6. v = IF u0 = 0 THEN f.q ELSE InvertBoth(u1, u0, f.q, Wrap(Com(f.r) + u0))
    BY DEF mpn_invert_3by2, InvertMore
  <1> HIDE DEF e
  <1>7. f.q \in Limb /\ f.r \in 0 .. u1 - 1 /\ (B + f.q) * u1 = B * B - 1 - f.r
    BY <1>5, InvertLowIs
  <1> HIDE DEF f, v
  <1>8. CASE u0 = 0
    <2> DEFINE r == f.r
               s == r * B + B - 1
    <2>1. v = f.q /\ v \in Limb
      BY ONLY <1>6, <1>7, <1>8
    <2>2. r \in 0 .. u1 - 1 /\ (B + v) * u1 = B * B - 1 - r
      BY ONLY <1>7, <2>1
    <2> HIDE DEF r
    <2>3. v \in Int /\ d = u1 * B
      BY ONLY <1>1, <1>2, <1>8, <2>1
    <2>4. (B + v) * d = b3 - 1 - s
      <3>1. (B + v) * d = ((B + v) * u1) * B
        BY ONLY <1>1, <1>2, <2>3
      <3>2. ((B + v) * u1) * B = (B * B - 1 - r) * B
        BY ONLY <2>2
      <3>3. (B * B - 1 - r) * B = B * B * B - 1 - (r * B + B - 1)
        BY ONLY <1>1, <1>2, <2>2
      <3> QED
        BY ONLY <3>1, <3>2, <3>3
    <2>5. s \in 0 .. d - 1
      <3>1. B * r <= B * (u1 - 1) /\ B * (u1 - 1) = u1 * B - B /\ B * r = r * B /\ r * B \in Nat /\ u1 * B \in Int
        <4>1. u1 - 1 \in Int /\ r \in Int /\ r <= u1 - 1 /\ B * (u1 - 1) = u1 * B - B /\ B * r = r * B /\ r * B \in Nat /\ u1 * B \in Int
          BY ONLY <1>1, <1>2, <2>2
        <4> DEFINE ax == u1 - 1
        <4>2. ax \in Int /\ r \in Int /\ r <= ax
          BY ONLY <4>1
        <4> HIDE DEF ax
        <4>3. B * r <= B * ax
          BY ONLY <1>1, <4>2, ProductOrder
        <4> QED
          BY ONLY <4>1, <4>3 DEF ax
      <3> DEFINE ax == r * B
                 ay == u1 * B
      <3>2. ax <= ay - B /\ ax \in Nat /\ ay \in Int /\ d = ay /\ s = ax + B - 1
        BY ONLY <2>3, <3>1
      <3> HIDE DEF ax, ay, s, d
      <3> QED
        BY ONLY <1>1, <3>2
    <2> HIDE DEF s
    <2> QED
      BY ONLY <1>4, <2>1, <2>4, <2>5 DEF v, d
  <1>9. CASE u0 # 0
    <2>1. v = InvertBoth(u1, u0, f.q, Wrap(Com(f.r) + u0))
      BY ONLY <1>6, <1>9
    <2> DEFINE m == f.q
               r0 == f.r
    <2>2. m \in Limb /\ r0 \in 0 .. u1 - 1 /\ (B + m) * u1 = B * B - 1 - r0 /\ v = InvertBoth(u1, u0, m, Wrap(Com(r0) + u0))
      BY ONLY <1>7, <2>1
    <2> HIDE DEF m, r0
    <2>3. v \in Limb /\ \E s \in 0 .. (u1 * B + u0) - 1 : (B + v) * (u1 * B + u0) = B * B * B - 1 - s
      BY ONLY <1>9, <2>2, InvertBothIs, u1 \in Limb, u0 \in Limb, B <= 2 * u1
    <2> QED
      BY ONLY <1>4, <2>3 DEF v, d
  <1> QED
    BY ONLY <1>8, <1>9

----------------------------------------------------------------------------
(* Division: normalized divisors of one limb and of two.                   *)

\* The shift that gmp_clz finds moves the highest bit of a limb to the top.
LEMMA ClzIs ==
  ASSUME NEW a \in Limb, a # 0
  PROVE  /\ gmp_clz(a) \in 0 .. LimbBits - 1 /\ gmp_clz(a) \in Nat /\ gmp_clz(a) < LimbBits
         /\ HighBit <= a * Pow(2, gmp_clz(a)) /\ a * Pow(2, gmp_clz(a)) < B
         /\ Pow(2, gmp_clz(a)) \in Nat \ {0}
  <1> DEFINE L == LimbBits
             Good(c) == HighBit <= a * Pow(2, c) /\ a * Pow(2, c) < B
  <1>1. /\ B \in Nat \ {0} /\ L \in Nat \ {0} /\ HighBit \in Nat \ {0} /\ B = 2 * HighBit
        /\ B = Pow(2, L) /\ a \in Nat /\ a < B /\ a >= 1
    <2>1. B \in Nat \ {0} /\ L \in Nat \ {0} /\ HighBit \in Nat \ {0} /\ B = 2 * HighBit /\ B = Pow(2, L)
      BY LimbsAre
    <2>2. a \in Nat /\ a < B
      BY LimbIs
    <2> QED
      BY ONLY <2>1, <2>2, a # 0
  <1>2. \A c \in Nat : Pow(2, c) \in Nat \ {0} /\ Pow(2, c + 1) = 2 * Pow(2, c)
    BY TwoPow
  <1> DEFINE T == {c \in Nat : HighBit <= a * Pow(2, c)}
  <1>3. L - 1 \in Nat /\ L - 1 \in T
    <2>1. L - 1 \in Nat /\ Pow(2, L) = 2 * Pow(2, L - 1) /\ Pow(2, L - 1) \in Nat
      BY ONLY <1>1, TwoPow
    <2> DEFINE p == Pow(2, L - 1)
    <2>2. p \in Nat /\ p = HighBit
      BY ONLY <1>1, <2>1
    <2> HIDE DEF p
    <2>3. HighBit <= a * p
      <3>1. p * 1 <= p * a /\ p * a = a * p
        BY ONLY <1>1, <2>2
      <3> QED
        BY ONLY <2>2, <3>1
    <2> QED
      BY ONLY <2>1, <2>3 DEF T, p
  <1>4. PICK c \in T : \A m \in T : c <= m
    <2>1. T \subseteq Nat /\ T # {}
      BY ONLY <1>3
    <2> HIDE DEF T
    <2> QED
      BY ONLY <2>1, LeastNumber
  <1>5. c \in Nat /\ HighBit <= a * Pow(2, c) /\ c <= L - 1
    BY ONLY <1>3, <1>4
  <1>6. a * Pow(2, c) < B
    <2>1. CASE c = 0
      <3>1. Pow(2, c) = 1
        BY <2>1, PowRec
      <3> QED
        BY ONLY <1>1, <3>1
    <2>2. CASE c > 0
      <3> DEFINE e == c - 1
      <3>1. e \in Nat /\ e + 1 = c /\ ~(c <= e)
        BY ONLY <1>5, <2>2
      <3>2. e \notin T
        BY ONLY <1>4, <3>1
      <3>3. ~(HighBit <= a * Pow(2, e))
        BY ONLY <3>1, <3>2
      <3>4. Pow(2, e) \in Nat /\ Pow(2, c) = 2 * Pow(2, e)
        <4> HIDE DEF e
        <4> QED
          BY ONLY <1>2, <3>1
      <3> DEFINE p == Pow(2, e)
                 t == a * p
      <3>5. p \in Nat /\ Pow(2, c) = 2 * p /\ ~(HighBit <= t)
        BY ONLY <3>3, <3>4
      <3> HIDE DEF p, e
      <3>6. t \in Int /\ a * (2 * p) = 2 * t
        BY ONLY <1>1, <3>5
      <3>7. a * Pow(2, c) = 2 * t
        BY ONLY <3>5, <3>6
      <3> HIDE DEF t
      <3> QED
        BY ONLY <1>1, <3>5, <3>6, <3>7
    <2> QED
      BY ONLY <1>5, <2>1, <2>2
  <1>7. c \in 0 .. L - 1 /\ Good(c)
    BY ONLY <1>1, <1>5, <1>6
  <1>8. gmp_clz(a) = CHOOSE c0 \in 0 .. L - 1 : Good(c0)
    BY DEF gmp_clz
  <1>9. gmp_clz(a) \in 0 .. L - 1 /\ Good(gmp_clz(a))
    BY ONLY <1>7, <1>8
  <1>10. gmp_clz(a) \in Nat /\ gmp_clz(a) < L
    <2> DEFINE g == gmp_clz(a)
    <2>1. g \in 0 .. L - 1
      BY ONLY <1>9
    <2> HIDE DEF g, L
    <2>2. g \in Nat /\ g < L
      BY ONLY <1>1, <2>1
    <2> QED
      BY ONLY <2>2 DEF g
  <1> QED
    BY ONLY <1>2, <1>9, <1>10

\* One limb of a dividend that is handed down through the chain.
Inverse1(d, s, inv) ==
    /\ inv.shift = s /\ s \in Nat /\ s < LimbBits /\ inv.d1 = d * Pow(2, s) /\ inv.d1 \in Limb
    /\ inv.di \in Limb /\ \E k \in Nat : Single(B, inv.d1, inv.di, k)

LEMMA InverseOfOne ==
  ASSUME NEW d \in Limb, d # 0
  PROVE  Inverse1(d, gmp_clz(d), mpn_div_qr_1_invert(d))
  <1> DEFINE s == gmp_clz(d)
             a == d * Pow(2, s)
             inv == mpn_div_qr_1_invert(d)
             d1 == Wrap(d * Pow(2, s))
  <1>1. s \in Nat /\ s < LimbBits /\ HighBit <= a /\ a < B /\ Pow(2, s) \in Nat \ {0}
    BY ClzIs
  <1>2. B \in Nat \ {0} /\ Limb = 0 .. B - 1 /\ B = 2 * HighBit /\ HighBit \in Nat /\ d \in Nat
    BY LimbsAre, LimbIs
  <1>3. inv = [shift |-> s, d1 |-> d1, d0 |-> 0, di |-> mpn_invert_3by2(d1, 0)]
    BY DEF mpn_div_qr_1_invert
  <1>4. a \in 0 .. B - 1
    <2> DEFINE p == Pow(2, s)
    <2>1. p \in Nat /\ d * p < B
      BY ONLY <1>1
    <2> HIDE DEF p
    <2>2. d * p \in Nat
      BY ONLY <1>2, <2>1
    <2> QED
      BY ONLY <1>2, <2>1, <2>2 DEF p
  <1> HIDE DEF s
  <1>5. d1 = a
    BY ONLY <1>4, LimbBase
  <1>6. a \in Limb /\ B <= 2 * a
    <2> HIDE DEF a
    <2> QED
      BY ONLY <1>1, <1>2, <1>4
  <1>7. inv.shift = s /\ inv.d1 = a /\ inv.di = mpn_invert_3by2(a, 0)
    BY ONLY <1>3, <1>5
  <1> HIDE DEF a, inv
  <1>8. mpn_invert_3by2(a, 0) \in Limb /\ \E k \in Nat : Single(B, a, mpn_invert_3by2(a, 0), k)
    BY ONLY <1>6, InvertOneIs
  <1>9. Inverse1(d, s, inv)
    BY ONLY <1>1, <1>6, <1>7, <1>8 DEF Inverse1, a
  <1> QED
    BY ONLY <1>9 DEF s, inv

LEMMA ShiftedIs ==
  ASSUME NEW np \in Seq(Limb), np # <<>>, NEW s \in Nat, s < LimbBits
  PROVE  LET t == Shifted(np, s) IN
         /\ Sum(t, Len(np), NatOf(np) * Pow(2, s)) /\ t.cy \in 0 .. Pow(2, s) - 1 /\ t.cy \in Limb
         /\ t.r \in Seq(Limb) /\ Len(t.r) = Len(np) /\ Len(np) \in Nat \ {0}
         /\ NatOf(t.r) + Pow(B, Len(np)) * t.cy = NatOf(np) * Pow(2, s)
  <1> DEFINE t == Shifted(np, s)
             n == Len(np)
             N == NatOf(np)
             p == Pow(2, s)
             b == Pow(B, n)
  <1>1. N \in Nat /\ N < b /\ b \in Nat \ {0} /\ n \in Nat
    BY NatOfIs
  <1>n. n \in Nat \ {0}
    <2>1. n # 0
      BY EmptySeq
    <2> QED
      BY ONLY <1>1, <2>1
  <1>2. p \in Nat \ {0}
    BY TwoPow
  <1>3. Sum(t, n, N * p) /\ t.cy \in Limb
    <2>1. CASE s > 0
      BY <2>1, LeftShiftIs DEF Shifted
    <2>2. CASE ~(s > 0)
      <3>1. s = 0 /\ t = [r |-> np, cy |-> 0]
        BY <2>2 DEF Shifted
      <3>2. p = 1
        BY <3>1, PowRec
      <3>3. t.r = np /\ t.cy = 0 /\ 0 \in Limb
        <4>1. t.r = np /\ t.cy = 0
          BY ONLY <3>1
        <4>2. 0 \in Limb
          BY LimbsAre
        <4> QED
          BY ONLY <4>1, <4>2
      <3>4. N + b * 0 = N * p
        <4> HIDE DEF N, b, p
        <4> QED
          BY ONLY <1>1, <3>2
      <3> QED
        BY ONLY <3>3, <3>4, np \in Seq(Limb) DEF Sum, N, n, b
    <2> QED
      BY ONLY <2>1, <2>2
  <1> HIDE DEF t
  <1>4. t.r \in Seq(Limb) /\ Len(t.r) = n /\ NatOf(t.r) + b * t.cy = N * p
    BY ONLY <1>3 DEF Sum
  <1>5. NatOf(t.r) \in Nat
    BY ONLY <1>4, NatOfIs
  <1>6. t.cy \in Nat
    BY ONLY <1>3, LimbIs
  <1>7. t.cy < p
    <2> DEFINE c == t.cy
               m == NatOf(t.r)
    <2>1. c \in Nat /\ m \in Nat /\ m + b * c = N * p
      BY ONLY <1>4, <1>5, <1>6
    <2> HIDE DEF c, m, N, p, b
    <2>2. b * c \in Nat /\ p * N = N * p /\ b * p = p * b
      BY ONLY <1>1, <1>2, <2>1
    <2>3. p * N < p * b
      BY ONLY <1>1, <1>2, ProductOrder
    <2>4. b * c < b * p
      <3> DEFINE e1 == b * c
                 e2 == b * p
                 e3 == N * p
      <3>1. e1 \in Nat /\ m + e1 = e3 /\ e3 < e2 /\ m \in Nat /\ e2 \in Int
        <4>1. e2 \in Int
          BY ONLY <1>1, <1>2
        <4> QED
          BY ONLY <2>1, <2>2, <2>3, <4>1
      <3> HIDE DEF e1, e2, e3
      <3>2. e1 < e2
        BY ONLY <3>1
      <3> QED
        BY ONLY <3>2 DEF e1, e2
    <2>5. c < p
      BY ONLY <1>1, <1>2, <2>1, <2>4, ProductOrder
    <2> QED
      BY ONLY <2>5 DEF c
  <1>8. t.cy \in 0 .. p - 1
    <2> HIDE DEF p
    <2> QED
      BY ONLY <1>2, <1>6, <1>7
  <1> QED
    BY ONLY <1>n, <1>3, <1>4, <1>8 DEF t, n, N, b, p

\* From the quotient of the shifted numbers to that of the numbers.
Undone(N, d, p, q, c) == q \in Nat /\ c \in 0 .. d * p - 1 /\ (d * p) * q + c = N * p

LEMMA Unscaled ==
  ASSUME NEW N \in Nat, NEW d \in Nat \ {0}, NEW p \in Nat \ {0}, NEW q, NEW c, Undone(N, d, p, q, c)
  PROVE  c \div p \in 0 .. d - 1 /\ N = d * q + (c \div p)
  <1> DEFINE m == N - d * q
  <1>1. q \in Nat /\ c \in Int /\ (d * p) * q + c = N * p /\ c >= 0 /\ c < d * p /\ m \in Int
    <2>1. d * p \in Int
      OBVIOUS
    <2> QED
      BY <2>1 DEF Undone
  <1>2. c = p * m + 0
    BY <1>1
  <1> DEFINE z == 0
  <1>3. z \in 0 .. p - 1 /\ c = p * m + z
    BY ONLY <1>2, p \in Nat \ {0}
  <1>m. N = d * q + m
    BY <1>1
  <1> HIDE DEF m, z
  <1>4. c \div p = m
    BY ONLY <1>1, <1>3, DivisionIs, p \in Nat \ {0}
  <1>5. p * m = c
    BY ONLY <1>1, <1>2, p \in Nat \ {0}
  <1>6. m >= 0 /\ m < d
    <2>1. p * m < p * d
      BY ONLY <1>1, <1>5, p \in Nat \ {0}, d \in Nat \ {0}
    <2>2. m < d
      BY ONLY <1>1, <2>1, ProductOrder, p \in Nat \ {0}, d \in Nat \ {0}
    <2>3. ASSUME m <= -1 PROVE FALSE
      <3>1. p * m <= p * (-1)
        <4>1. -1 \in Int
          OBVIOUS
        <4> QED
          BY ONLY <1>1, <2>3, <4>1, ProductOrder, p \in Nat \ {0}
      <3>2. p * (-1) = -p
        BY ONLY p \in Nat \ {0}
      <3> DEFINE e == p * m
      <3>3. e = c /\ e <= -p
        BY ONLY <1>5, <3>1, <3>2
      <3> HIDE DEF e
      <3> QED
        BY ONLY <1>1, <3>3, p \in Nat \ {0}
    <2> QED
      BY ONLY <1>1, <2>2, <2>3
  <1>7. m \in 0 .. d - 1
    BY ONLY <1>1, <1>6, d \in Nat \ {0}
  <1> QED
    BY ONLY <1>4, <1>5, <1>7, <1>m

\* What a division by d leaves: the limbs of the quotient, and a remainder.
IsQuotient(q, r, n, N, d) ==
    q \in Seq(Limb) /\ Len(q) = n /\ r \in 0 .. d - 1 /\ N = d * NatOf(q) + r

LEMMA DivideByOne ==
  ASSUME NEW np \in Seq(Limb), np # <<>>, NEW d \in Limb, d # 0, NEW s, NEW inv, Inverse1(d, s, inv)
  PROVE  LET e == mpn_div_qr_1_preinv(np, inv) IN IsQuotient(e.q, e.r, Len(np), NatOf(np), d)
  <1> DEFINE n == Len(np)
             N == NatOf(np)
             p == Pow(2, s)
             t == Shifted(np, s)
             d1 == inv.d1
             di == inv.di
             C == 0 .. d1 - 1
             step == [i \in DOMAIN np |-> [r \in Limb |-> gmp_udiv_qrnnd_preinv(r, t.r[i], d1, di)]]
             c == ChainDown(step, n, t.cy)
             e == mpn_div_qr_1_preinv(np, inv)
  <1>1. inv.shift = s /\ s \in Nat /\ s < LimbBits /\ d1 = d * p /\ d1 \in Limb /\ di \in Limb
    BY DEF Inverse1
  <1>2. PICK k \in Nat : Single(B, d1, di, k)
    BY DEF Inverse1
  <1>3. e = [q |-> c.r, r |-> c.cy \div p]
    BY <1>1 DEF mpn_div_qr_1_preinv
  <1> HIDE DEF e, c
  <1>4. /\ t.cy \in 0 .. p - 1 /\ t.cy \in Limb /\ t.r \in Seq(Limb) /\ Len(t.r) = n /\ n \in Nat \ {0}
        /\ NatOf(t.r) + Pow(B, n) * t.cy = N * p
    BY ONLY <1>1, ShiftedIs, np \in Seq(Limb), np # <<>>
  <1>5. N \in Nat /\ Pow(B, n) \in Nat \ {0} /\ DOMAIN np = 1 .. n
    BY NatOfIs
  <1>6. p \in Nat \ {0} /\ d \in Nat \ {0} /\ B \in Nat \ {0} /\ Limb = 0 .. B - 1 /\ d1 \in Nat \ {0}
    <2>1. p \in Nat \ {0}
      BY ONLY <1>1, TwoPow
    <2>2. d \in Nat \ {0} /\ B \in Nat \ {0} /\ Limb = 0 .. B - 1
      BY LimbIs, LimbsAre
    <2> HIDE DEF p
    <2>3. d * p \in Nat \ {0}
      BY ONLY <2>1, <2>2
    <2> QED
      BY ONLY <1>1, <2>1, <2>2, <2>3
  <1>7. t.cy \in C
    <2> DEFINE y0 == t.cy
    <2>1. y0 \in 0 .. p - 1
      BY ONLY <1>4
    <2>2. p * 1 <= p * d /\ p * d = d * p
      <3> HIDE DEF p
      <3>1. 1 \in Int /\ d \in Int /\ 1 <= d /\ p * d = d * p
        BY ONLY <1>6
      <3> QED
        BY ONLY <1>6, <3>1, ProductOrder
    <2> HIDE DEF y0, p, d1
    <2>3. y0 \in 0 .. d1 - 1
      BY ONLY <1>1, <1>6, <2>1, <2>2
    <2> QED
      BY ONLY <2>3 DEF y0
  <1> DEFINE tr == t.r
             y0 == t.cy
  <1>8. \A i \in 1 .. n : tr[i] \in 0 .. B - 1 /\ tr[i] \in Limb /\ tr[i] \in Int
    <2>1. tr \in Seq(Limb) /\ Len(tr) = n
      BY ONLY <1>4
    <2> HIDE DEF tr
    <2> QED
      BY ONLY <1>6, <2>1, NatOfIs
  <1>s. \A i \in 1 .. n : \A a \in C : step[i][a] = gmp_udiv_qrnnd_preinv(a, tr[i], d1, di) /\ a \in Limb
    <2>1. \A a \in C : a \in Limb
      <3>1. d1 \in 0 .. B - 1
        BY ONLY <1>1, <1>6
      <3> HIDE DEF d1
      <3> QED
        BY ONLY <1>6, <3>1
    <2> QED
      BY ONLY <1>5, <2>1
  <1> HIDE DEF t, tr, y0, step, n, d1, di
  <1>9. ASSUME NEW i \in 1 .. n, NEW a \in C
        PROVE  /\ step[i][a] \in Limb \X C
               /\ a * B + tr[i] = step[i][a][1] * d1 + step[i][a][2]
    <2> DEFINE u == step[i][a]
               l == tr[i]
    <2>1. u = gmp_udiv_qrnnd_preinv(a, l, d1, di)
      BY ONLY <1>s, i \in 1 .. n, a \in C
    <2>2. SingleDividend(B, d1, a, l)
      BY ONLY <1>8, i \in 1 .. n, a \in C DEF SingleDividend
    <2> HIDE DEF u, l
    <2>3. u = <<u[1], u[2]>> /\ Division(B, d1, a * B + l, u[1], u[2])
      BY ONLY <1>1, <1>2, <2>1, <2>2, DivideTwoByOne
    <2>4. u = <<u[1], u[2]>> /\ u[1] \in 0 .. B - 1 /\ u[2] \in 0 .. d1 - 1 /\ a * B + l = u[1] * d1 + u[2]
      BY ONLY <2>3 DEF Division
    <2>5. u \in Limb \X C
      BY ONLY <1>6, <2>4
    <2> QED
      BY ONLY <2>4, <2>5 DEF u, l
  <1>10. ChainDownIs(c, step, n, Limb, C, y0)
    <2>1. StepsIn(step, n, Limb, C)
      BY ONLY <1>9 DEF StepsIn
    <2>2. y0 \in C /\ n \in Nat /\ c = ChainDown(step, n, y0)
      BY ONLY <1>4, <1>7 DEF y0, c
    <2> HIDE DEF C
    <2> QED
      BY ONLY <2>1, <2>2, ChainDownRuns
  <1>11. PICK cs, es : ChainedDown(c, n, Limb, C, y0, cs, es) /\ FollowsDown(es, step, cs, n)
    BY ONLY <1>10 DEF ChainDownIs
  <1>12. /\ c.r \in Seq(Limb) /\ Len(c.r) = n /\ c.cy = cs[0] /\ cs[n] = y0
         /\ \A i \in 0 .. n : cs[i] \in C
         /\ \A i \in 1 .. n : c.r[i] = es[i][1] /\ cs[i - 1] = es[i][2] /\ es[i] = step[i][cs[i]]
    <2> HIDE DEF C
    <2> QED
      BY ONLY <1>11 DEF ChainedDown, FollowsDown
  <1> DEFINE qs == c.r
  <1>13. \A i \in 0 .. n : cs[i] \in Int
    <2>1. C \subseteq Int
      BY ONLY <1>6
    <2> HIDE DEF C
    <2> QED
      BY ONLY <1>12, <2>1
  <1>14. \A i \in 1 .. n : qs[i] \in Int /\ d1 * qs[i] + cs[i - 1] = B * cs[i] + tr[i]
    <2> TAKE i \in 1 .. n
    <2>1. i \in 0 .. n /\ i - 1 \in 0 .. n /\ n \in Nat
      BY ONLY <1>4
    <2> DEFINE a == cs[i]
               u == step[i][a]
               v == cs[i - 1]
               l == tr[i]
               w == qs[i]
    <2>2. a \in C /\ w = u[1] /\ v = u[2]
      BY ONLY <1>12, <2>1
    <2>3. u \in Limb \X C /\ a * B + l = u[1] * d1 + u[2]
      <3> HIDE DEF a, C
      <3> QED
        BY ONLY <1>9, <2>2
    <2>4. w \in Int /\ a \in Int /\ v \in Int /\ l \in Int
      <3>1. u[1] \in Limb
        BY ONLY <2>3
      <3>2. w \in Int
        BY ONLY <1>6, <2>2, <3>1
      <3>3. a \in Int /\ v \in Int
        BY ONLY <1>13, <2>1
      <3>4. l \in Int
        BY ONLY <1>8
      <3> QED
        BY ONLY <3>2, <3>3, <3>4
    <2>5. a * B + l = w * d1 + v
      BY ONLY <2>2, <2>3
    <2> HIDE DEF a, u, v, l, w
    <2>6. d1 * w + v = B * a + l
      BY ONLY <1>6, <2>4, <2>5
    <2> QED
      BY ONLY <2>4, <2>6 DEF a, v, l, w
  <1>15. d1 * Number(B, qs, n) + cs[0] = Pow(B, n) * cs[n] + Number(B, tr, n)
    <2>1. Ints(qs, n) /\ Ints(tr, n)
      BY ONLY <1>8, <1>14 DEF Ints
    <2>2. n \in Nat /\ d1 \in Int /\ B \in Int
      BY ONLY <1>4, <1>6
    <2> HIDE DEF qs
    <2> QED
      BY ONLY <1>13, <1>14, <2>1, <2>2, NumberCarriedDown
  <1>16. qs \in Seq(Limb) /\ Len(qs) = n /\ NatOf(qs) = Number(B, qs, n) /\ NatOf(qs) \in Nat
    <2>1. qs \in Seq(Limb) /\ Len(qs) = n
      BY ONLY <1>12
    <2> HIDE DEF qs
    <2> QED
      BY ONLY <2>1, NatOfIs
  <1>17. Number(B, tr, n) = NatOf(tr) /\ NatOf(tr) \in Nat
    <2>1. tr \in Seq(Limb) /\ Len(tr) = n
      BY ONLY <1>4 DEF tr
    <2> QED
      BY ONLY <2>1, NatOfIs
  <1> DEFINE Q == NatOf(qs)
             c1 == cs[0]
  <1>18. (d * p) * Q + c1 = N * p
    <2>1. d1 * Q + c1 = Pow(B, n) * y0 + NatOf(tr)
      BY ONLY <1>12, <1>15, <1>16, <1>17
    <2>2. NatOf(tr) + Pow(B, n) * y0 = N * p
      BY ONLY <1>4 DEF tr, y0
    <2>3. y0 \in Int
      BY ONLY <1>4, <1>6 DEF y0
    <2>4. Pow(B, n) * y0 \in Int
      <3> DEFINE b == Pow(B, n)
      <3>1. b \in Int
        BY ONLY <1>5 DEF n
      <3> HIDE DEF b
      <3>2. b * y0 \in Int
        BY ONLY <2>3, <3>1
      <3> QED
        BY ONLY <3>2 DEF b
    <2> DEFINE e1 == Pow(B, n) * y0
               e2 == NatOf(tr)
    <2>5. d1 * Q + c1 = e1 + e2 /\ e2 + e1 = N * p /\ e1 \in Int /\ e2 \in Int
      BY ONLY <1>17, <2>1, <2>2, <2>4
    <2> HIDE DEF e1, e2
    <2>6. d1 * Q + c1 = N * p
      BY ONLY <2>5
    <2> QED
      BY ONLY <1>1, <2>6
  <1>19. Undone(N, d, p, Q, c1)
    <2>1. c1 \in 0 .. d * p - 1
      <3>1. 0 \in 0 .. n
        BY ONLY <1>4
      <3> QED
        BY ONLY <1>1, <1>12, <3>1
    <2> QED
      BY ONLY <1>16, <1>18, <2>1 DEF Undone
  <1> HIDE DEF Q, c1, p, N
  <1>20. c1 \div p \in 0 .. d - 1 /\ N = d * Q + (c1 \div p)
    BY ONLY <1>5, <1>6, <1>19, Unscaled
  <1>21. e.q = qs /\ e.r = c1 \div p
    BY ONLY <1>3, <1>12 DEF qs, c1
  <1>22. IsQuotient(e.q, e.r, n, N, d)
    BY ONLY <1>16, <1>20, <1>21 DEF IsQuotient, Q
  <1> QED
    BY ONLY <1>22 DEF e, n, N

LEMMA ShiftInIs ==
  ASSUME NEW np \in Seq(Limb), NEW s \in Nat, s < LimbBits
  PROVE  /\ \A j \in 2 .. Len(np) : Shifted(np, s).r[j] = ShiftIn(np[j], np[j - 1], s)
         /\ Len(np) >= 1 => Shifted(np, s).r[1] = Wrap(np[1] * Pow(2, s))
  <1> DEFINE n == Len(np)
             r == Shifted(np, s).r
  <1>1. n \in Nat /\ \A i \in 1 .. n : np[i] \in 0 .. B - 1
    <2>1. Limb = 0 .. B - 1
      BY LimbsAre
    <2> QED
      BY ONLY <2>1, NatOfIs, np \in Seq(Limb)
  <1>2. CASE s > 0
    <2>1. r = mpn_lshift(np, s).r
      BY <1>2 DEF Shifted
    <2>2. r = [i \in 1 .. n |-> Wrap(np[i] * Pow(2, s))
                                + IF i = 1 THEN 0 ELSE np[i - 1] \div Pow(2, LimbBits - s)]
      BY ONLY <2>1 DEF mpn_lshift
    <2> HIDE DEF r
    <2>3. ASSUME NEW j \in 2 .. n PROVE r[j] = ShiftIn(np[j], np[j - 1], s)
      <3>1. j \in 1 .. n /\ j # 1
        BY ONLY <1>1, j \in 2 .. n
      <3> QED
        BY ONLY <2>2, <3>1 DEF ShiftIn
    <2>4. n >= 1 => r[1] = Wrap(np[1] * Pow(2, s))
      <3>1. ASSUME n >= 1 PROVE r[1] = Wrap(np[1] * Pow(2, s))
        <4> DEFINE w == Wrap(np[1] * Pow(2, s))
        <4>1. 1 \in 1 .. n /\ np[1] \in Int
          BY ONLY <1>1, <3>1
        <4>2. r[1] = w + 0
          BY ONLY <2>2, <4>1
        <4>3. w \in Int
          <5> DEFINE p == Pow(2, s)
                     a == np[1] * p
          <5>1. p \in Nat
            BY TwoPow
          <5> HIDE DEF p
          <5>2. a \in Int
            BY ONLY <4>1, <5>1
          <5> HIDE DEF a
          <5>3. B \in Nat \ {0} /\ Wrap(a) = a % B
            BY <5>2, LimbsAre
          <5>4. a % B \in Int
            BY ONLY <5>2, <5>3
          <5> QED
            BY ONLY <5>3, <5>4 DEF a, p
        <4> HIDE DEF w
        <4>4. r[1] = w
          BY ONLY <4>2, <4>3
        <4> QED
          BY ONLY <4>4 DEF w
      <3> QED
        BY <3>1
    <2> QED
      BY <2>3, <2>4 DEF r
  <1>3. CASE ~(s > 0)
    <2>1. s = 0 /\ r = np
      BY <1>3 DEF Shifted
    <2>2. Pow(2, s) = 1
      BY <2>1, PowRec
    <2>3. Pow(2, LimbBits - s) = B
      <3>1. LimbBits \in Nat /\ B = Pow(2, LimbBits)
        BY LimbsAre
      <3>2. LimbBits - s = LimbBits
        <4> HIDE DEF LimbBits
        <4> QED
          BY ONLY <2>1, <3>1
      <3> QED
        BY ONLY <3>1, <3>2
    <2>4. ASSUME NEW a \in 0 .. B - 1 PROVE Wrap(a * Pow(2, s)) = a /\ a \div B = 0
      <3>1. B \in Nat \ {0}
        BY LimbsAre
      <3>2. a * Pow(2, s) = a
        BY ONLY <2>2, <3>1, a \in 0 .. B - 1
      <3>3. Wrap(a) = a
        BY LimbBase
      <3>4. a \div B = 0
        BY ONLY <3>1, ModSmall, a \in 0 .. B - 1
      <3> QED
        BY ONLY <3>2, <3>3, <3>4
    <2>5. ASSUME NEW j \in 2 .. n PROVE r[j] = ShiftIn(np[j], np[j - 1], s)
      <3>1. j \in 1 .. n /\ j - 1 \in 1 .. n
        BY ONLY <1>1, j \in 2 .. n
      <3> DEFINE a == np[j]
                 b == np[j - 1]
      <3>2. a \in 0 .. B - 1 /\ b \in 0 .. B - 1
        BY ONLY <1>1, <3>1
      <3>3. Wrap(a * Pow(2, s)) = a /\ b \div B = 0
        BY ONLY <2>4, <3>2
      <3>4. ShiftIn(a, b, s) = a + 0
        BY ONLY <2>3, <3>3 DEF ShiftIn
      <3> HIDE DEF a, b
      <3>5. ShiftIn(a, b, s) = a
        BY ONLY <3>2, <3>4, LimbBase
      <3> QED
        BY ONLY <2>1, <3>5 DEF a, b
    <2>6. ASSUME n >= 1 PROVE r[1] = Wrap(np[1] * Pow(2, s))
      <3>1. np[1] \in 0 .. B - 1
        BY ONLY <1>1, <2>6
      <3> QED
        BY ONLY <2>1, <2>4, <3>1
    <2> QED
      BY <2>5, <2>6
  <1> QED
    BY <1>2, <1>3

\* The arithmetic of a number that is shifted until its top limb is full.
ShiftsFull(N, P, b, a, p, q, lo, M, c, hi, lo2) ==
    /\ P \in Nat \ {0} /\ b \in Nat \ {0} /\ a \in Nat \ {0} /\ p \in Nat \ {0} /\ q \in Nat \ {0}
    /\ b = p * q /\ a * p < b /\ lo \in 0 .. P - 1 /\ N = lo + P * a
    /\ M \in Nat /\ c \in Nat /\ M + (P * b) * c = N * p
    /\ hi \in Nat /\ lo2 \in 0 .. P - 1 /\ M = lo2 + P * hi

LEMMA FullShift ==
  ASSUME NEW N, NEW P, NEW b, NEW a, NEW p, NEW q, NEW lo, NEW M, NEW c, NEW hi, NEW lo2,
         ShiftsFull(N, P, b, a, p, q, lo, M, c, hi, lo2)
  PROVE  M = N * p /\ c = 0 /\ a * p <= hi
  <1>1. /\ P \in Nat \ {0} /\ b \in Nat \ {0} /\ a \in Nat \ {0} /\ p \in Nat \ {0} /\ q \in Nat \ {0}
        /\ b = p * q /\ a * p < b /\ lo \in Int /\ lo >= 0 /\ lo < P /\ N = lo + P * a
        /\ M \in Nat /\ c \in Nat /\ M + (P * b) * c = N * p
        /\ hi \in Nat /\ lo2 \in Int /\ lo2 >= 0 /\ lo2 < P /\ M = lo2 + P * hi
    BY DEF ShiftsFull
  <1>2. (a + 1) * p <= b
    <2>1. p * a < p * q
      BY ONLY <1>1
    <2>2. a < q
      BY ONLY <1>1, <2>1, ProductOrder
    <2>3. a + 1 \in Int /\ q \in Int /\ a + 1 <= q
      BY ONLY <1>1, <2>2
    <2> DEFINE e == a + 1
    <2>4. e \in Int /\ q \in Int /\ e <= q
      BY ONLY <2>3
    <2> HIDE DEF e
    <2>5. p * e <= p * q
      BY ONLY <1>1, <2>4, ProductOrder
    <2>6. p * e = e * p
      BY ONLY <1>1, <2>4
    <2>7. e * p <= b
      BY ONLY <1>1, <2>5, <2>6
    <2> QED
      BY ONLY <2>7 DEF e
  <1> DEFINE w == a * p
             g == N * p
  <1>3. w \in Nat /\ w + p <= b
    <2>1. (a + 1) * p = w + p /\ w \in Nat
      BY ONLY <1>1
    <2> QED
      BY ONLY <1>2, <2>1
  <1>4. g = lo * p + P * w
    <2>1. (lo + P * a) * p = lo * p + P * (a * p)
      BY ONLY <1>1
    <2> QED
      BY ONLY <1>1, <2>1
  <1>5. lo * p \in Nat /\ lo * p < P * p
    <2>1. p * lo < p * P
      BY ONLY <1>1, ProductOrder
    <2>2. p * lo = lo * p /\ p * P = P * p /\ lo * p \in Nat
      BY ONLY <1>1
    <2> QED
      BY ONLY <2>1, <2>2
  <1> HIDE DEF w
  <1>6. P * w \in Nat /\ P * p \in Nat /\ P * b \in Nat /\ P * w + P * p <= P * b
    <2>1. P * w \in Nat /\ P * p \in Nat /\ P * b \in Nat /\ P * (w + p) = P * w + P * p
      BY ONLY <1>1, <1>3
    <2> DEFINE e == w + p
    <2>2. e \in Int /\ e <= b
      BY ONLY <1>1, <1>3
    <2> HIDE DEF e
    <2>3. P * e <= P * b
      BY ONLY <1>1, <2>2, ProductOrder
    <2>4. P * w + P * p <= P * b
      BY ONLY <2>1, <2>3 DEF e
    <2> QED
      BY ONLY <2>1, <2>4
  <1>7. g \in Nat /\ g < P * b /\ g >= P * w
    <2> DEFINE e1 == lo * p
               e2 == P * w
               e3 == P * p
               e4 == P * b
    <2>1. e1 \in Nat /\ e1 < e3 /\ e2 \in Nat /\ e3 \in Nat /\ e4 \in Nat /\ e2 + e3 <= e4 /\ g = e1 + e2
      BY ONLY <1>4, <1>5, <1>6
    <2> HIDE DEF e1, e2, e3, e4, g
    <2>2. g \in Nat /\ g < e4 /\ g >= e2
      BY ONLY <2>1
    <2> QED
      BY ONLY <2>2 DEF e2, e4
  <1>8. c = 0
    <2>1. ASSUME c # 0 PROVE FALSE
      <3>1. (P * b) * 1 <= (P * b) * c
        <4> DEFINE f == P * b
        <4>1. f \in Nat /\ 1 \in Int /\ c \in Int /\ 1 <= c
          BY ONLY <1>1, <1>6, <2>1
        <4> HIDE DEF f
        <4>2. f * 1 <= f * c
          BY ONLY <4>1, ProductOrder
        <4> QED
          BY ONLY <4>2 DEF f
      <3> DEFINE f == P * b
                 h == f * c
      <3>2. f \in Nat /\ f * 1 = f /\ h \in Nat
        BY ONLY <1>1, <1>6
      <3>3. f <= h /\ M + h = g /\ g < f
        BY ONLY <1>1, <1>7, <3>1, <3>2
      <3> HIDE DEF f, h, g
      <3> QED
        BY ONLY <1>1, <3>2, <3>3
    <2> QED
      BY <2>1
  <1>9. M = g
    <2>1. (P * b) * c = 0
      BY ONLY <1>6, <1>8
    <2>2. M + 0 = g
      BY ONLY <1>1, <2>1
    <2> HIDE DEF g
    <2> QED
      BY ONLY <1>1, <2>2
  <1>10. w <= hi
    <2>1. ASSUME hi + 1 <= w PROVE FALSE
      <3> DEFINE e == hi + 1
                 f == P * hi
                 h == P * w
      <3>1. e \in Int /\ e <= w /\ w \in Int /\ P * e = f + P /\ f \in Nat
        BY ONLY <1>1, <1>3, <2>1
      <3> HIDE DEF e
      <3>2. P * e <= h
        BY ONLY <1>1, <3>1, ProductOrder
      <3>3. M = lo2 + f /\ M >= h /\ h \in Int
        BY ONLY <1>1, <1>6, <1>7, <1>9
      <3> HIDE DEF f, h
      <3> QED
        BY ONLY <1>1, <3>1, <3>2, <3>3
    <2> QED
      BY ONLY <1>1, <1>3, <2>1
  <1> QED
    BY <1>8, <1>9, <1>10 DEF g, w

LEMMA DivisorShifted ==
  ASSUME NEW dp \in Seq(Limb), Trimmed(dp), dp # <<>>
  PROVE  LET n == Len(dp)
             s == gmp_clz(dp[n])
             t == Shifted(dp, s)
         IN  /\ n \in Nat \ {0} /\ dp[n] \in Limb /\ dp[n] # 0 /\ s \in Nat /\ s < LimbBits
             /\ t.r \in Seq(Limb) /\ Len(t.r) = n /\ NatOf(t.r) = NatOf(dp) * Pow(2, s)
             /\ Pow(2, s) \in Nat \ {0} /\ t.r[n] \in Limb /\ B <= 2 * t.r[n] /\ Pow(2, s) <= t.r[n]
  <1> DEFINE n == Len(dp)
             a == dp[n]
             s == gmp_clz(a)
             p == Pow(2, s)
             q == Pow(2, LimbBits - s)
             t == Shifted(dp, s)
             P == Pow(B, n - 1)
             N == NatOf(dp)
             M == NatOf(t.r)
             lo == NatOf(SubSeq(dp, 1, n - 1))
             lo2 == NatOf(SubSeq(t.r, 1, n - 1))
             hi == t.r[n]
             cy == t.cy
  <1>1. /\ n \in Nat \ {0} /\ n - 1 \in Nat /\ a \in Limb /\ N = lo + P * a
        /\ SubSeq(dp, 1, n - 1) \in Seq(Limb) /\ Len(SubSeq(dp, 1, n - 1)) = n - 1
    BY TopLimb
  <1>2. a # 0
    BY DEF Trimmed
  <1>3. s \in Nat /\ s < LimbBits /\ HighBit <= a * p /\ a * p < B /\ p \in Nat \ {0}
    BY ONLY <1>1, <1>2, ClzIs
  <1>4. /\ t.cy \in Limb /\ t.r \in Seq(Limb) /\ Len(t.r) = n /\ M + Pow(B, n) * cy = N * p
    BY ONLY <1>3, ShiftedIs, dp \in Seq(Limb), dp # <<>>
  <1>5. lo \in 0 .. P - 1 /\ P \in Nat \ {0}
    <2> DEFINE l == SubSeq(dp, 1, n - 1)
    <2>1. l \in Seq(Limb) /\ Len(l) = n - 1
      BY ONLY <1>1
    <2> HIDE DEF l
    <2>2. NatOf(l) \in Nat /\ NatOf(l) < P /\ P \in Nat \ {0}
      BY ONLY <2>1, NatOfIs
    <2> HIDE DEF P
    <2>3. NatOf(l) \in 0 .. P - 1 /\ P \in Nat \ {0}
      BY ONLY <2>2
    <2> QED
      BY ONLY <2>3 DEF l
  <1>6. lo2 \in 0 .. P - 1 /\ M = lo2 + P * hi /\ hi \in Limb /\ M \in Nat
    <2> DEFINE tr == t.r
    <2>1. tr \in Seq(Limb) /\ Len(tr) = n /\ tr # <<>>
      <3>1. tr \in Seq(Limb) /\ Len(tr) = n
        BY ONLY <1>4
      <3> HIDE DEF tr
      <3> QED
        BY ONLY <1>1, <3>1, EmptySeq
    <2> HIDE DEF tr
    <2>2. /\ NatOf(tr) = NatOf(SubSeq(tr, 1, n - 1)) + P * tr[n] /\ tr[n] \in Limb
          /\ SubSeq(tr, 1, n - 1) \in Seq(Limb) /\ Len(SubSeq(tr, 1, n - 1)) = n - 1
      BY ONLY <2>1, TopLimb
    <2> DEFINE l == SubSeq(tr, 1, n - 1)
    <2>3. l \in Seq(Limb) /\ Len(l) = n - 1
      BY ONLY <2>2
    <2> HIDE DEF l
    <2>4. NatOf(l) \in Nat /\ NatOf(l) < P /\ P \in Nat \ {0}
      BY ONLY <2>3, NatOfIs
    <2>5. NatOf(tr) \in Nat
      BY ONLY <2>1, NatOfIs
    <2> HIDE DEF P
    <2>6. NatOf(l) \in 0 .. P - 1
      BY ONLY <2>4
    <2> QED
      BY ONLY <2>2, <2>5, <2>6 DEF l, tr
  <1>7. B \in Nat \ {0} /\ Limb = 0 .. B - 1 /\ B = 2 * HighBit /\ HighBit \in Nat
    BY LimbsAre
  <1>8. B = p * q /\ q \in Nat \ {0}
    <2>1. s <= LimbBits
      <3>1. LimbBits \in Nat
        BY LimbsAre
      <3> HIDE DEF LimbBits
      <3> QED
        BY ONLY <1>3, <3>1
    <2>2. CutAt(B, p, q)
      BY ONLY <1>3, <2>1, ShiftCut
    <2> QED
      BY ONLY <2>2 DEF CutAt
  <1>9. Pow(B, n) = P * B
    <2> DEFINE m == n - 1
    <2>1. m \in Nat /\ m + 1 = n /\ B \in Int
      BY ONLY <1>1, <1>7
    <2> HIDE DEF m, n
    <2>2. Pow(B, m + 1) = B * Pow(B, m) /\ Pow(B, m) \in Int
      BY ONLY <2>1, PowRec
    <2>3. B * Pow(B, m) = Pow(B, m) * B
      <3> DEFINE e == Pow(B, m)
      <3>1. e \in Int
        BY ONLY <2>2
      <3> HIDE DEF e
      <3>2. B * e = e * B
        BY ONLY <1>7, <3>1
      <3> QED
        BY ONLY <3>2 DEF e
    <2> QED
      BY ONLY <2>1, <2>2, <2>3 DEF m
  <1> HIDE DEF P, p, q, lo, lo2, M, N, hi, cy
  <1>10. ShiftsFull(N, P, B, a, p, q, lo, M, cy, hi, lo2)
    <2>1. a \in Nat \ {0} /\ hi \in Nat /\ cy \in Nat
      BY ONLY <1>1, <1>2, <1>4, <1>6, <1>7 DEF cy
    <2> QED
      BY ONLY <1>1, <1>3, <1>4, <1>5, <1>6, <1>7, <1>8, <1>9, <2>1 DEF ShiftsFull
  <1>11. M = N * p /\ a * p <= hi
    BY ONLY <1>10, FullShift
  <1>a. a \in Nat /\ 1 <= a /\ a \in Int
    <2>1. a \in 0 .. B - 1
      BY ONLY <1>1, <1>7
    <2> HIDE DEF a
    <2> QED
      BY ONLY <1>2, <1>7, <2>1
  <1>12. B <= 2 * hi /\ p <= hi
    <2> HIDE DEF a
    <2>1. p * 1 <= p * a /\ p * a = a * p
      <3>1. 1 \in Int /\ a \in Int /\ 1 <= a /\ p * a = a * p
        BY ONLY <1>a, <1>3
      <3> QED
        BY ONLY <1>3, <3>1, ProductOrder
    <2> DEFINE w == a * p
    <2>2. w \in Int
      BY ONLY <1>a, <1>3
    <2>3. HighBit <= w /\ w <= hi /\ p * 1 <= w
      BY ONLY <1>3, <1>11, <2>1
    <2> HIDE DEF w
    <2>4. hi \in Int
      BY ONLY <1>6, <1>7
    <2> QED
      BY ONLY <1>3, <1>7, <2>2, <2>3, <2>4
  <1> QED
    BY ONLY <1>1, <1>2, <1>3, <1>4, <1>6, <1>11, <1>12 DEF M, N, p, hi

\* The inverse of a divisor of two limbs or more, made from its top two limbs
\* when it is shifted.
LEMMA InverseOfMore ==
  ASSUME NEW dp \in Seq(Limb), Trimmed(dp), Len(dp) >= 2
  PROVE  LET n == Len(dp)
             s == gmp_clz(dp[n])
             dd == Shifted(dp, s).r
             inv == mpn_div_qr_invert(dp)
         IN  /\ inv.shift = s /\ inv.d1 = dd[n] /\ inv.d0 = dd[n - 1] /\ inv.di \in Limb
             /\ dd[n] \in Limb /\ dd[n - 1] \in Limb
             /\ \E k \in Nat : Divisor(B, dd[n], dd[n - 1], dd[n] * B + dd[n - 1], inv.di, k)
  <1> DEFINE n == Len(dp)
             s == gmp_clz(dp[n])
             dd == Shifted(dp, s).r
             inv == mpn_div_qr_invert(dp)
             d1 == dd[n]
             d0 == dd[n - 1]
  <1>1. dp # <<>> /\ n \in Nat /\ n >= 2
    <2>1. n \in Nat
      BY NatOfIs
    <2>2. Len(<<>>) = 0
      BY EmptySeq
    <2> QED
      BY <2>1, <2>2
  <1>n. n \in Nat /\ n >= 2
    BY ONLY <1>1
  <1>2. s \in Nat /\ s < LimbBits /\ dd \in Seq(Limb) /\ Len(dd) = n /\ d1 \in Limb /\ B <= 2 * d1
    BY ONLY <1>1, DivisorShifted, dp \in Seq(Limb), Trimmed(dp)
  <1>3. d0 \in Limb
    <2>1. n - 1 \in 1 .. Len(dd)
      <3> HIDE DEF n
      <3> QED
        BY ONLY <1>1, <1>2
    <2> HIDE DEF dd
    <2> QED
      BY ONLY <1>2, <2>1, NatOfIs
  <1>4. /\ n > 2 => d1 = ShiftIn(dp[n], dp[n - 1], s) /\ d0 = ShiftIn(dp[n - 1], dp[n - 2], s)
        /\ n = 2 => d1 = ShiftIn(dp[2], dp[1], s) /\ d0 = Wrap(dp[1] * Pow(2, s))
    <2>1. /\ \A j \in 2 .. n : dd[j] = ShiftIn(dp[j], dp[j - 1], s)
          /\ n >= 1 => dd[1] = Wrap(dp[1] * Pow(2, s))
      BY ONLY <1>2, ShiftInIs, dp \in Seq(Limb)
    <2> HIDE DEF dd, n
    <2>2. n \in 2 .. n /\ n >= 1
      BY ONLY <1>1
    <2>3. CASE n > 2
      <3>1. n - 1 \in 2 .. n /\ (n - 1) - 1 = n - 2 /\ n # 2
        BY ONLY <1>1, <2>3
      <3> QED
        BY ONLY <2>1, <2>2, <2>3, <3>1
    <2>4. CASE n = 2
      <3>1. n - 1 = 1 /\ ~(n > 2)
        BY ONLY <2>4
      <3> QED
        BY ONLY <2>1, <2>2, <2>4, <3>1
    <2> QED
      BY ONLY <1>1, <2>3, <2>4
  <1>5. inv.shift = s /\ inv.d1 = d1 /\ inv.d0 = d0 /\ inv.di = mpn_invert_3by2(d1, d0)
    <2> HIDE DEF dd
    <2>1. CASE n > 2
      <3>1. inv = [shift |-> s, d1 |-> ShiftIn(dp[n], dp[n - 1], s), d0 |-> ShiftIn(dp[n - 1], dp[n - 2], s),
                   di |-> mpn_invert_3by2(ShiftIn(dp[n], dp[n - 1], s), ShiftIn(dp[n - 1], dp[n - 2], s))]
        <4>1. n # 1 /\ n # 2
          <5> HIDE DEF n
          <5> QED
            BY ONLY <1>n, <2>1
        <4> QED
          BY ONLY <4>1 DEF mpn_div_qr_invert
      <3> QED
        BY ONLY <1>4, <2>1, <3>1
    <2>2. CASE n = 2
      <3>1. inv = [shift |-> s, d1 |-> ShiftIn(dp[2], dp[1], s), d0 |-> Wrap(dp[1] * Pow(2, s)),
                   di |-> mpn_invert_3by2(ShiftIn(dp[2], dp[1], s), Wrap(dp[1] * Pow(2, s)))]
        <4>1. s = gmp_clz(dp[2]) /\ n # 1
          BY ONLY <2>2
        <4>2. inv = mpn_div_qr_2_invert(dp[2], dp[1])
          BY ONLY <2>2, <4>1 DEF mpn_div_qr_invert
        <4> QED
          BY ONLY <4>1, <4>2 DEF mpn_div_qr_2_invert
      <3> QED
        BY ONLY <1>4, <2>2, <3>1
    <2> HIDE DEF n
    <2>3. n > 2 \/ n = 2
      BY ONLY <1>n
    <2> QED
      BY ONLY <2>1, <2>2, <2>3
  <1> HIDE DEF d1, d0, inv, dd
  <1>6. inv.di \in Limb /\ \E k \in Nat : Divisor(B, d1, d0, d1 * B + d0, inv.di, k)
    BY ONLY <1>2, <1>3, <1>5, InvertIs
  <1> QED
    BY ONLY <1>2, <1>3, <1>5, <1>6 DEF d1, d0, inv, dd

\* The remainder of shifted numbers, shifted back.
ShiftedBack(r, s) == IF s > 0 THEN mpn_rshift(r, s).r ELSE r

LEMMA ShiftedBackIs ==
  ASSUME NEW r \in Seq(Limb), r # <<>>, NEW s \in Nat, s < LimbBits,
         NEW N \in Nat, NEW d \in Nat \ {0}, NEW q, Undone(N, d, Pow(2, s), q, NatOf(r))
  PROVE  LET e == ShiftedBack(r, s) IN
         e \in Seq(Limb) /\ Len(e) = Len(r) /\ NatOf(e) \in 0 .. d - 1 /\ N = d * q + NatOf(e)
  <1> DEFINE p == Pow(2, s)
             R == NatOf(r)
             e == ShiftedBack(r, s)
             E == NatOf(e)
  <1>1. p \in Nat \ {0} /\ R \in Nat
    BY TwoPow, NatOfIs
  <1>2. R \div p \in 0 .. d - 1 /\ N = d * q + (R \div p)
    <2>1. Undone(N, d, p, q, R)
      OBVIOUS
    <2>2. p \in Nat \ {0}
      BY ONLY <1>1
    <2> HIDE DEF p, R
    <2>3. R \div p \in 0 .. d - 1 /\ N = d * q + (R \div p)
      BY ONLY <2>1, <2>2, Unscaled, N \in Nat, d \in Nat \ {0}
    <2> QED
      BY ONLY <2>3
  <1>3. e \in Seq(Limb) /\ Len(e) = Len(r) /\ E = R \div p
    <2>1. CASE s > 0
      <3>1. e = mpn_rshift(r, s).r
        BY ONLY <2>1 DEF ShiftedBack
      <3>2. /\ e \in Seq(Limb) /\ Len(e) = Len(r) /\ r[1] % p \in 0 .. p - 1 /\ R = p * E + (r[1] % p)
        BY ONLY <3>1, RightShiftIs, r \in Seq(Limb), r # <<>>, s \in Nat, s < LimbBits
      <3> HIDE DEF e
      <3>3. E \in Nat
        BY ONLY <3>2, NatOfIs
      <3> DEFINE m == r[1] % p
      <3>4. m \in 0 .. p - 1 /\ R = p * E + m /\ E \in Int
        BY ONLY <3>2, <3>3
      <3> HIDE DEF m, E, R, p
      <3>5. R \div p = E
        BY ONLY <1>1, <3>4, DivisionIs
      <3> QED
        BY ONLY <3>2, <3>5
    <2>2. CASE ~(s > 0)
      <3>1. e = r /\ s = 0
        BY <2>2 DEF ShiftedBack
      <3>2. p = 1
        BY <3>1, PowRec
      <3>3. E = R
        BY ONLY <3>1
      <3> HIDE DEF R, p, E
      <3>4. R \div p = R
        BY ONLY <1>1, <3>2
      <3> QED
        BY ONLY <3>1, <3>3, <3>4, r \in Seq(Limb)
    <2> QED
      BY <2>1, <2>2
  <1> QED
    BY ONLY <1>2, <1>3 DEF E, p, e

\* Quotient and remainder in limbs.
IsDivided(e, np, dp) ==
    /\ e.q \in Seq(Limb) /\ Len(e.q) = (Len(np) - Len(dp)) + 1
    /\ e.r \in Seq(Limb) /\ NatOf(e.r) \in 0 .. NatOf(dp) - 1
    /\ NatOf(np) = NatOf(dp) * NatOf(e.q) + NatOf(e.r)

LEMMA DownIs ==
  ASSUME NEW r1 \in Limb, NEW r0 \in Limb, NEW s \in Nat, s < LimbBits
  PROVE  /\ Down(r1, r0, s) = ShiftedBack(<<r0, r1>>, s)
         /\ <<r0, r1>> \in Seq(Limb) /\ Len(<<r0, r1>>) = 2 /\ NatOf(<<r0, r1>>) = r1 * B + r0
         /\ <<r0, r1>> # <<>>
  <1> DEFINE w == <<r0, r1>>
  <1>1. w \in Seq(Limb) /\ Len(w) = 2 /\ w[1] = r0 /\ w[2] = r1 /\ w # <<>>
    OBVIOUS
  <1>2. NatOf(w) = r1 * B + r0
    <2>1. <<r0>> \in Seq(Limb) /\ Len(<<r0>>) = 1 /\ NatOf(<<r0>>) = r0
      BY ONLY NatOfShort, r0 \in Limb
    <2>2. NatOf(Append(<<r0>>, r1)) = NatOf(<<r0>>) + Pow(B, Len(<<r0>>)) * r1
      BY ONLY <2>1, NatOfAppend, r1 \in Limb
    <2> DEFINE v == Append(<<r0>>, r1)
    <2>5. v \in Seq(Limb) /\ Len(v) = 2 /\ v[1] = r0 /\ v[2] = r1
      OBVIOUS
    <2>6. \A i \in 1 .. 2 : w[i] = v[i]
      BY ONLY <1>1, <2>5
    <2> HIDE DEF v, w
    <2>7. Number(B, w, 2) = NatOf(v)
      BY ONLY <2>5, <2>6, NatOfSame
    <2>8. NatOf(w) = Number(B, w, 2)
      BY ONLY <1>1, NatOfIs
    <2>3. NatOf(w) = NatOf(Append(<<r0>>, r1))
      BY ONLY <2>7, <2>8 DEF v
    <2>4. Pow(B, 1) = B /\ B \in Nat /\ r0 \in Int /\ r1 \in Int
      BY LimbsAre, LimbIs, PowOne
    <2>9. NatOf(w) = r0 + B * r1
      BY ONLY <2>1, <2>2, <2>3, <2>4
    <2> QED
      BY ONLY <2>4, <2>9
  <1>3. Down(r1, r0, s) = ShiftedBack(w, s)
    <2>1. CASE s = 0
      BY ONLY <2>1 DEF Down, ShiftedBack
    <2>2. CASE s # 0
      <3>1. s > 0
        BY ONLY <2>2, s \in Nat
      <3>2. ShiftedBack(w, s) = [i \in 1 .. Len(w) |-> w[i] \div Pow(2, s)
                                   + IF i = Len(w) THEN 0 ELSE Wrap(w[i + 1] * Pow(2, LimbBits - s))]
        BY ONLY <3>1 DEF ShiftedBack, mpn_rshift
      <3>3. Down(r1, r0, s) = <<r0 \div Pow(2, s) + Wrap(r1 * Pow(2, LimbBits - s)), r1 \div Pow(2, s)>>
        BY ONLY <2>2 DEF Down
      <3> DEFINE v == ShiftedBack(w, s)
                 h == r1 \div Pow(2, s)
                 l == r0 \div Pow(2, s) + Wrap(r1 * Pow(2, LimbBits - s))
      <3> HIDE DEF v, w
      <3>4. v = [i \in 1 .. 2 |-> w[i] \div Pow(2, s)
                                   + IF i = 2 THEN 0 ELSE Wrap(w[i + 1] * Pow(2, LimbBits - s))]
        BY ONLY <1>1, <3>2 DEF v
      <3>5. v[1] = l
        <4>1. 1 \in 1 .. 2 /\ 1 # 2 /\ 1 + 1 = 2
          OBVIOUS
        <4> QED
          BY ONLY <1>1, <3>4, <4>1
      <3>6. v[2] = h
        <4>1. v[2] = h + 0
          <5>1. 2 \in 1 .. 2
            OBVIOUS
          <5> QED
            BY ONLY <1>1, <3>4, <5>1
        <4>2. h \in Int
          <5> DEFINE p == Pow(2, s)
          <5>1. p \in Nat \ {0} /\ r1 \in Int
            BY TwoPow, LimbIs
          <5> HIDE DEF p
          <5>2. r1 \div p \in Int
            BY ONLY <5>1, DivMod
          <5> QED
            BY ONLY <5>2 DEF p
        <4> HIDE DEF h
        <4> QED
          BY ONLY <4>1, <4>2
      <3> HIDE DEF h, l
      <3>7. v = <<l, h>>
        <4>1. v = [i \in 1 .. 2 |-> v[i]]
          BY ONLY <3>4
        <4>2. v = [i \in 1 .. 2 |-> IF i = 1 THEN l ELSE h]
          BY ONLY <3>5, <3>6, <4>1
        <4> QED
          BY ONLY <4>2
      <3> QED
        BY ONLY <3>3, <3>7 DEF v, h, l
    <2> QED
      BY ONLY <2>1, <2>2
  <1> QED
    BY ONLY <1>1, <1>2, <1>3 DEF w

\* The chain of mpn_div_qr_2_preinv: c is handed down as a pair of limbs.
TwoSteps(l, n, d1, d0, di) ==
    [i \in 1 .. n |-> [r \in Limb \X Limb |-> HandDown(gmp_udiv_qr_3by2(r[1], r[2], l[i], d1, d0, di))]]

LEMMA ChainByTwo ==
  ASSUME NEW l \in Seq(Limb), NEW n \in Nat, n + 1 = Len(l), NEW cy \in Limb,
         NEW d1, NEW d0, NEW d, NEW di, NEW k, Divisor(B, d1, d0, d, di, k), di \in Limb,
         cy * B + l[n + 1] < d
  PROVE  LET c == ChainDown(TwoSteps(l, n, d1, d0, di), n, <<cy, l[n + 1]>>)
             v == c.cy[1] * B + c.cy[2]
         IN  /\ c.r \in Seq(Limb) /\ Len(c.r) = n /\ c.cy[1] \in Limb /\ c.cy[2] \in Limb
             /\ v \in 0 .. d - 1 /\ d * NatOf(c.r) + v = NatOf(l) + Pow(B, n + 1) * cy
  <1> DEFINE step == TwoSteps(l, n, d1, d0, di)
             top == l[n + 1]
             c0 == <<cy, top>>
             V(e) == e[1] * B + e[2]
             C == {e \in Limb \X Limb : V(e) < d}
             c == ChainDown(step, n, c0)
  <1>1. B \in Nat \ {0} /\ Limb = 0 .. B - 1
    BY LimbsAre
  <1>2. d \in Nat
    BY DEF Divisor
  <1>3. \A i \in 1 .. n + 1 : l[i] \in Limb /\ l[i] \in Int
    BY NatOfIs
  <1>4. top \in Limb /\ n + 1 \in 1 .. n + 1 /\ \A i \in 1 .. n : i \in 1 .. n + 1
    <2>1. n + 1 \in 1 .. n + 1 /\ \A i \in 1 .. n : i \in 1 .. n + 1
      BY ONLY n \in Nat
    <2> QED
      BY ONLY <1>3, <2>1
  <1>5. c0 \in C
    <2>1. c0[1] = cy /\ c0[2] = top /\ c0 \in Limb \X Limb
      BY ONLY <1>4, cy \in Limb
    <2> HIDE DEF c0
    <2> QED
      BY ONLY <2>1, cy * B + l[n + 1] < d
  <1>6. ASSUME NEW i \in 1 .. n, NEW e \in C
        PROVE  step[i][e] \in Limb \X C /\ V(e) * B + l[i] = step[i][e][1] * d + V(step[i][e][2])
    <2> DEFINE e1 == e[1]
               e2 == e[2]
               li == l[i]
               t == gmp_udiv_qr_3by2(e1, e2, li, d1, d0, di)
               t1 == t[1]
               t2 == t[2]
               t3 == t[3]
    <2>1. e1 \in Limb /\ e2 \in Limb /\ e1 * B + e2 < d /\ e \in Limb \X Limb /\ li \in Limb
      BY ONLY <1>3, <1>4, e \in C, i \in 1 .. n
    <2>2. step[i][e] = <<t1, <<t2, t3>>>>
      BY ONLY <2>1, i \in 1 .. n DEF TwoSteps, HandDown
    <2> HIDE DEF e1, e2, li, t, step
    <2>3. Dividend(B, d, e1, e2, li)
      BY ONLY <1>1, <2>1 DEF Dividend
    <2>4. IsThree(t) /\ Division(B, d, (e1 * B + e2) * B + li, t1, t2 * B + t3)
      BY ONLY <2>3, DivideThreeByTwo, Divisor(B, d1, d0, d, di, k), di \in Limb DEF t
    <2> HIDE DEF t1, t2, t3
    <2>5. t1 \in Limb /\ t2 \in Limb /\ t3 \in Limb
      BY ONLY <2>4 DEF IsThree, t1, t2, t3
    <2> DEFINE w == t2 * B + t3
               z == (e1 * B + e2) * B + li
    <2>6. w \in 0 .. d - 1 /\ z = t1 * d + w
      BY ONLY <2>4 DEF Division
    <2>7. w < d
      <3> HIDE DEF w
      <3> QED
        BY ONLY <1>2, <2>6
    <2> DEFINE g == <<t2, t3>>
    <2>8. g[1] = t2 /\ g[2] = t3 /\ g \in Limb \X Limb
      BY ONLY <2>5
    <2>9. step[i][e] = <<t1, g>>
      BY ONLY <2>2
    <2> HIDE DEF g
    <2>10. V(g) = w
      BY ONLY <2>8
    <2>11. g \in C
      BY ONLY <2>7, <2>8, <2>10
    <2>12. V(e) * B + l[i] = z
      BY DEF e1, e2, li
    <2> HIDE DEF C, V, z, w
    <2>13. step[i][e][1] = t1 /\ step[i][e][2] = g
      BY ONLY <2>9
    <2>14. step[i][e] \in Limb \X C
      BY ONLY <2>5, <2>9, <2>11
    <2>15. V(e) * B + l[i] = step[i][e][1] * d + V(step[i][e][2])
      BY ONLY <2>6, <2>10, <2>12, <2>13
    <2> QED
      BY ONLY <2>14, <2>15 DEF V, C
  <1> HIDE DEF step, c
  <1>7. ChainDownIs(c, step, n, Limb, C, c0)
    <2>1. StepsIn(step, n, Limb, C)
      BY ONLY <1>6 DEF StepsIn
    <2> HIDE DEF C, c0
    <2> QED
      BY ONLY <1>5, <2>1, ChainDownRuns, n \in Nat DEF c
  <1>8. PICK cs, es : ChainedDown(c, n, Limb, C, c0, cs, es) /\ FollowsDown(es, step, cs, n)
    BY ONLY <1>7 DEF ChainDownIs
  <1>9. /\ c.r \in Seq(Limb) /\ Len(c.r) = n /\ c.cy = cs[0] /\ cs[n] = c0
        /\ \A i \in 0 .. n : cs[i] \in C
        /\ \A i \in 1 .. n : c.r[i] = es[i][1] /\ cs[i - 1] = es[i][2] /\ es[i] = step[i][cs[i]]
    <2> HIDE DEF C, c0
    <2> QED
      BY ONLY <1>8 DEF ChainedDown, FollowsDown
  <1> DEFINE vs == [i \in 0 .. n |-> V(cs[i])]
             qs == c.r
  <1>10. \A i \in 0 .. n : vs[i] = V(cs[i]) /\ vs[i] \in 0 .. d - 1 /\ vs[i] \in Int
    <2> TAKE i \in 0 .. n
    <2> DEFINE e == cs[i]
               e1 == e[1]
               e2 == e[2]
    <2>1. e \in C
      BY ONLY <1>9
    <2> HIDE DEF e
    <2>2. e1 \in 0 .. B - 1 /\ e2 \in 0 .. B - 1 /\ e1 * B + e2 < d
      BY ONLY <1>1, <2>1
    <2> HIDE DEF e1, e2
    <2>3. e1 * B + e2 \in 0 .. d - 1
      <3>1. e1 * B \in Nat
        BY ONLY <1>1, <2>2
      <3> DEFINE z == e1 * B
      <3>2. z \in Nat /\ z + e2 < d /\ e2 \in Nat
        BY ONLY <2>2, <3>1
      <3> HIDE DEF z
      <3>3. z + e2 \in 0 .. d - 1
        BY ONLY <1>2, <3>2
      <3> QED
        BY ONLY <3>3 DEF z
    <2>4. vs[i] = e1 * B + e2
      BY ONLY i \in 0 .. n DEF e1, e2, e
    <2>5. vs[i] = V(cs[i])
      BY ONLY i \in 0 .. n
    <2> HIDE DEF vs, V
    <2> QED
      BY ONLY <1>2, <2>3, <2>4, <2>5
  <1>11. \A i \in 1 .. n : qs[i] \in Int /\ d * qs[i] + vs[i - 1] = B * vs[i] + l[i]
    <2> TAKE i \in 1 .. n
    <2>1. i \in 0 .. n /\ i - 1 \in 0 .. n
      BY ONLY n \in Nat, i \in 1 .. n
    <2> DEFINE e == cs[i]
               u == step[i][e]
               a == vs[i]
               b == vs[i - 1]
               w == qs[i]
               li == l[i]
    <2>2. e \in C /\ w = u[1] /\ cs[i - 1] = u[2]
      BY ONLY <1>9, <2>1
    <2>3. u \in Limb \X C /\ V(e) * B + li = u[1] * d + V(u[2])
      <3> HIDE DEF e, C, V
      <3> QED
        BY ONLY <1>6, <2>2
    <2>4. a = V(e) /\ b = V(u[2]) /\ a \in Int /\ b \in Int
      <3> HIDE DEF vs, V
      <3> QED
        BY ONLY <1>10, <2>1, <2>2
    <2>5. w \in Int
      <3>1. u[1] \in Limb
        <4> HIDE DEF u, C
        <4> QED
          BY ONLY <2>3
      <3> HIDE DEF u
      <3> QED
        BY ONLY <1>1, <2>2, <3>1
    <2>6. li \in Int
      BY ONLY <1>3, <1>4
    <2>7. a * B + li = w * d + b
      <3> HIDE DEF V, u, a, b, w
      <3> QED
        BY ONLY <2>2, <2>3, <2>4
    <2> HIDE DEF e, u, a, b, w, li
    <2>8. d * w + b = B * a + li
      BY ONLY <1>1, <1>2, <2>4, <2>5, <2>6, <2>7
    <2> QED
      BY ONLY <2>5, <2>8 DEF w, a, b, li
  <1> HIDE DEF vs
  <1>12. d * Number(B, qs, n) + vs[0] = Pow(B, n) * vs[n] + Number(B, l, n)
    <2>1. Ints(qs, n) /\ Ints(l, n)
      BY ONLY <1>3, <1>4, <1>11 DEF Ints
    <2>2. d \in Int /\ B \in Int /\ \A i \in 0 .. n : vs[i] \in Int
      BY ONLY <1>1, <1>2, <1>10
    <2>3. \A i \in 1 .. n : d * qs[i] + vs[i - 1] = B * vs[i] + l[i]
      BY ONLY <1>11
    <2>4. d \in Int /\ B \in Int
      BY ONLY <1>1, <1>2
    <2>5. \A i \in 0 .. n : vs[i] \in Int
      BY ONLY <1>10
    <2> HIDE DEF qs
    <2> QED
      BY ONLY <2>1, <2>3, <2>4, <2>5, NumberCarriedDown, n \in Nat
  <1>13. NatOf(l) = Number(B, l, n) + Pow(B, n) * top /\ Number(B, l, n) \in Int
    <2>1. l # <<>>
      BY EmptySeq
    <2>2. Len(l) - 1 = n
      BY ONLY n + 1 = Len(l), n \in Nat
    <2> DEFINE s == SubSeq(l, 1, n)
    <2>3. NatOf(l) = NatOf(s) + Pow(B, n) * top /\ s \in Seq(Limb) /\ Len(s) = n
      BY ONLY <2>1, <2>2, TopLimb, l \in Seq(Limb), n + 1 = Len(l)
    <2>4. \A i \in 1 .. n : l[i] = s[i]
      <3>1. n \in 0 .. Len(l)
        BY ONLY n \in Nat, n + 1 = Len(l)
      <3> QED
        BY ONLY <3>1, NatOfPieces, l \in Seq(Limb)
    <2> HIDE DEF s
    <2>5. Number(B, l, n) = NatOf(s)
      BY ONLY <2>3, <2>4, NatOfSame
    <2>6. NatOf(s) \in Nat
      BY ONLY <2>3, NatOfIs
    <2> QED
      BY ONLY <2>3, <2>5, <2>6
  <1>14. NatOf(qs) = Number(B, qs, n)
    <2>1. qs \in Seq(Limb) /\ Len(qs) = n
      BY ONLY <1>9
    <2> HIDE DEF qs
    <2> QED
      BY ONLY <2>1, NatOfIs
  <1>15. Pow(B, n + 1) = B * Pow(B, n) /\ Pow(B, n) \in Int
    <2>1. B \in Int /\ n + 1 \in Nat \ {0} /\ (n + 1) - 1 = n
      BY ONLY <1>1, n \in Nat
    <2>2. \A m \in Nat : Pow(B, m + 1) = B * Pow(B, m) /\ Pow(B, m) \in Int
      BY ONLY <2>1, PowRec
    <2> QED
      BY ONLY <2>2, n \in Nat
  <1>16. vs[n] = cy * B + top /\ 0 \in 0 .. n /\ n \in 0 .. n
    <2>1. 0 \in 0 .. n /\ n \in 0 .. n
      BY ONLY n \in Nat
    <2>2. vs[n] = V(c0)
      <3> HIDE DEF V, c0
      <3> QED
        BY ONLY <1>9, <1>10, <2>1
    <2> QED
      BY ONLY <2>1, <2>2
  <1>17. d * NatOf(qs) + vs[0] = NatOf(l) + Pow(B, n + 1) * cy
    <2> DEFINE P == Pow(B, n)
               a == d * NatOf(qs) + vs[0]
               s == Number(B, l, n)
    <2>1. a = P * (cy * B + top) + s /\ NatOf(l) = s + P * top /\ P \in Int /\ Pow(B, n + 1) = B * P /\ s \in Int
      BY ONLY <1>12, <1>13, <1>14, <1>15, <1>16
    <2>2. cy \in Int /\ top \in Int
      BY ONLY <1>1, <1>4, cy \in Limb
    <2> HIDE DEF P, a, s, top
    <2>3. P * (cy * B + top) + s = (s + P * top) + (B * P) * cy
      BY ONLY <1>1, <2>1, <2>2
    <2> QED
      BY ONLY <2>1, <2>3 DEF a
  <1>18. vs[0] = V(c.cy) /\ c.cy[1] \in Limb /\ c.cy[2] \in Limb /\ vs[0] \in 0 .. d - 1
    <2> DEFINE e == cs[0]
    <2>1. e \in C
      BY ONLY <1>9, <1>16
    <2>2. e[1] \in Limb /\ e[2] \in Limb
      <3> HIDE DEF e
      <3> QED
        BY ONLY <2>1
    <2>3. vs[0] = V(e) /\ c.cy = e /\ vs[0] \in 0 .. d - 1
      <3> HIDE DEF V
      <3> QED
        BY ONLY <1>9, <1>10, <1>16
    <2> HIDE DEF e
    <2> QED
      BY ONLY <2>2, <2>3
  <1> QED
    BY ONLY <1>9, <1>17, <1>18 DEF c, step

\* np is q times the divisor and r, both shifted as the divisor dp needs it.
ShiftedQuotient(np, dp, q, r) ==
    LET s == gmp_clz(dp[Len(dp)])
        t == Shifted(np, s)
        d == NatOf(Shifted(dp, s).r)
    IN  q \in Nat /\ r \in 0 .. d - 1 /\ d * q + r = NatOf(t.r) + Pow(B, Len(np)) * t.cy

LEMMA UndoneShift ==
  ASSUME NEW np \in Seq(Limb), np # <<>>, NEW dp \in Seq(Limb), Trimmed(dp), dp # <<>>,
         NEW q, NEW r, ShiftedQuotient(np, dp, q, r)
  PROVE  /\ Undone(NatOf(np), NatOf(dp), Pow(2, gmp_clz(dp[Len(dp)])), q, r)
         /\ NatOf(dp) \in Nat \ {0} /\ NatOf(np) \in Nat
  <1> DEFINE s == gmp_clz(dp[Len(dp)])
             t == Shifted(np, s)
             d == NatOf(Shifted(dp, s).r)
             p == Pow(2, s)
             e == NatOf(dp)
             N == NatOf(np)
             M == NatOf(t.r) + Pow(B, Len(np)) * t.cy
  <1>1. s \in Nat /\ s < LimbBits /\ d = e * p /\ p \in Nat \ {0}
    BY DivisorShifted
  <1>2. M = N * p
    <2> HIDE DEF s
    <2> QED
      BY ONLY <1>1, ShiftedIs, np \in Seq(Limb), np # <<>>
  <1>3. N \in Nat /\ e \in Nat
    BY NatOfIs
  <1>4. q \in Nat /\ r \in 0 .. d - 1 /\ d * q + r = M
    BY DEF ShiftedQuotient
  <1> HIDE DEF s, t, d, p, e, N, M
  <1>5. e # 0
    <2>1. d # 0
      <3>1. d \in Int
        BY ONLY <1>1, <1>3
      <3> QED
        BY ONLY <1>4, <3>1
    <2> QED
      BY ONLY <1>1, <1>3, <2>1
  <1>6. Undone(N, e, p, q, r)
    <2>1. r \in 0 .. e * p - 1 /\ (e * p) * q + r = N * p
      BY ONLY <1>1, <1>2, <1>4
    <2> QED
      BY ONLY <1>4, <2>1 DEF Undone
  <1> QED
    BY ONLY <1>3, <1>5, <1>6 DEF N, e, p, s

\* mpn_div_qr by a divisor of two limbs.
LEMMA DivideByTwo ==
  ASSUME NEW np \in Seq(Limb), NEW dp \in Seq(Limb), Trimmed(dp), Len(dp) = 2, Len(np) >= 2
  PROVE  IsDivided(mpn_div_qr(np, dp), np, dp)
  <1> DEFINE m == Len(np)
             n == m - 1
             s == gmp_clz(dp[2])
             dd == Shifted(dp, s).r
             t == Shifted(np, s)
             l == t.r
             cy == t.cy
             inv == mpn_div_qr_invert(dp)
             d1 == dd[2]
             d0 == dd[1]
             d == d1 * B + d0
             di == inv.di
             c == ChainDown(TwoSteps(l, n, d1, d0, di), n, <<cy, l[n + 1]>>)
             c1 == c.cy[1]
             c2 == c.cy[2]
             v == c1 * B + c2
             q == c.r
             e == mpn_div_qr(np, dp)
  <1>1. m \in Nat /\ n \in Nat /\ n + 1 = m /\ np # <<>> /\ dp # <<>> /\ (m - Len(dp)) + 1 = n
    <2>1. m \in Nat /\ np # <<>> /\ dp # <<>>
      <3>1. m \in Nat
        OBVIOUS
      <3>2. Len(np) # 0 /\ Len(dp) # 0
        BY ONLY Len(dp) = 2, Len(np) >= 2
      <3>3. Len(<<>>) = 0
        OBVIOUS
      <3> HIDE DEF m
      <3> QED
        BY ONLY <3>1, <3>2, <3>3
    <2> HIDE DEF m
    <2>2. m >= 2
      BY DEF m
    <2> QED
      BY ONLY <2>1, <2>2, Len(dp) = 2
  <1>2. B \in Nat \ {0} /\ Limb = 0 .. B - 1
    BY LimbsAre
  <1>3. /\ s \in Nat /\ s < LimbBits /\ dd \in Seq(Limb) /\ Len(dd) = 2 /\ NatOf(dd) = NatOf(dp) * Pow(2, s)
        /\ Pow(2, s) \in Nat \ {0} /\ d1 \in Limb /\ Pow(2, s) <= d1
    BY <1>1, DivisorShifted
  <1>4. /\ inv.shift = s /\ inv.d1 = d1 /\ inv.d0 = d0 /\ di \in Limb /\ d0 \in Limb
        /\ \E k \in Nat : Divisor(B, d1, d0, d, di, k)
    <2> DEFINE dn == Len(dp)
               ss == gmp_clz(dp[dn])
               ee == Shifted(dp, ss).r
    <2>1. /\ inv.shift = ss /\ inv.d1 = ee[dn] /\ inv.d0 = ee[dn - 1] /\ di \in Limb
          /\ ee[dn - 1] \in Limb /\ \E k \in Nat : Divisor(B, ee[dn], ee[dn - 1], ee[dn] * B + ee[dn - 1], di, k)
      <3>1. dn >= 2
        BY ONLY Len(dp) = 2
      <3> QED
        BY ONLY <3>1, InverseOfMore, dp \in Seq(Limb), Trimmed(dp)
    <2>2. dn = 2 /\ dn - 1 = 1
      BY ONLY Len(dp) = 2
    <2> HIDE DEF dn, inv, ee
    <2>3. s = ss /\ dd = ee
      BY ONLY <2>2 DEF ee
    <2> HIDE DEF dd, s
    <2> QED
      BY ONLY <2>1, <2>2, <2>3
  <1>5. PICK k \in Nat : Divisor(B, d1, d0, d, di, k)
    BY ONLY <1>4
  <1>6. /\ cy \in 0 .. Pow(2, s) - 1 /\ cy \in Limb /\ l \in Seq(Limb) /\ Len(l) = m
    <2> HIDE DEF s
    <2> QED
      BY ONLY <1>1, <1>3, ShiftedIs, np \in Seq(Limb)
  <1>7. cy * B + l[n + 1] < d
    <2> DEFINE top == l[n + 1]
               p == Pow(2, s)
    <2>1. top \in Limb
      <3>1. n + 1 \in 1 .. Len(l)
        BY ONLY <1>1, <1>6
      <3> QED
        BY ONLY <1>6, <3>1, NatOfIs
    <2>2. cy + 1 <= d1 /\ cy \in Nat /\ d1 \in Nat /\ d0 \in Nat /\ top \in Nat /\ top < B
      <3> HIDE DEF s, cy, d1, d0, top, p
      <3>1. cy \in 0 .. p - 1 /\ p <= d1 /\ p \in Nat
        BY ONLY <1>3, <1>6 DEF p
      <3> QED
        BY ONLY <1>2, <1>3, <1>4, <2>1, <3>1
    <2> HIDE DEF s, cy, d1, d0, top
    <2>3. (cy + 1) * B <= d1 * B
      BY ONLY <1>2, <2>2
    <2>4. (cy + 1) * B = cy * B + B /\ cy * B \in Nat /\ d1 * B \in Nat
      BY ONLY <1>2, <2>2
    <2> DEFINE u == cy * B
               z == d1 * B
    <2>5. u \in Nat /\ z \in Nat /\ u + B <= z
      BY ONLY <2>3, <2>4
    <2> HIDE DEF u, z
    <2>6. u + top < z + d0
      BY ONLY <1>2, <2>2, <2>5
    <2> QED
      BY ONLY <2>6 DEF top, u, z
  <1>8. /\ q \in Seq(Limb) /\ Len(q) = n /\ c1 \in Limb /\ c2 \in Limb
        /\ v \in 0 .. d - 1 /\ d * NatOf(q) + v = NatOf(l) + Pow(B, n + 1) * cy
    <2> HIDE DEF l, cy, d1, d0, d, di, n, m
    <2>1. n + 1 = Len(l)
      BY ONLY <1>1, <1>6
    <2> QED
      BY ONLY <1>1, <1>4, <1>5, <1>6, <1>7, <2>1, ChainByTwo DEF c, c1, c2, v, q
  <1>9. NatOf(dd) = d
    <2>1. dd = <<d0, d1>>
      <3> HIDE DEF s, dd
      <3>1. dd = [i \in 1 .. 2 |-> dd[i]]
        BY ONLY <1>3
      <3> QED
        BY ONLY <3>1
    <2>2. NatOf(<<d0, d1>>) = d1 * B + d0
      <3> HIDE DEF d0, d1
      <3>1. 0 \in Nat /\ 0 < LimbBits
        BY LimbsAre DEF LimbBits
      <3> QED
        BY ONLY <1>3, <1>4, <3>1, DownIs
    <2> QED
      BY ONLY <2>1, <2>2
  <1>10. ShiftedQuotient(np, dp, NatOf(q), v)
    <2>1. NatOf(q) \in Nat
      BY ONLY <1>8, NatOfIs
    <2>2. ShiftedQuotient(np, dp, NatOf(q), v) <=>
            NatOf(q) \in Nat /\ v \in 0 .. NatOf(dd) - 1 /\ NatOf(dd) * NatOf(q) + v = NatOf(l) + Pow(B, m) * cy
      <3> HIDE DEF q, v
      <3> QED
        BY ONLY Len(dp) = 2 DEF ShiftedQuotient, s, dd, t, l, cy, m
    <2> HIDE DEF q, v, d, dd, l, cy, m
    <2> QED
      BY ONLY <1>1, <1>8, <1>9, <2>1, <2>2
  <1>11. /\ Undone(NatOf(np), NatOf(dp), Pow(2, s), NatOf(q), v)
         /\ NatOf(dp) \in Nat \ {0} /\ NatOf(np) \in Nat
    <2> HIDE DEF q, v
    <2> QED
      BY ONLY <1>1, <1>10, UndoneShift, np \in Seq(Limb), dp \in Seq(Limb), Trimmed(dp), Len(dp) = 2 DEF s
  <1> DEFINE r == <<c2, c1>>
             w == ShiftedBack(r, s)
  <1>12. Down(c1, c2, s) = w /\ r \in Seq(Limb) /\ Len(r) = 2 /\ NatOf(r) = v /\ r # <<>>
    <2> HIDE DEF c1, c2, s
    <2> QED
      BY ONLY <1>3, <1>8, DownIs DEF v
  <1>13. w \in Seq(Limb) /\ NatOf(w) \in 0 .. NatOf(dp) - 1 /\ NatOf(np) = NatOf(dp) * NatOf(q) + NatOf(w)
    <2> HIDE DEF c1, c2, s, r, q, v
    <2> QED
      BY ONLY <1>3, <1>11, <1>12, ShiftedBackIs DEF w
  <1>14. e.q = q /\ e.r = w
    <2>1. e = mpn_div_qr_2_preinv(np, inv)
      <3> HIDE DEF inv
      <3>1. ~(Len(dp) > 2) /\ Len(dp) # 1
        BY ONLY Len(dp) = 2
      <3>2. e = mpn_div_qr_preinv(np, dp, inv)
        BY ONLY <3>1 DEF e, mpn_div_qr, DivideBy, inv
      <3> HIDE DEF e
      <3> QED
        BY ONLY <3>1, <3>2, Len(dp) = 2 DEF mpn_div_qr_preinv
    <2>2. mpn_div_qr_2_preinv(np, inv) = DivideShifted(t, inv)
      <3> HIDE DEF inv, s
      <3> QED
        BY ONLY <1>4 DEF mpn_div_qr_2_preinv
    <2>3. DivideShifted(t, inv) = Unshifted(c, s)
      <3> HIDE DEF inv, s, t, d1, d0, m
      <3>1. Len(t.r) = m /\ Len(t.r) - 1 = n /\ l = t.r /\ cy = t.cy
        BY ONLY <1>6 DEF n, l, cy
      <3>2. inv.d1 = d1 /\ inv.d0 = d0 /\ inv.di = di /\ inv.shift = s /\ n + 1 = m
        BY ONLY <1>1, <1>4
      <3> HIDE DEF n, l, cy, di
      <3> QED
        BY ONLY <3>1, <3>2 DEF DivideShifted, TwoSteps, c
    <2> HIDE DEF e, c, s, inv, t
    <2>4. e = Unshifted(c, s)
      BY ONLY <2>1, <2>2, <2>3
    <2> QED
      BY ONLY <2>4, <1>12 DEF Unshifted, q, c1, c2
  <1>15. q \in Seq(Limb) /\ Len(q) = n
    BY ONLY <1>8
  <1> HIDE DEF e, q, w, n
  <1>16. IsDivided(e, np, dp)
    BY ONLY <1>1, <1>13, <1>14, <1>15 DEF IsDivided
  <1> QED
    BY ONLY <1>16 DEF e

\* and by a divisor of one limb.
LEMMA DivideByOneLimb ==
  ASSUME NEW np \in Seq(Limb), np # <<>>, NEW dp \in Seq(Limb), Trimmed(dp), Len(dp) = 1
  PROVE  IsDivided(mpn_div_qr(np, dp), np, dp)
  <1> DEFINE m == Len(np)
             a == dp[1]
             s == gmp_clz(a)
             inv == mpn_div_qr_1_invert(a)
             c == mpn_div_qr_1_preinv(np, inv)
             q == c.q
             r == c.r
             w == <<r>>
             e == mpn_div_qr(np, dp)
  <1>1. m \in Nat /\ (m - Len(dp)) + 1 = m
    <2>1. m \in Nat
      OBVIOUS
    <2> HIDE DEF m
    <2> QED
      BY ONLY <2>1, Len(dp) = 1
  <1>2. a \in Limb /\ a # 0 /\ dp = <<a>>
    <2>1. dp # <<>>
      <3>1. Len(<<>>) = 0
        OBVIOUS
      <3>2. Len(dp) # 0
        BY ONLY Len(dp) = 1
      <3> QED
        BY ONLY <3>1, <3>2
    <2> DEFINE n == Len(dp)
    <2>2. dp[n] \in Limb /\ dp[n] # 0
      BY ONLY <2>1, DivisorShifted, dp \in Seq(Limb), Trimmed(dp)
    <2>3. n = 1
      BY ONLY Len(dp) = 1
    <2> HIDE DEF n
    <2>4. a \in Limb /\ a # 0
      BY ONLY <2>2, <2>3
    <2>5. dp = [i \in 1 .. 1 |-> dp[i]]
      BY ONLY dp \in Seq(Limb), Len(dp) = 1
    <2> QED
      BY ONLY <2>4, <2>5
  <1>3. Inverse1(a, s, inv)
    <2> HIDE DEF a
    <2> QED
      BY ONLY <1>2, InverseOfOne DEF s, inv
  <1>4. IsQuotient(q, r, m, NatOf(np), a)
    <2> HIDE DEF a, s, inv
    <2> QED
      BY ONLY <1>2, <1>3, DivideByOne, np \in Seq(Limb), np # <<>> DEF c, q, r, m
  <1>5. q \in Seq(Limb) /\ Len(q) = m /\ r \in 0 .. a - 1 /\ NatOf(np) = a * NatOf(q) + r
    BY ONLY <1>4 DEF IsQuotient
  <1>6. B \in Nat \ {0} /\ Limb = 0 .. B - 1
    BY LimbsAre
  <1>7. r \in Limb
    <2> HIDE DEF a, r
    <2> QED
      BY ONLY <1>2, <1>5, <1>6
  <1>8. NatOf(dp) = a /\ NatOf(w) = r /\ w \in Seq(Limb)
    <2> HIDE DEF a, r
    <2> QED
      BY ONLY <1>2, <1>7, NatOfShort
  <1>9. e.q = q /\ e.r = w
    <2>1. ~(Len(dp) > 2) /\ Len(dp) = 1
      BY ONLY Len(dp) = 1
    <2>2. mpn_div_qr_invert(dp) = inv
      BY ONLY <2>1 DEF mpn_div_qr_invert
    <2> HIDE DEF inv
    <2>3. e = mpn_div_qr_preinv(np, dp, inv)
      BY ONLY <2>1, <2>2 DEF e, mpn_div_qr, DivideBy
    <2> HIDE DEF e
    <2>4. e = OneLimb(c)
      BY ONLY <2>1, <2>3 DEF mpn_div_qr_preinv
    <2> HIDE DEF c
    <2> QED
      BY ONLY <2>4 DEF OneLimb, q, r, w
  <1> HIDE DEF e, q, w, r, m, a
  <1>10. (m - Len(dp)) + 1 = m /\ Len(q) = m /\ q \in Seq(Limb) /\ w \in Seq(Limb)
    BY ONLY <1>1, <1>5, <1>8
  <1>11. NatOf(w) \in 0 .. NatOf(dp) - 1 /\ NatOf(np) = NatOf(dp) * NatOf(q) + NatOf(w)
    BY ONLY <1>5, <1>8
  <1>12. IsDivided(e, np, dp)
    BY ONLY <1>9, <1>10, <1>11 DEF IsDivided, m
  <1> QED
    BY ONLY <1>12 DEF e

----------------------------------------------------------------------------
(* Windows of a number: the limbs Slice(d, j, k).                          *)

Window(d, j, k) == j \in Nat /\ k \in Nat /\ j + k <= Len(d)

LEMMA SliceIs ==
  ASSUME NEW d \in Seq(Limb), NEW j, NEW k, Window(d, j, k)
  PROVE  /\ Slice(d, j, k) \in Seq(Limb) /\ Len(Slice(d, j, k)) = k
         /\ \A i \in 1 .. k : Slice(d, j, k)[i] = d[j + i]
  <1> DEFINE n == Len(d)
             s == SubSeq(d, j + 1, j + k)
  <1>1. j \in Nat /\ k \in Nat /\ j + k <= n /\ n \in Nat
    BY DEF Window
  <1>2. \A i \in (j + 1) .. (j + k) : d[i] \in Limb
    <2>1. \A i \in (j + 1) .. (j + k) : i \in 1 .. n
      <3> HIDE DEF n
      <3> QED
        BY ONLY <1>1
    <2> QED
      BY ONLY <2>1, NatOfIs, d \in Seq(Limb)
  <1>3. s \in Seq(Limb) /\ Len(s) = IF j + 1 <= j + k THEN (j + k) - (j + 1) + 1 ELSE 0
    BY ONLY <1>1, <1>2, SubSeqProperties, d \in Seq(Limb)
  <1>4. \A i \in 1 .. (j + k) - (j + 1) + 1 : s[i] = d[(j + 1) + i - 1]
    BY ONLY <1>1, <1>2, SubSeqProperties, d \in Seq(Limb)
  <1> QED
    BY ONLY <1>1, <1>3, <1>4 DEF Slice

LEMMA SameLimbs ==
  ASSUME NEW d \in Seq(Limb), NEW e \in Seq(Limb), Len(d) = Len(e), \A i \in 1 .. Len(d) : d[i] = e[i]
  PROVE  NatOf(d) = NatOf(e)
  <1>1. Number(B, e, Len(d)) = NatOf(d)
    BY NatOfSame
  <1>2. NatOf(e) = Number(B, e, Len(e))
    BY NatOfIs
  <1> QED
    BY ONLY <1>1, <1>2, Len(d) = Len(e)

\* A window in two parts.
LEMMA SliceSplit ==
  ASSUME NEW d \in Seq(Limb), NEW j, NEW a \in Nat, NEW b \in Nat, NEW k, NEW h, k = a + b, h = j + a, Window(d, j, k)
  PROVE  NatOf(Slice(d, j, k)) = NatOf(Slice(d, j, a)) + Pow(B, a) * NatOf(Slice(d, h, b))
  <1> DEFINE w == Slice(d, j, k)
             lo == SubSeq(w, 1, a)
             hi == SubSeq(w, a + 1, Len(w))
             u == Slice(d, j, a)
             v == Slice(d, h, b)
  <1>1. j \in Nat /\ k \in Nat /\ Window(d, j, a) /\ Window(d, h, b) /\ a \in 0 .. k /\ k - a = b
    <2> DEFINE n == Len(d)
    <2>1. n \in Nat /\ j \in Nat /\ j + k <= n
      BY DEF Window
    <2> HIDE DEF n
    <2>2. j + a <= n /\ h + b <= n /\ h \in Nat /\ a \in 0 .. k /\ k - a = b /\ k \in Nat
      BY ONLY <2>1, a \in Nat, b \in Nat, k = a + b, h = j + a
    <2> QED
      BY ONLY <2>1, <2>2, a \in Nat, b \in Nat DEF Window, n
  <1>2. w \in Seq(Limb) /\ Len(w) = k /\ \A i \in 1 .. k : w[i] = d[j + i]
    BY ONLY SliceIs, d \in Seq(Limb), Window(d, j, k)
  <1>3. u \in Seq(Limb) /\ Len(u) = a /\ \A i \in 1 .. a : u[i] = d[j + i]
    BY ONLY <1>1, SliceIs, d \in Seq(Limb)
  <1>4. v \in Seq(Limb) /\ Len(v) = b /\ \A i \in 1 .. b : v[i] = d[h + i]
    BY ONLY <1>1, SliceIs, d \in Seq(Limb)
  <1> HIDE DEF w, u, v
  <1>5. /\ lo \in Seq(Limb) /\ Len(lo) = a /\ \A i \in 1 .. a : lo[i] = w[i]
        /\ hi \in Seq(Limb) /\ Len(hi) = Len(w) - a /\ \A i \in 1 .. Len(w) - a : hi[i] = w[a + i]
        /\ NatOf(w) = NatOf(lo) + Pow(B, a) * NatOf(hi)
    <2>1. a \in 0 .. Len(w)
      BY ONLY <1>1, <1>2
    <2> QED
      BY ONLY <1>2, <2>1, NatOfPieces
  <1> HIDE DEF lo, hi
  <1>6. NatOf(lo) = NatOf(u)
    <2>1. \A i \in 1 .. a : lo[i] = u[i]
      <3>1. \A i \in 1 .. a : i \in 1 .. k
        BY ONLY <1>1, a \in Nat
      <3> QED
        BY ONLY <1>2, <1>3, <1>5, <3>1
    <2> QED
      BY ONLY <1>3, <1>5, <2>1, SameLimbs
  <1>7. NatOf(hi) = NatOf(v)
    <2>1. \A i \in 1 .. b : hi[i] = v[i]
      <3> TAKE i \in 1 .. b
      <3>1. a + i \in 1 .. k /\ j + (a + i) = h + i /\ i \in 1 .. Len(w) - a
        BY ONLY <1>1, <1>2, a \in Nat, b \in Nat, k = a + b, h = j + a, i \in 1 .. b
      <3>2. hi[i] = w[a + i]
        BY ONLY <1>5, <3>1
      <3>3. w[a + i] = d[j + (a + i)]
        BY ONLY <1>2, <3>1
      <3>4. v[i] = d[h + i]
        BY ONLY <1>4, i \in 1 .. b
      <3> QED
        BY ONLY <3>1, <3>2, <3>3, <3>4
    <2>2. Len(hi) = b
      BY ONLY <1>1, <1>2, <1>5
    <2> QED
      BY ONLY <1>4, <1>5, <2>1, <2>2, SameLimbs
  <1> QED
    BY ONLY <1>5, <1>6, <1>7 DEF w, u, v

LEMMA SliceOne ==
  ASSUME NEW d \in Seq(Limb), NEW j, NEW i, i = j + 1, NEW k, k = 1, Window(d, j, k)
  PROVE  NatOf(Slice(d, j, k)) = d[i] /\ d[i] \in Limb
  <1> DEFINE w == Slice(d, j, k)
             a == d[i]
             v == <<a>>
  <1>1. w \in Seq(Limb) /\ Len(w) = 1 /\ \A h \in 1 .. 1 : w[h] = d[j + h]
    <2>1. w \in Seq(Limb) /\ Len(w) = k /\ \A h \in 1 .. k : w[h] = d[j + h]
      BY ONLY SliceIs, d \in Seq(Limb), Window(d, j, k)
    <2> HIDE DEF w
    <2> QED
      BY ONLY <2>1, k = 1
  <1>2. 1 \in 1 .. 1
    OBVIOUS
  <1>3. w[1] = a
    BY ONLY <1>1, <1>2, i = j + 1
  <1>4. a \in Limb
    <2>1. i \in 1 .. Len(d)
      <3> DEFINE n == Len(d)
      <3>1. n \in Nat /\ j \in Nat /\ j + 1 <= n
        BY k = 1 DEF Window
      <3> HIDE DEF n
      <3>2. i \in 1 .. n
        BY ONLY <3>1, i = j + 1
      <3> QED
        BY ONLY <3>2 DEF n
    <2> QED
      BY ONLY <2>1, NatOfIs, d \in Seq(Limb)
  <1> HIDE DEF w, a
  <1>5. v \in Seq(Limb) /\ Len(v) = 1 /\ NatOf(v) = a /\ v[1] = a
    BY ONLY <1>4, NatOfShort
  <1> HIDE DEF v
  <1>6. \A h \in 1 .. Len(w) : w[h] = v[h]
    BY ONLY <1>1, <1>3, <1>5
  <1>7. NatOf(w) = NatOf(v)
    BY ONLY <1>1, <1>5, <1>6, SameLimbs
  <1> QED
    BY ONLY <1>4, <1>5, <1>7 DEF w, a

\* The limbs of seg in place of a window.
LEMMA StoreIs ==
  ASSUME NEW d \in Seq(Limb), NEW j, NEW k, NEW seg \in Seq(Limb), k = Len(seg), Window(d, j, k)
  PROVE  LET e == Store(d, j, seg) IN
         /\ e \in Seq(Limb) /\ Len(e) = Len(d)
         /\ \A i \in 1 .. j : e[i] = d[i]
         /\ \A i \in 1 .. k : e[j + i] = seg[i]
         /\ \A i \in (j + k) + 1 .. Len(d) : e[i] = d[i]
  <1> DEFINE n == Len(d)
             e == Store(d, j, seg)
             g == [i \in 1 .. n |-> IF i > j /\ i <= j + k THEN seg[i - j] ELSE d[i]]
  <1>1. j \in Nat /\ k \in Nat /\ j + k <= n /\ n \in Nat
    BY DEF Window
  <1>2. e = g
    BY DEF Store
  <1>3. \A i \in 1 .. n : d[i] \in Limb
    BY NatOfIs
  <1>4. \A i \in 1 .. k : seg[i] \in Limb
    BY NatOfIs
  <1> HIDE DEF n, e
  <1>5. ASSUME NEW i \in 1 .. n
        PROVE  g[i] \in Limb /\ (i <= j => g[i] = d[i]) /\ (i > j + k => g[i] = d[i])
               /\ (i > j /\ i <= j + k => g[i] = seg[i - j])
    <2>1. g[i] = IF i > j /\ i <= j + k THEN seg[i - j] ELSE d[i]
      BY ONLY i \in 1 .. n
    <2> HIDE DEF g
    <2>2. CASE i > j /\ i <= j + k
      <3>1. i - j \in 1 .. k /\ i \in Int
        BY ONLY <1>1, <2>2, i \in 1 .. n
      <3>2. g[i] = seg[i - j] /\ seg[i - j] \in Limb
        BY ONLY <1>4, <2>1, <2>2, <3>1
      <3>3. ~(i <= j) /\ ~(i > j + k)
        BY ONLY <1>1, <2>2, <3>1
      <3> QED
        BY ONLY <2>2, <3>2, <3>3
    <2>3. CASE ~(i > j /\ i <= j + k)
      <3>1. g[i] = d[i] /\ d[i] \in Limb
        BY ONLY <1>3, <2>1, <2>3, i \in 1 .. n
      <3> QED
        BY ONLY <2>3, <3>1
    <2> QED
      BY ONLY <2>2, <2>3
  <1>6. g \in Seq(Limb) /\ Len(g) = n
    <2>1. g \in [1 .. n -> Limb]
      <3>1. g = [i \in 1 .. n |-> g[i]]
        OBVIOUS
      <3> HIDE DEF g
      <3> QED
        BY ONLY <1>5, <3>1
    <2> HIDE DEF g
    <2> QED
      BY ONLY <1>1, <2>1, SeqDef, LenProperties
  <1> HIDE DEF g
  <1>7. \A i \in 1 .. j : g[i] = d[i]
    BY ONLY <1>1, <1>5
  <1>8. \A i \in 1 .. k : g[j + i] = seg[i]
    <2> TAKE i \in 1 .. k
    <2> DEFINE h == j + i
    <2>1. h \in 1 .. n /\ h > j /\ h <= j + k /\ h - j = i
      BY ONLY <1>1, i \in 1 .. k
    <2> HIDE DEF h
    <2>2. g[h] = seg[h - j]
      BY ONLY <1>5, <2>1
    <2> QED
      BY ONLY <2>1, <2>2 DEF h
  <1>9. \A i \in (j + k) + 1 .. n : g[i] = d[i]
    <2> TAKE i \in (j + k) + 1 .. n
    <2>1. i \in 1 .. n /\ i > j + k
      BY ONLY <1>1, i \in (j + k) + 1 .. n
    <2> QED
      BY ONLY <1>5, <2>1
  <1> QED
    BY ONLY <1>2, <1>6, <1>7, <1>8, <1>9 DEF n, e

----------------------------------------------------------------------------
(* One quotient limb, as arithmetic.  The divisor d is <<d1, d0>> above the *)
(* lower part dlo; the limbs in reach, <<n1, a1, a2>> above the lower part  *)
(* low, are w.                                                              *)

Parts(b, p, d1, d0, dlo, d) ==
    /\ b \in Nat /\ b >= 4 /\ p \in Nat /\ p >= 1 /\ d1 \in 0 .. b - 1 /\ d0 \in 0 .. b - 1
    /\ b <= 2 * d1 /\ dlo \in 0 .. p - 1 /\ d = (d1 * b + d0) * p + dlo
Reached(b, p, n1, a1, a2, low, w) ==
    /\ n1 \in 0 .. b - 1 /\ a1 \in 0 .. b - 1 /\ a2 \in 0 .. b - 1 /\ low \in 0 .. p - 1
    /\ w = ((n1 * b + a1) * b + a2) * p + low

LEMMA SameRest ==
  ASSUME NEW r \in Int, NEW t \in Int, NEW m \in Nat, NEW k \in Int, r \in 0 .. m - 1, t \in 0 .. m - 1,
         r = t + m * k
  PROVE  r = t
  <1> DEFINE z == m * k
  <1>1. k >= 1 => z >= m
    BY DEF z
  <1>2. k <= -1 => z <= -m
    BY DEF z
  <1>3. k = 0 => z = 0
    BY DEF z
  <1>4. z \in Int /\ r = t + z
    OBVIOUS
  <1> HIDE DEF z
  <1>5. ~(k >= 1) /\ ~(k <= -1)
    BY ONLY <1>1, <1>2, <1>4, m \in Nat, r \in 0 .. m - 1, t \in 0 .. m - 1
  <1> QED
    BY ONLY <1>3, <1>4, <1>5, k \in Int, r \in Int, t \in Int

LEMMA PartsIs ==
  ASSUME NEW b, NEW p, NEW d1, NEW d0, NEW dlo, NEW d, Parts(b, p, d1, d0, dlo, d)
  PROVE  /\ d \in Nat /\ d1 * b + d0 \in Nat /\ (d1 * b + d0) * p \in Nat
         /\ (d1 * b + d0) * p <= d /\ d < (d1 * b + d0) * p + p
         /\ b * p <= d /\ d < (b * b) * p /\ b * p \in Nat /\ b * p <= (d1 * b + d0) * p
  <1> DEFINE h == d1 * b + d0
             z == h * p
             g == b * p
             f == (b * b) * p
  <1>1. /\ b \in Nat /\ b >= 4 /\ p \in Nat /\ p >= 1 /\ d1 \in Nat /\ d0 \in Nat /\ d1 <= b - 1 /\ d0 <= b - 1
        /\ b <= 2 * d1 /\ dlo \in Nat /\ dlo < p /\ d = z + dlo
    BY DEF Parts
  <1>2. h \in Nat /\ b <= h /\ h + 1 <= b * b
    <2>1. 1 <= d1
      BY ONLY <1>1
    <2>2. d1 * b >= b /\ d1 * b <= (b - 1) * b /\ d1 * b \in Nat
      BY ONLY <1>1, <2>1
    <2>3. (b - 1) * b = b * b - b /\ b * b \in Nat
      BY ONLY <1>1
    <2> DEFINE t == d1 * b
               s == b * b
    <2>4. t \in Nat /\ s \in Nat /\ b <= t /\ t <= s - b
      BY ONLY <2>2, <2>3
    <2> HIDE DEF t, s
    <2>5. t + d0 \in Nat /\ b <= t + d0 /\ (t + d0) + 1 <= s
      BY ONLY <1>1, <2>4
    <2> QED
      BY ONLY <2>5 DEF t, s
  <1> HIDE DEF h
  <1>3. z \in Nat /\ g \in Nat /\ g <= z /\ z + p <= f
    <2>1. z \in Nat /\ g \in Nat
      BY ONLY <1>1, <1>2
    <2>2. g <= z
      BY ONLY <1>1, <1>2
    <2>3. (h + 1) * p <= f
      BY ONLY <1>1, <1>2
    <2>4. (h + 1) * p = z + p
      BY ONLY <1>1, <1>2
    <2> QED
      BY ONLY <2>1, <2>2, <2>3, <2>4
  <1> HIDE DEF z, g, f
  <1>4. d \in Nat /\ z <= d /\ d < z + p /\ g <= d /\ (f \in Int => d < f)
    BY ONLY <1>1, <1>3
  <1>5. f \in Int
    BY ONLY <1>1 DEF f
  <1> QED
    BY ONLY <1>2, <1>3, <1>4, <1>5 DEF h, z, g, f

\* Below the divisor, the upper limbs are at most the upper limbs of the divisor.
LEMMA TopBelow ==
  ASSUME NEW b, NEW p, NEW d1, NEW d0, NEW dlo, NEW d, Parts(b, p, d1, d0, dlo, d),
         NEW n1 \in 0 .. b - 1, NEW a1 \in 0 .. b - 1, NEW rest \in 0 .. p - 1,
         (n1 * b + a1) * p + rest < d
  PROVE  n1 * b + a1 <= d1 * b + d0 /\ ((n1 = d1 /\ a1 = d0) \/ n1 * b + a1 < d1 * b + d0)
  <1> DEFINE h == d1 * b + d0
             u == n1 * b + a1
             z == h * p
             g == u * p
  <1>1. /\ b \in Nat /\ b >= 4 /\ p \in Nat /\ p >= 1 /\ d1 \in Nat /\ d0 \in Nat /\ d1 <= b - 1 /\ d0 <= b - 1
    BY DEF Parts
  <1>2. n1 \in Nat /\ a1 \in Nat /\ n1 <= b - 1 /\ a1 <= b - 1 /\ rest \in Nat
    BY <1>1
  <1>3. h \in Nat /\ z \in Nat /\ d < z + p /\ d \in Nat
    BY PartsIs
  <1>4. u \in Nat /\ g \in Nat
    <2>1. n1 * b \in Nat
      BY ONLY <1>1, <1>2
    <2>2. u \in Nat
      BY ONLY <1>2, <2>1
    <2> HIDE DEF u
    <2> QED
      BY ONLY <1>1, <2>2
  <1>5. g < z + p
    <2>1. g + rest < d
      OBVIOUS
    <2> HIDE DEF g, z
    <2> QED
      BY ONLY <1>1, <1>2, <1>3, <1>4, <2>1
  <1>6. u <= h
    <2> HIDE DEF u, h
    <2>1. u >= h + 1 => u * p >= (h + 1) * p
      BY ONLY <1>1, <1>3, <1>4
    <2>2. (h + 1) * p = z + p
      BY ONLY <1>1, <1>3
    <2>3. u >= h + 1 => g >= z + p
      BY ONLY <2>1, <2>2
    <2> HIDE DEF g, z
    <2> QED
      BY ONLY <1>1, <1>3, <1>4, <1>5, <2>3
  <1>7. u = h => n1 = d1 /\ a1 = d0
    <2> HAVE u = h
    <2>1. n1 * b + a1 = d1 * b + d0
      OBVIOUS
    <2>2. n1 >= d1 + 1 => n1 * b >= d1 * b + b
      BY ONLY <1>1, <1>2
    <2>3. d1 >= n1 + 1 => d1 * b >= n1 * b + b
      BY ONLY <1>1, <1>2
    <2>4. n1 * b \in Nat /\ d1 * b \in Nat
      BY ONLY <1>1, <1>2
    <2>5. n1 = d1
      BY ONLY <1>1, <1>2, <2>1, <2>2, <2>3, <2>4
    <2>6. a1 = d0
      BY ONLY <1>1, <1>2, <2>1, <2>4, <2>5
    <2> QED
      BY ONLY <2>5, <2>6
  <1>8. u <= h /\ ((n1 = d1 /\ a1 = d0) \/ u < h)
    <2> HIDE DEF u, h
    <2> QED
      BY ONLY <1>3, <1>4, <1>6, <1>7
  <1> QED
    BY ONLY <1>8

\* The upper limbs are those of the divisor: the quotient is b - 1.
LEMMA AllTaken ==
  ASSUME NEW b, NEW p, NEW d1, NEW d0, NEW dlo, NEW d, Parts(b, p, d1, d0, dlo, d),
         NEW a2, NEW low, NEW w, Reached(b, p, d1, d0, a2, low, w),
         NEW r \in 0 .. d - 1, NEW a0 \in 0 .. b - 1, w = b * r + a0
  PROVE  w - (b - 1) * d \in 0 .. d - 1
  <1> DEFINE h == d1 * b + d0
             g == h * p
             t == w - (b - 1) * d
  <1>1. /\ b \in Nat /\ b >= 4 /\ p \in Nat /\ p >= 1 /\ dlo \in Nat /\ dlo <= p - 1 /\ d = g + dlo
    BY DEF Parts
  <1>2. h \in Nat /\ g \in Nat /\ d \in Nat /\ b * p <= g /\ b * p \in Nat
    BY PartsIs
  <1>3. a2 \in Nat /\ low \in Nat /\ w = (h * b + a2) * p + low
    BY <1>1 DEF Reached
  <1> HIDE DEF h
  <1>4. w = b * g + a2 * p + low
    BY ONLY <1>1, <1>2, <1>3
  <1>5. t = g + a2 * p + low - (b - 1) * dlo
    <2>1. (b - 1) * d = b * g - g + (b - 1) * dlo
      <3> HIDE DEF g
      <3>1. (b - 1) * (g + dlo) = b * g - g + (b - 1) * dlo
        BY ONLY <1>1, <1>2
      <3> QED
        BY ONLY <1>1, <3>1
    <2> DEFINE v == (b - 1) * d
               s == b * g
               u == a2 * p
               f == (b - 1) * dlo
    <2>2. v = s - g + f /\ w = s + u + low /\ f \in Int /\ s \in Int /\ u \in Int
      BY ONLY <1>1, <1>2, <1>3, <1>4, <2>1
    <2> HIDE DEF v, s, u, f, g
    <2>3. w - v = g + u + low - f
      BY ONLY <1>2, <1>3, <2>2
    <2> QED
      BY ONLY <2>3 DEF v, u, f
  <1>6. t >= 0
    <2>1. (b - 1) * dlo <= b * p /\ (b - 1) * dlo \in Nat /\ a2 * p \in Nat
      <3>1. (b - 1) * dlo <= (b - 1) * p
        BY ONLY <1>1
      <3>2. (b - 1) * p = b * p - p
        BY ONLY <1>1
      <3>3. (b - 1) * dlo \in Nat /\ a2 * p \in Nat
        BY ONLY <1>1, <1>3
      <3> QED
        BY ONLY <1>1, <1>2, <3>1, <3>2, <3>3
    <2> DEFINE u == a2 * p
               f == (b - 1) * dlo
               k == b * p
    <2>2. f <= k /\ k <= g /\ u \in Nat /\ f \in Nat /\ k \in Nat /\ t = g + u + low - f
      BY ONLY <1>2, <1>5, <2>1
    <2> HIDE DEF t, g, u, f, k
    <2> QED
      BY ONLY <1>2, <1>3, <2>2
  <1>7. t < d /\ t \in Int
    <2>1. r \in Nat /\ r + 1 <= d /\ a0 \in Nat /\ a0 <= b - 1
      BY ONLY <1>1, <1>2, r \in 0 .. d - 1, a0 \in 0 .. b - 1
    <2>2. b * (r + 1) <= b * d
      BY ONLY <1>1, <1>2, <2>1
    <2>3. b * (r + 1) = b * r + b /\ (b - 1) * d = b * d - d
      BY ONLY <1>1, <1>2, <2>1
    <2> DEFINE u == b * r
               f == b * d
               k == (b - 1) * d
    <2>4. u + b <= f /\ k = f - d /\ u \in Nat /\ f \in Nat /\ w = u + a0
      BY ONLY <1>1, <1>2, <2>1, <2>2, <2>3, w = b * r + a0
    <2> HIDE DEF u, f, k
    <2>5. w - k < d /\ w - k \in Int
      BY ONLY <1>1, <1>2, <2>1, <2>4
    <2> QED
      BY ONLY <2>5 DEF k
  <1> HIDE DEF t
  <1>8. t \in 0 .. d - 1
    BY ONLY <1>2, <1>6, <1>7
  <1> QED
    BY ONLY <1>8 DEF t

\* Otherwise the quotient of the upper three limbs, and what is left when the
\* product with the lower limbs of the divisor is taken as well.
LEMMA RestTaken ==
  ASSUME NEW b, NEW p, NEW d1, NEW d0, NEW dlo, NEW d, Parts(b, p, d1, d0, dlo, d),
         NEW n1, NEW a1, NEW a2, NEW low, NEW w, Reached(b, p, n1, a1, a2, low, w),
         NEW q, NEW rr, Division(b, d1 * b + d0, (n1 * b + a1) * b + a2, q, rr),
         NEW cy \in Nat, NEW pr \in 0 .. p - 1, pr - p * cy = low - dlo * q
  PROVE  /\ w - q * d = (rr - cy) * p + pr /\ w - q * d \in Int /\ w - q * d < d /\ -d <= w - q * d
         /\ (rr - cy >= 0 => w - q * d >= 0) /\ (rr - cy < 0 => w - q * d < 0 /\ q >= 1)
  <1> DEFINE h == d1 * b + d0
             g == h * p
             t == w - q * d
             z == rr - cy
             a == z * p
             k == b * p
  <1>1. /\ b \in Nat /\ b >= 4 /\ p \in Nat /\ p >= 1 /\ dlo \in Nat /\ dlo <= p - 1 /\ d = g + dlo
    BY DEF Parts
  <1>2. h \in Nat /\ g \in Nat /\ d \in Nat /\ g <= d /\ k <= d /\ k \in Nat
    BY PartsIs
  <1>3. q \in Nat /\ q <= b - 1 /\ rr \in Nat /\ rr < h /\ (n1 * b + a1) * b + a2 = q * h + rr
    BY <1>1, <1>2 DEF Division
  <1>4. low \in Nat /\ w = (q * h + rr) * p + low
    <2>1. w = ((n1 * b + a1) * b + a2) * p + low /\ low \in 0 .. p - 1
      BY DEF Reached
    <2> HIDE DEF h
    <2> QED
      BY ONLY <1>1, <1>3, <2>1
  <1>5. pr \in Nat /\ pr < p
    BY <1>1
  <1> HIDE DEF h
  <1>6. t = rr * p + low - dlo * q
    <2>1. (q * h + rr) * p + low - q * (h * p + dlo) = rr * p + low - dlo * q
      BY ONLY <1>1, <1>2, <1>3, <1>4
    <2>2. d = h * p + dlo /\ w = (q * h + rr) * p + low
      BY ONLY <1>1, <1>4
    <2>3. w - q * d = (q * h + rr) * p + low - q * (h * p + dlo)
      <3>1. w - q * d = ((q * h + rr) * p + low) - q * (h * p + dlo)
        BY ONLY <2>2, Zenon
      <3> DEFINE u == (q * h + rr) * p
                 v == q * (h * p + dlo)
      <3>2. u \in Int /\ v \in Int
        BY ONLY <1>1, <1>2, <1>3
      <3> HIDE DEF u, v
      <3>3. (u + low) - v = u + low - v
        BY ONLY <1>4, <3>2
      <3> QED
        BY ONLY <3>1, <3>3, Zenon DEF u, v
    <2> QED
      BY ONLY <2>1, <2>3, Zenon
  <1>7. t = a + pr /\ a \in Int /\ z \in Int
    <2>1. a = rr * p - p * cy /\ a \in Int /\ z \in Int
      BY ONLY <1>1, <1>3, cy \in Nat
    <2> DEFINE u == rr * p
               f == p * cy
               v == dlo * q
    <2>2. u \in Int /\ f \in Int /\ v \in Int /\ a = u - f /\ t = u + low - v /\ pr - f = low - v
      BY ONLY <1>1, <1>3, <1>6, <2>1, cy \in Nat, pr - p * cy = low - dlo * q
    <2> HIDE DEF u, f, v, t, a
    <2> QED
      BY ONLY <1>4, <1>5, <2>1, <2>2
  <1>8. t \in Int
    <2> HIDE DEF t, a
    <2> QED
      BY ONLY <1>5, <1>7
  <1>9. t < d
    <2>1. z + 1 <= h
      BY ONLY <1>2, <1>3, cy \in Nat
    <2> HIDE DEF z
    <2>2. (z + 1) * p <= h * p /\ (z + 1) * p = z * p + p
      BY ONLY <1>1, <1>2, <1>7, <2>1
    <2>3. a + p <= g
      BY ONLY <2>2
    <2> HIDE DEF a, g, t
    <2> QED
      BY ONLY <1>1, <1>2, <1>5, <1>7, <1>8, <2>3
  <1>10. -d <= t
    <2>1. dlo * q <= k /\ dlo * q \in Nat /\ rr * p \in Nat
      <3>1. dlo * q <= p * q /\ p * q <= p * b /\ p * b = k
        BY ONLY <1>1, <1>3
      <3>2. dlo * q \in Nat /\ rr * p \in Nat /\ p * q \in Nat /\ p * b \in Nat
        BY ONLY <1>1, <1>3
      <3> QED
        BY ONLY <3>1, <3>2
    <2> DEFINE v == dlo * q
               u == rr * p
    <2>2. v <= k /\ v \in Nat /\ u \in Nat /\ t = u + low - v
      BY ONLY <1>6, <2>1
    <2> HIDE DEF t, v, u, k
    <2> QED
      BY ONLY <1>2, <1>4, <1>8, <2>2
  <1>11. z >= 0 => t >= 0
    <2>1. z >= 0 => a >= 0
      <3> HIDE DEF z
      <3> QED
        BY ONLY <1>1, <1>7
    <2> HIDE DEF t, z, a
    <2> QED
      BY ONLY <1>5, <1>7, <1>8, <2>1
  <1>12. z < 0 => t < 0 /\ q >= 1
    <2>1. z < 0 => a <= -p
      <3> HIDE DEF z
      <3> QED
        BY ONLY <1>1, <1>7
    <2>2. z < 0 => t < 0
      <3> HIDE DEF t, z, a
      <3> QED
        BY ONLY <1>1, <1>5, <1>7, <1>8, <2>1
    <2>3. q = 0 => t >= 0
      <3> HAVE q = 0
      <3>1. dlo * q = 0 /\ rr * p \in Nat
        BY ONLY <1>1, <1>3, q = 0
      <3> DEFINE v == dlo * q
                 u == rr * p
      <3>2. v = 0 /\ u \in Nat /\ t = u + low - v
        BY ONLY <1>6, <3>1
      <3> HIDE DEF t, v, u
      <3> QED
        BY ONLY <1>4, <1>8, <3>2
    <2> HIDE DEF t, z
    <2> QED
      BY ONLY <1>3, <1>8, <2>2, <2>3
  <1> HIDE DEF t, z, a
  <1>13. t = a + pr /\ t \in Int /\ t < d /\ -d <= t /\ (z >= 0 => t >= 0) /\ (z < 0 => t < 0 /\ q >= 1)
    BY ONLY <1>7, <1>8, <1>9, <1>10, <1>11, <1>12
  <1> QED
    BY ONLY <1>13 DEF t, z, a

----------------------------------------------------------------------------
(* The limbs in reach of the divisor at offset i, and the rest that is held *)
(* above them: m limbs from offset i, with n1 on top.                       *)

Frame(n, i, dn, m, e, j, h1, h2) ==
    /\ n \in Nat /\ i \in Nat /\ dn \in Nat /\ dn >= 3 /\ m = dn - 1 /\ e = dn - 2 /\ j = i + 1 /\ i + dn <= n
    /\ h1 = i + dn /\ h2 = i + m

LEMMA FrameIs ==
  ASSUME NEW n, NEW i, NEW dn, NEW m, NEW e, NEW j, NEW h1, NEW h2, Frame(n, i, dn, m, e, j, h1, h2)
  PROVE  /\ e \in Nat \ {0} /\ m \in Nat \ {0} /\ j \in Nat \ {0} /\ dn = m + 1 /\ m = e + 1 /\ dn = 1 + m
         /\ h1 \in Nat /\ h2 \in Nat /\ h1 = h2 + 1 /\ h2 = (i + e) + 1 /\ h1 = (j + e) + 1
         /\ j + m <= n /\ i + m <= n /\ i + e <= n /\ i + 1 <= n /\ h1 \in 1 .. n /\ h2 \in 1 .. n /\ j \in 1 .. n
  BY DEF Frame

LEMMA WindowIs ==
  ASSUME NEW np \in Seq(Limb), NEW n, n = Len(np), NEW i, NEW dn, NEW m, NEW e, NEW j, NEW h1, NEW h2,
         Frame(n, i, dn, m, e, j, h1, h2), NEW p, p = Pow(B, e)
  PROVE  /\ p \in Nat \ {0} /\ Pow(B, m) = B * p /\ Pow(B, dn) = B * (B * p)
         /\ np[h1] \in Limb /\ np[h2] \in Limb /\ np[j] \in Limb
         /\ NatOf(Slice(np, i, e)) \in 0 .. p - 1 /\ NatOf(Slice(np, j, e)) \in 0 .. p - 1
         /\ NatOf(Slice(np, i, m)) = NatOf(Slice(np, i, e)) + p * np[h2]
         /\ NatOf(Slice(np, i, dn)) = NatOf(Slice(np, i, m)) + (B * p) * np[h1]
         /\ NatOf(Slice(np, j, m)) = NatOf(Slice(np, j, e)) + p * np[h1]
         /\ NatOf(Slice(np, i, dn)) = np[j] + B * NatOf(Slice(np, j, m))
         /\ Slice(np, i, e) \in Seq(Limb) /\ Len(Slice(np, i, e)) = e
         /\ Slice(np, i, m) \in Seq(Limb) /\ Len(Slice(np, i, m)) = m
         /\ Slice(np, i, dn) \in Seq(Limb) /\ Len(Slice(np, i, dn)) = dn
  <1>1. /\ e \in Nat \ {0} /\ m \in Nat \ {0} /\ j \in Nat \ {0} /\ dn = m + 1 /\ m = e + 1 /\ dn = 1 + m
        /\ h1 \in Nat /\ h2 \in Nat /\ h1 = h2 + 1 /\ h2 = (i + e) + 1 /\ h1 = (j + e) + 1
        /\ j + m <= n /\ i + m <= n /\ i + e <= n /\ i + 1 <= n /\ h1 \in 1 .. n /\ h2 \in 1 .. n /\ j \in 1 .. n
    BY FrameIs
  <1>2. i \in Nat /\ n \in Nat /\ dn \in Nat /\ i + dn <= n /\ j = i + 1 /\ h2 = i + m /\ h1 = i + dn
    BY DEF Frame
  <1>3. /\ Window(np, i, e) /\ Window(np, i, m) /\ Window(np, i, dn) /\ Window(np, j, e) /\ Window(np, j, m)
        /\ Window(np, i, 1)
    <2>1. j + e <= n
      BY ONLY <1>1, <1>2
    <2> QED
      BY ONLY <1>1, <1>2, <2>1, n = Len(np) DEF Window
  <1>4. B \in Nat \ {0} /\ B \in Int /\ Limb = 0 .. B - 1
    BY LimbsAre
  <1>5. p \in Nat \ {0} /\ Pow(B, m) = B * p /\ Pow(B, dn) = B * (B * p)
    <2>1. \A k \in Nat : Pow(B, k + 1) = B * Pow(B, k) /\ Pow(B, k) \in Int
      BY ONLY <1>4, PowRec
    <2>2. p \in Nat \ {0}
      <3>1. Len(Slice(np, i, e)) = e /\ Slice(np, i, e) \in Seq(Limb)
        BY ONLY <1>3, SliceIs, np \in Seq(Limb)
      <3> QED
        BY ONLY <3>1, NatOfIs, p = Pow(B, e)
    <2>3. Pow(B, m) = B * p
      BY ONLY <1>1, <2>1, p = Pow(B, e)
    <2>4. Pow(B, dn) = B * Pow(B, m)
      BY ONLY <1>1, <2>1
    <2> QED
      BY ONLY <2>2, <2>3, <2>4
  <1>6. np[h1] \in Limb /\ np[h2] \in Limb /\ np[j] \in Limb
    BY ONLY <1>1, NatOfIs, n = Len(np), np \in Seq(Limb)
  <1>7. ASSUME NEW a, NEW k, Window(np, a, k)
        PROVE  Slice(np, a, k) \in Seq(Limb) /\ Len(Slice(np, a, k)) = k /\ NatOf(Slice(np, a, k)) \in Nat
               /\ NatOf(Slice(np, a, k)) < Pow(B, k)
    <2>1. Slice(np, a, k) \in Seq(Limb) /\ Len(Slice(np, a, k)) = k
      BY ONLY SliceIs, np \in Seq(Limb), Window(np, a, k)
    <2> QED
      BY ONLY <2>1, NatOfIs
  <1>8. NatOf(Slice(np, i, e)) \in 0 .. p - 1 /\ NatOf(Slice(np, j, e)) \in 0 .. p - 1
    <2>1. NatOf(Slice(np, i, e)) \in Nat /\ NatOf(Slice(np, i, e)) < p
      BY ONLY <1>3, <1>7, p = Pow(B, e)
    <2>2. NatOf(Slice(np, j, e)) \in Nat /\ NatOf(Slice(np, j, e)) < p
      BY ONLY <1>3, <1>7, p = Pow(B, e)
    <2> DEFINE u == NatOf(Slice(np, i, e))
               v == NatOf(Slice(np, j, e))
    <2>3. u \in Nat /\ u < p /\ v \in Nat /\ v < p
      BY ONLY <2>1, <2>2
    <2> HIDE DEF u, v
    <2>4. u \in 0 .. p - 1 /\ v \in 0 .. p - 1
      BY ONLY <1>5, <2>3
    <2> QED
      BY ONLY <2>4 DEF u, v
  <1> DEFINE one == 1
  <1>9. one \in Nat /\ one = 1
    OBVIOUS
  <1> HIDE DEF one
  <1>10. ASSUME NEW a, NEW k \in Nat, NEW l, NEW c, NEW h, l = k + 1, c = a + k, h = c + 1, Window(np, a, l)
         PROVE  NatOf(Slice(np, a, l)) = NatOf(Slice(np, a, k)) + Pow(B, k) * np[h]
    <2>1. l = k + one
      BY ONLY <1>9, l = k + 1
    <2>2. NatOf(Slice(np, a, l)) = NatOf(Slice(np, a, k)) + Pow(B, k) * NatOf(Slice(np, c, one))
      BY ONLY <1>9, <2>1, SliceSplit, np \in Seq(Limb), k \in Nat, c = a + k, Window(np, a, l)
    <2>3. Window(np, c, one)
      <3> DEFINE nn == Len(np)
      <3>1. a \in Nat /\ a + l <= nn
        BY ONLY Window(np, a, l) DEF Window
      <3> HIDE DEF nn
      <3>2. c \in Nat /\ c + one <= nn
        BY ONLY <1>9, <3>1, k \in Nat, c = a + k, l = k + 1
      <3> QED
        BY ONLY <1>9, <3>2 DEF Window, nn
    <2>4. NatOf(Slice(np, c, one)) = np[h]
      BY ONLY <1>9, <2>3, SliceOne, np \in Seq(Limb), h = c + 1
    <2> QED
      BY ONLY <2>2, <2>4
  <1>11. NatOf(Slice(np, i, m)) = NatOf(Slice(np, i, e)) + p * np[h2]
    <2> DEFINE c == i + e
    <2>1. c = i + e /\ h2 = c + 1
      BY ONLY <1>1
    <2> HIDE DEF c
    <2> QED
      BY ONLY <1>1, <1>3, <1>10, <2>1, p = Pow(B, e)
  <1>12. NatOf(Slice(np, i, dn)) = NatOf(Slice(np, i, m)) + (B * p) * np[h1]
    <2>1. h1 = h2 + 1 /\ h2 = i + m
      BY ONLY <1>1, <1>2
    <2> QED
      BY ONLY <1>1, <1>3, <1>5, <1>10, <2>1
  <1>13. NatOf(Slice(np, j, m)) = NatOf(Slice(np, j, e)) + p * np[h1]
    <2> DEFINE c == j + e
    <2>1. c = j + e /\ h1 = c + 1
      BY ONLY <1>1
    <2>2. e \in Nat /\ m = e + 1 /\ Window(np, j, m)
      BY ONLY <1>1, <1>3
    <2> HIDE DEF c
    <2>3. NatOf(Slice(np, j, m)) = NatOf(Slice(np, j, e)) + Pow(B, e) * np[h1]
      BY ONLY <1>10, <2>1, <2>2
    <2> QED
      BY ONLY <2>3, p = Pow(B, e)
  <1>14. NatOf(Slice(np, i, dn)) = np[j] + B * NatOf(Slice(np, j, m))
    <2>1. NatOf(Slice(np, i, dn)) = NatOf(Slice(np, i, one)) + Pow(B, one) * NatOf(Slice(np, j, m))
      <3>1. dn = one + m /\ j = i + one /\ m \in Nat
        BY ONLY <1>1, <1>2, <1>9
      <3> QED
        BY ONLY <1>3, <1>9, <3>1, SliceSplit, np \in Seq(Limb)
    <2>2. Pow(B, one) = B
      BY ONLY <1>4, <1>9, PowOne
    <2>3. NatOf(Slice(np, i, one)) = np[j]
      <3>1. Window(np, i, one)
        BY ONLY <1>3, <1>9
      <3> QED
        BY ONLY <1>2, <1>9, <3>1, SliceOne, np \in Seq(Limb)
    <2> QED
      BY ONLY <2>1, <2>2, <2>3
  <1>15. /\ Slice(np, i, e) \in Seq(Limb) /\ Len(Slice(np, i, e)) = e
         /\ Slice(np, i, m) \in Seq(Limb) /\ Len(Slice(np, i, m)) = m
         /\ Slice(np, i, dn) \in Seq(Limb) /\ Len(Slice(np, i, dn)) = dn
    BY ONLY <1>3, <1>7
  <1> QED
    BY ONLY <1>5, <1>6, <1>8, <1>11, <1>12, <1>13, <1>14, <1>15

\* The divisor in three parts.
LEMMA DivisorParts ==
  ASSUME NEW dp \in Seq(Limb), NEW dn, dn = Len(dp), dn >= 3, NEW m, m = dn - 1, NEW e, e = dn - 2, B <= 2 * dp[dn]
  PROVE  /\ Parts(B, Pow(B, e), dp[dn], dp[m], NatOf(SubSeq(dp, 1, e)), NatOf(dp))
         /\ NatOf(dp) = NatOf(SubSeq(dp, 1, m)) + (B * Pow(B, e)) * dp[dn]
         /\ SubSeq(dp, 1, e) \in Seq(Limb) /\ Len(SubSeq(dp, 1, e)) = e
         /\ SubSeq(dp, 1, m) \in Seq(Limb) /\ Len(SubSeq(dp, 1, m)) = m
  <1> DEFINE o == 0
             j == 1
             p == Pow(B, e)
             dlo == NatOf(SubSeq(dp, 1, e))
             d1 == dp[dn]
             d0 == dp[m]
             d == NatOf(dp)
  <1>1. dn \in Nat /\ e \in Nat /\ m \in Nat /\ 0 + e = e /\ 0 + m = m /\ 0 + dn = dn /\ 0 + 1 = 1
    <2>1. dn \in Nat
      BY NatOfIs
    <2> QED
      BY ONLY <2>1, dn >= 3, m = dn - 1, e = dn - 2
  <1>2. Slice(dp, o, e) = SubSeq(dp, 1, e) /\ Slice(dp, o, m) = SubSeq(dp, 1, m) /\ Slice(dp, o, dn) = SubSeq(dp, 1, dn)
    BY ONLY <1>1 DEF Slice
  <1>3. o \in Nat /\ Frame(dn, o, dn, m, e, j, dn, m)
    BY ONLY <1>1, dn >= 3, m = dn - 1, e = dn - 2 DEF Frame
  <1>9. p = Pow(B, e)
    OBVIOUS
  <1> HIDE DEF o, j, p
  <1>4. /\ p \in Nat \ {0} /\ dp[dn] \in Limb /\ dp[m] \in Limb
        /\ NatOf(Slice(dp, o, e)) \in 0 .. p - 1
        /\ NatOf(Slice(dp, o, m)) = NatOf(Slice(dp, o, e)) + p * dp[m]
        /\ NatOf(Slice(dp, o, dn)) = NatOf(Slice(dp, o, m)) + (B * p) * dp[dn]
        /\ Slice(dp, o, e) \in Seq(Limb) /\ Len(Slice(dp, o, e)) = e
        /\ Slice(dp, o, m) \in Seq(Limb) /\ Len(Slice(dp, o, m)) = m
        /\ Slice(dp, o, dn) \in Seq(Limb) /\ Len(Slice(dp, o, dn)) = dn
    BY ONLY <1>3, <1>9, WindowIs, dp \in Seq(Limb), dn = Len(dp)
  <1>5. NatOf(SubSeq(dp, 1, dn)) = d
    <2> DEFINE s == SubSeq(dp, 1, dn)
    <2>1. s \in Seq(Limb) /\ Len(s) = dn
      BY ONLY <1>2, <1>4
    <2>2. \A i \in 1 .. dn : s[i] = dp[i]
      <3>1. dn \in 0 .. Len(dp)
        BY ONLY <1>1, dn = Len(dp)
      <3> QED
        BY ONLY <3>1, NatOfPieces, dp \in Seq(Limb)
    <2> HIDE DEF s
    <2>3. NatOf(s) = NatOf(dp)
      BY ONLY <2>1, <2>2, SameLimbs, dp \in Seq(Limb), dn = Len(dp)
    <2> QED
      BY ONLY <2>3 DEF s
  <1>6. B \in Nat \ {0} /\ B >= 4 /\ Limb = 0 .. B - 1
    BY LimbsAre
  <1>7. dlo \in 0 .. p - 1 /\ d = (dlo + p * d0) + (B * p) * d1 /\ d0 \in 0 .. B - 1 /\ d1 \in 0 .. B - 1
    BY ONLY <1>2, <1>4, <1>5, <1>6
  <1>8. Parts(B, p, d1, d0, dlo, d)
    <2> HIDE DEF d1, d0, dlo, d
    <2>1. p \in Nat /\ p >= 1 /\ dlo \in Nat /\ d1 \in Nat /\ d0 \in Nat
      <3>1. p \in Nat /\ p >= 1
        BY ONLY <1>4
      <3> QED
        BY ONLY <1>6, <1>7, <3>1
    <2>2. (dlo + p * d0) + (B * p) * d1 = (d1 * B + d0) * p + dlo
      BY ONLY <1>6, <2>1
    <2>3. B <= 2 * d1
      BY DEF d1
    <2>4. B \in Nat /\ d = (d1 * B + d0) * p + dlo
      BY ONLY <1>6, <1>7, <2>2
    <2> QED
      BY ONLY <1>6, <1>7, <2>1, <2>3, <2>4 DEF Parts
  <1> QED
    BY ONLY <1>2, <1>4, <1>5, <1>8, <1>9

----------------------------------------------------------------------------
(* The steps of mpn_div_qr_pi1.                                            *)

\* Whatever the limbs are, the quotient and the remainder are limbs.
LEMMA ThreeLimbs ==
  ASSUME NEW n2 \in Limb, NEW n1 \in Limb, NEW n0 \in Limb, NEW d1 \in Limb, NEW d0 \in Limb, NEW v \in Limb
  PROVE  IsThree(gmp_udiv_qr_3by2(n2, n1, n0, d1, d0, v))
  <1> DEFINE p == gmp_umul_ppmm(n2, v)
             q == Estimate(p, n2, n1)
             w == Rest(q, n1, n0, d1, d0)
             over == w[1] >= q[2]
             ax == IF over THEN gmp_add_ssaaaa(w[1], w[2], d1, d0) ELSE w
             ay == IF over THEN q[1] ELSE Wrap(q[1] + 1)
             big == ax[1] > d1 \/ (ax[1] = d1 /\ ax[2] >= d0)
             z == gmp_sub_ddmmss(ax[1], ax[2], d1, d0)
             t == gmp_udiv_qr_3by2(n2, n1, n0, d1, d0, v)
  <1>1. t = IF big THEN <<Wrap(ay + 1)>> \o z ELSE <<ay>> \o ax
    <2>1. Once(n2, n1, n0, d1, d0, v) = First(q, w, d1, d0)
      BY DEF Once, FirstOf3by2
    <2>2. First(q, w, d1, d0) = [q |-> ay, r |-> ax]
      BY DEF First
    <2>3. t = Second([q |-> ay, r |-> ax], d1, d0)
      BY <2>1, <2>2 DEF gmp_udiv_qr_3by2
    <2> HIDE DEF ay, ax, t
    <2> QED
      BY <2>3 DEF Second
  <1>2. p \in Limb \X Limb
    BY ProductIs DEF IsProduct
  <1> HIDE DEF p
  <1>3. p[1] \in Limb /\ p[2] \in Limb
    BY ONLY <1>2
  <1>4. IsTwo(q)
    BY ONLY <1>3, SumOfTwo, n2 \in Limb, n1 \in Limb DEF Estimate
  <1> HIDE DEF q
  <1>5. IsTwo(w)
    BY ONLY <1>4, RestIs, n1 \in Limb, n0 \in Limb, d1 \in Limb, d0 \in Limb
  <1> HIDE DEF w
  <1>6. w[1] \in Limb /\ w[2] \in Limb /\ q[1] \in Limb
    BY ONLY <1>4, <1>5 DEF IsTwo
  <1>7. ASSUME NEW a \in Limb PROVE Wrap(a + 1) \in Limb
    <2>1. B \in Nat \ {0} /\ Limb = 0 .. B - 1 /\ \A k \in Int : Wrap(k) = k % B
      BY LimbsAre
    <2>2. a + 1 \in Int
      BY ONLY <2>1, a \in Limb
    <2> DEFINE k == a + 1
    <2> HIDE DEF k
    <2>3. Wrap(k) = k % B /\ k \in Int
      BY ONLY <2>1, <2>2 DEF k
    <2>4. k % B \in 0 .. B - 1
      BY ONLY <2>1, <2>3, DivMod
    <2> QED
      BY ONLY <2>1, <2>3, <2>4 DEF k
  <1>8. IsTwo(ax)
    <2>1. CASE over
      <3>1. ax = gmp_add_ssaaaa(w[1], w[2], d1, d0)
        BY ONLY <2>1
      <3> HIDE DEF ax
      <3> QED
        BY ONLY <1>6, <3>1, SumOfTwo, d1 \in Limb, d0 \in Limb
    <2>2. CASE ~over
      <3>1. ax = w
        BY ONLY <2>2
      <3> HIDE DEF ax
      <3> QED
        BY ONLY <1>5, <3>1
    <2> QED
      BY ONLY <2>1, <2>2
  <1>9. ay \in Limb
    <2>1. CASE over
      BY ONLY <1>6, <2>1
    <2>2. CASE ~over
      <3>1. ay = Wrap(q[1] + 1)
        BY ONLY <2>2
      <3> HIDE DEF ay
      <3> QED
        BY ONLY <1>6, <1>7, <3>1
    <2> QED
      BY ONLY <2>1, <2>2
  <1> HIDE DEF ax, ay
  <1>10. IsTwo(z) /\ Wrap(ay + 1) \in Limb
    <2>1. ax[1] \in Limb /\ ax[2] \in Limb
      BY ONLY <1>8 DEF IsTwo
    <2> QED
      BY ONLY <1>7, <1>9, <2>1, DifferenceOfTwo, d1 \in Limb, d0 \in Limb
  <1> HIDE DEF z
  <1>11. ASSUME NEW a \in Limb, NEW g, IsTwo(g) PROVE IsThree(<<a>> \o g)
    <2>1. g = <<g[1], g[2]>> /\ g[1] \in Limb /\ g[2] \in Limb
      BY ONLY IsTwo(g) DEF IsTwo
    <2> DEFINE f == <<a>> \o g
    <2>2. f = <<f[1], f[2], f[3]>> /\ f[1] = a /\ f[2] = g[1] /\ f[3] = g[2]
      BY ONLY <2>1, Tripled
    <2> HIDE DEF f
    <2>3. IsThree(f)
      BY ONLY <2>1, <2>2, a \in Limb DEF IsThree
    <2> QED
      BY ONLY <2>3 DEF f
  <1> DEFINE a1 == Wrap(ay + 1)
             t1 == <<a1>> \o z
             t2 == <<ay>> \o ax
  <1>12. IsThree(t1) /\ IsThree(t2)
    <2> HIDE DEF a1
    <2>1. a1 \in Limb
      BY ONLY <1>10 DEF a1
    <2> QED
      BY ONLY <1>8, <1>9, <1>10, <1>11, <2>1
  <1>13. t = t1 \/ t = t2
    <2> HIDE DEF t, big
    <2> QED
      BY ONLY <1>1
  <1> HIDE DEF t, t1, t2
  <1>14. IsThree(t)
    BY ONLY <1>12, <1>13
  <1> QED
    BY ONLY <1>14 DEF t

\* The limbs np2 are those of np from offset i on, and as before below it.
KeptBelow(np2, np, i) ==
    np2 \in Seq(Limb) /\ Len(np2) = Len(np) /\ \A j \in 1 .. i : np2[j] = np[j]

LEMMA NewPart ==
  ASSUME NEW np \in Seq(Limb), NEW n, n = Len(np), NEW i, NEW dn, NEW m, NEW e, NEW j, NEW h1, NEW h2,
         Frame(n, i, dn, m, e, j, h1, h2), NEW seg \in Seq(Limb), Len(seg) = e, NEW a \in Limb
  PROVE  LET np2 == Store(Store(np, i, seg), e + i, <<a>>) IN
         KeptBelow(np2, np, i) /\ NatOf(Slice(np2, i, m)) = NatOf(seg) + Pow(B, e) * a
  <1> DEFINE f == Store(np, i, seg)
             k == e + i
             one == <<a>>
             g == Store(f, k, one)
             p == Pow(B, e)
  <1>1. /\ e \in Nat \ {0} /\ m \in Nat \ {0} /\ m = e + 1
        /\ h2 \in Nat /\ h2 = (i + e) + 1 /\ i + m <= n /\ i + e <= n /\ h2 \in 1 .. n
    BY FrameIs
  <1>2. i \in Nat /\ n \in Nat /\ k \in Nat /\ h2 = k + 1 /\ k + 1 <= n
    <2>1. i \in Nat /\ n \in Nat
      BY DEF Frame
    <2> QED
      BY ONLY <1>1, <2>1
  <1>3. Window(np, i, e)
    BY ONLY <1>1, <1>2, n = Len(np) DEF Window
  <1>4. /\ f \in Seq(Limb) /\ Len(f) = n
        /\ \A l \in 1 .. i : f[l] = np[l]
        /\ \A l \in 1 .. e : f[i + l] = seg[l]
    <2>1. e = Len(seg)
      OBVIOUS
    <2> HIDE DEF f
    <2>2. /\ f \in Seq(Limb) /\ Len(f) = Len(np)
          /\ \A l \in 1 .. i : f[l] = np[l]
          /\ \A l \in 1 .. e : f[i + l] = seg[l]
          /\ \A l \in (i + e) + 1 .. Len(np) : f[l] = np[l]
      BY ONLY <1>3, <2>1, StoreIs, np \in Seq(Limb), seg \in Seq(Limb) DEF f
    <2> QED
      BY ONLY <2>2, n = Len(np)
  <1> HIDE DEF f
  <1>5. one \in Seq(Limb) /\ Len(one) = 1 /\ one[1] = a
    BY ONLY NatOfShort, a \in Limb
  <1> DEFINE ol == Len(one)
  <1>6. ol = 1 /\ ol = Len(one)
    BY ONLY <1>5
  <1> HIDE DEF one, k, ol
  <1>7. Window(f, k, ol)
    BY ONLY <1>2, <1>4, <1>6 DEF Window
  <1>8. /\ g \in Seq(Limb) /\ Len(g) = n
        /\ \A l \in 1 .. k : g[l] = f[l]
        /\ \A l \in 1 .. ol : g[k + l] = one[l]
    <2>1. f \in Seq(Limb) /\ one \in Seq(Limb) /\ ol = Len(one)
      BY ONLY <1>4, <1>5, <1>6
    <2>2. /\ g \in Seq(Limb) /\ Len(g) = Len(f)
          /\ \A l \in 1 .. k : g[l] = f[l]
          /\ \A l \in 1 .. ol : g[k + l] = one[l]
      BY ONLY <1>7, <2>1, StoreIs
    <2> QED
      BY ONLY <1>4, <2>2
  <1> HIDE DEF g
  <1>9. g[h2] = a
    <2>1. 1 \in 1 .. ol
      BY ONLY <1>6
    <2>2. g[k + 1] = one[1]
      BY ONLY <1>8, <2>1
    <2> QED
      BY ONLY <1>2, <1>5, <2>2
  <1>10. KeptBelow(g, np, i)
    <2>1. \A l \in 1 .. i : l \in 1 .. k
      BY ONLY <1>1, <1>2 DEF k
    <2>2. \A l \in 1 .. i : g[l] = np[l]
      BY ONLY <1>4, <1>8, <2>1
    <2> QED
      BY ONLY <1>8, <2>2, n = Len(np) DEF KeptBelow
  <1>11. NatOf(Slice(g, i, e)) = NatOf(seg)
    <2>1. Window(g, i, e)
      BY ONLY <1>1, <1>2, <1>8 DEF Window
    <2> DEFINE s == Slice(g, i, e)
    <2>2. s \in Seq(Limb) /\ Len(s) = e /\ \A l \in 1 .. e : s[l] = g[i + l]
      BY ONLY <1>8, <2>1, SliceIs
    <2> HIDE DEF s
    <2>3. \A l \in 1 .. e : i + l \in 1 .. k
      BY ONLY <1>1, <1>2 DEF k
    <2>4. \A l \in 1 .. Len(s) : s[l] = seg[l]
      BY ONLY <1>4, <1>8, <2>2, <2>3
    <2>5. NatOf(s) = NatOf(seg)
      BY ONLY <2>2, <2>4, SameLimbs, seg \in Seq(Limb), Len(seg) = e
    <2> QED
      BY ONLY <2>5 DEF s
  <1>12. p = Pow(B, e)
    OBVIOUS
  <1> HIDE DEF p
  <1>13. NatOf(Slice(g, i, m)) = NatOf(Slice(g, i, e)) + p * g[h2]
    <2>1. n = Len(g)
      BY ONLY <1>8
    <2> QED
      BY ONLY <1>8, <1>12, <2>1, WindowIs, Frame(n, i, dn, m, e, j, h1, h2)
  <1>14. NatOf(Slice(g, i, m)) = NatOf(seg) + Pow(B, e) * a
    BY ONLY <1>9, <1>11, <1>12, <1>13
  <1> QED
    BY ONLY <1>10, <1>14 DEF g, k, f, one

LEMMA StoredWhole ==
  ASSUME NEW np \in Seq(Limb), NEW i, NEW k, NEW seg \in Seq(Limb), k = Len(seg), Window(np, i, k)
  PROVE  LET g == Store(np, i, seg) IN
         /\ KeptBelow(g, np, i) /\ NatOf(Slice(g, i, k)) = NatOf(seg)
         /\ \A l \in 1 .. k : g[i + l] = seg[l]
  <1> DEFINE g == Store(np, i, seg)
             s == Slice(g, i, k)
  <1>1. /\ g \in Seq(Limb) /\ Len(g) = Len(np)
        /\ \A l \in 1 .. i : g[l] = np[l]
        /\ \A l \in 1 .. k : g[i + l] = seg[l]
    BY ONLY StoreIs, np \in Seq(Limb), seg \in Seq(Limb), k = Len(seg), Window(np, i, k)
  <1> HIDE DEF g
  <1>2. KeptBelow(g, np, i)
    BY ONLY <1>1 DEF KeptBelow
  <1>3. Window(g, i, k)
    BY ONLY <1>1, Window(np, i, k) DEF Window
  <1>4. s \in Seq(Limb) /\ Len(s) = k /\ \A l \in 1 .. k : s[l] = g[i + l]
    BY ONLY <1>1, <1>3, SliceIs
  <1> HIDE DEF s
  <1>5. \A l \in 1 .. Len(s) : s[l] = seg[l]
    BY ONLY <1>1, <1>4
  <1>6. NatOf(s) = NatOf(seg)
    BY ONLY <1>4, <1>5, SameLimbs, seg \in Seq(Limb), k = Len(seg)
  <1> QED
    BY ONLY <1>1, <1>2, <1>6 DEF g, s

\* A state of the loop: the limbs np and the limb n1 on top of them; and what
\* it holds from offset i on, m limbs and n1.
InLoop(s, n) == s = [np |-> s.np, n1 |-> s.n1] /\ s.np \in Seq(Limb) /\ Len(s.np) = n /\ s.n1 \in Limb
Held(s, i, m) == NatOf(Slice(s.np, i, m)) + Pow(B, m) * s.n1

LEMMA AddBackIs ==
  ASSUME NEW np \in Seq(Limb), NEW n, n = Len(np), NEW i, NEW dn, NEW m, NEW e, NEW j, NEW h1, NEW h2,
         Frame(n, i, dn, m, e, j, h1, h2), NEW dp \in Seq(Limb), Len(dp) = dn, B <= 2 * dp[dn],
         NEW q, NEW n1 \in Limb
  PROVE  LET t == AddBack(dp, i, q, np, n1)
             s == t[2]
         IN  /\ t = <<Wrap(q - 1), s>> /\ InLoop(s, n) /\ KeptBelow(s.np, np, i)
             /\ \E k \in Int : Held(s, i, m) = ((NatOf(Slice(np, i, m)) + Pow(B, m) * n1) + NatOf(dp))
                                                + (Pow(B, m) * B) * k
  <1> DEFINE a == Slice(np, i, m)
             b == SubSeq(dp, 1, m)
             back == mpn_add_n(a, b)
             br == back.r
             bc == back.cy
             g == Store(np, i, br)
             d1 == dp[dn]
             f == n1 + d1 + bc
             n2 == Wrap(f)
             s == [np |-> g, n1 |-> n2]
             t == AddBack(dp, i, q, np, n1)
             Q == Pow(B, m)
  <1>1. m = dn - 1 /\ e = dn - 2 /\ dn >= 3 /\ dn \in Nat /\ i \in Nat /\ n \in Nat
    BY DEF Frame
  <1>2. e \in Nat \ {0} /\ m \in Nat \ {0} /\ i + m <= n
    BY FrameIs
  <1>3. Window(np, i, m)
    BY ONLY <1>1, <1>2, n = Len(np) DEF Window
  <1>4. a \in Seq(Limb) /\ Len(a) = m
    BY ONLY <1>3, SliceIs, np \in Seq(Limb)
  <1>5. b \in Seq(Limb) /\ Len(b) = m /\ Parts(B, Pow(B, e), d1, dp[m], NatOf(SubSeq(dp, 1, e)), NatOf(dp))
        /\ NatOf(dp) = NatOf(b) + (B * Pow(B, e)) * d1
    BY ONLY <1>1, DivisorParts, dp \in Seq(Limb), Len(dp) = dn, B <= 2 * dp[dn]
  <1>6. t = <<Wrap(q - 1), s>>
    <2>1. Len(dp) - 1 = m /\ Len(dp) = dn
      BY ONLY <1>1, Len(dp) = dn
    <2> QED
      BY ONLY <2>1 DEF AddBack
  <1>7. /\ br \in Seq(Limb) /\ Len(br) = m /\ NatOf(br) + Q * bc = NatOf(a) + NatOf(b)
        /\ bc \in {0, 1}
    <2> HIDE DEF a, b
    <2> QED
      BY ONLY <1>4, <1>5, AddTwoSum DEF Sum
  <1>8. Q = B * Pow(B, e) /\ Q \in Nat \ {0}
    <2> DEFINE p == Pow(B, e)
    <2>1. p = Pow(B, e)
      OBVIOUS
    <2> HIDE DEF p
    <2>2. p \in Nat \ {0} /\ Q = B * p
      BY ONLY <2>1, WindowIs, np \in Seq(Limb), n = Len(np), Frame(n, i, dn, m, e, j, h1, h2)
    <2>3. B \in Nat \ {0}
      BY LimbsAre
    <2>4. B * p \in Nat \ {0}
      BY ONLY <2>2, <2>3
    <2> QED
      BY ONLY <2>2, <2>4 DEF p
  <1> HIDE DEF br, bc
  <1>9. KeptBelow(g, np, i) /\ NatOf(Slice(g, i, m)) = NatOf(br)
    BY ONLY <1>3, <1>7, StoredWhole, np \in Seq(Limb)
  <1>10. /\ B \in Nat \ {0} /\ Limb = 0 .. B - 1 /\ \A k \in Int : Wrap(k) = k % B
    BY LimbsAre
  <1>11. f \in Int /\ d1 \in Int /\ n1 \in Int /\ bc \in Int
    <2>1. d1 \in Int
      BY ONLY <1>5 DEF Parts
    <2> HIDE DEF d1
    <2> QED
      BY ONLY <1>7, <1>10, <2>1, n1 \in Limb
  <1>12. n2 \in 0 .. B - 1 /\ f = B * (f \div B) + n2 /\ f \div B \in Int
    <2> HIDE DEF f
    <2>1. f % B \in 0 .. B - 1 /\ f = B * (f \div B) + (f % B) /\ f \div B \in Int
      BY ONLY <1>10, <1>11, DivMod
    <2>2. n2 = f % B
      BY ONLY <1>10, <1>11
    <2> HIDE DEF n2
    <2> QED
      BY ONLY <2>1, <2>2
  <1> HIDE DEF n2
  <1>13. s = [np |-> g, n1 |-> n2] /\ s.np = g /\ s.n1 = n2
    OBVIOUS
  <1> HIDE DEF s, g
  <1>14. InLoop(s, n)
    <2>1. g \in Seq(Limb) /\ Len(g) = n
      BY ONLY <1>9, n = Len(np) DEF KeptBelow
    <2>2. n2 \in Limb
      BY ONLY <1>10, <1>12
    <2> QED
      BY ONLY <1>13, <2>1, <2>2 DEF InLoop
  <1> DEFINE u == NatOf(a)
             v == NatOf(b)
             k == -(f \div B)
             r == NatOf(br)
  <1>15. r + Q * n2 = ((u + Q * n1) + NatOf(dp)) + (Q * B) * k
    <2>1. u \in Int /\ v \in Int /\ r \in Int
      <3> HIDE DEF a, b
      <3>1. u \in Nat /\ v \in Nat /\ r \in Nat
        BY ONLY <1>4, <1>5, <1>7, NatOfIs
      <3> QED
        BY ONLY <3>1
    <2> DEFINE h == f \div B
               dv == NatOf(dp)
    <2>2. r + Q * bc = u + v /\ dv = v + Q * d1 /\ n1 + d1 + bc = B * h + n2 /\ h \in Int /\ n2 \in Int
      BY ONLY <1>5, <1>7, <1>8, <1>12
    <2> HIDE DEF u, v, r, h, dv, Q, d1, f
    <2>3. n2 = n1 + d1 + bc - B * h
      BY ONLY <1>10, <1>11, <2>2
    <2>8. Q \in Int /\ B \in Int /\ n1 \in Int /\ d1 \in Int /\ bc \in Int /\ h \in Int
      <3>1. Q \in Int
        BY ONLY <1>8
      <3> QED
        BY ONLY <1>10, <1>11, <2>2, <3>1
    <2>4. Q * (n1 + d1 + bc - B * h) = Q * n1 + Q * d1 + Q * bc - (Q * B) * h
      BY ONLY <2>8
    <2>5. (Q * B) * (-h) = -((Q * B) * h) /\ (Q * B) * h \in Int /\ Q * n1 \in Int /\ Q * d1 \in Int /\ Q * bc \in Int
      BY ONLY <2>8
    <2> DEFINE z1 == Q * n1
               z2 == Q * d1
               z3 == Q * bc
               z4 == (Q * B) * h
               z5 == Q * n2
               z6 == (Q * B) * (-h)
    <2>6. z5 = z1 + z2 + z3 - z4 /\ z6 = -z4 /\ r + z3 = u + v /\ dv = v + z2
          /\ z1 \in Int /\ z2 \in Int /\ z3 \in Int /\ z4 \in Int
      BY ONLY <2>2, <2>3, <2>4, <2>5
    <2> HIDE DEF z1, z2, z3, z4, z5, z6
    <2>7. r + z5 = ((u + z1) + dv) + z6
      BY ONLY <2>1, <2>6
    <2> QED
      BY ONLY <2>7 DEF z5, z1, z6, dv, h
  <1>16. Held(s, i, m) = r + Q * n2
    BY ONLY <1>9, <1>13 DEF Held
  <1>17. k \in Int
    <2> DEFINE h == f \div B
    <2>1. h \in Int
      BY ONLY <1>12
    <2> HIDE DEF h
    <2>2. -h \in Int
      BY ONLY <2>1
    <2> QED
      BY ONLY <2>2 DEF h
  <1>18. KeptBelow(s.np, np, i)
    BY ONLY <1>9, <1>13
  <1> HIDE DEF r, k, t
  <1>19. t[2] = s /\ t = <<Wrap(q - 1), s>>
    BY ONLY <1>6
  <1>20. \E k2 \in Int : Held(s, i, m) = ((NatOf(Slice(np, i, m)) + Pow(B, m) * n1) + NatOf(dp)) + (Pow(B, m) * B) * k2
    BY ONLY <1>15, <1>16, <1>17 DEF a, u, Q
  <1> QED
    BY ONLY <1>14, <1>18, <1>19, <1>20 DEF t

\* One step: a quotient limb, and a state whose limbs below the offset are as before.
StepTyped(t, np, n, i) ==
    t = <<t[1], t[2]>> /\ t[1] \in Limb /\ InLoop(t[2], n) /\ KeptBelow(t[2].np, np, i)

LEMMA Wrapped ==
  ASSUME NEW a \in Int
  PROVE  Wrap(a) \in Limb /\ \E k \in Int : Wrap(a) = a + B * k
  <1>1. /\ B \in Nat \ {0} /\ Limb = 0 .. B - 1 /\ \A k \in Int : Wrap(k) = k % B
    BY LimbsAre
  <1> DEFINE h == a \div B
             w == Wrap(a)
  <1>2. w \in 0 .. B - 1 /\ a = B * h + w /\ h \in Int
    <2>1. w = a % B
      BY ONLY <1>1, a \in Int
    <2>2. a % B \in 0 .. B - 1 /\ a = B * (a \div B) + (a % B) /\ a \div B \in Int
      BY ONLY <1>1, a \in Int, DivMod
    <2> HIDE DEF w
    <2> QED
      BY ONLY <2>1, <2>2
  <1> HIDE DEF h, w
  <1>3. -h \in Int /\ w = a + B * (-h)
    <2>1. w \in Int
      BY ONLY <1>1, <1>2
    <2> QED
      BY ONLY <1>1, <1>2, <2>1, a \in Int
  <1>4. \E k \in Int : w = a + B * k
    BY ONLY <1>3
  <1> QED
    BY ONLY <1>1, <1>2, <1>4 DEF w

\* The borrow out of the lower parts, taken off the two limbs of the remainder.
LEMMA TakenOff ==
  ASSUME NEW r1 \in Limb, NEW r0 \in Limb, NEW cy \in Limb
  PROVE  LET z == (r1 * B + r0) - cy
             c == Bit(r0 < cy)
             a0 == Wrap(r0 - cy)
             a1 == Wrap(r1 - c)
         IN  /\ c \in {0, 1} /\ a0 \in Limb /\ a1 \in Limb /\ z \in Int
             /\ (r1 < c => z < 0 /\ a1 * B + a0 = z + B * B) /\ (~(r1 < c) => z >= 0 /\ a1 * B + a0 = z)
  <1> DEFINE z == (r1 * B + r0) - cy
             c == Bit(r0 < cy)
             a0 == Wrap(r0 - cy)
             a1 == Wrap(r1 - c)
  <1>1. /\ B \in Nat \ {0} /\ Limb = 0 .. B - 1 /\ \A k \in Int : Wrap(k) = k % B
    BY LimbsAre
  <1>2. r1 \in Nat /\ r0 \in Nat /\ cy \in Nat /\ r1 < B /\ r0 < B /\ cy < B
    BY <1>1
  <1>3. c = IF r0 < cy THEN 1 ELSE 0
    BY DEF Bit
  <1>4. c \in {0, 1} /\ (c = 1 <=> r0 < cy)
    <2> HIDE DEF c
    <2> QED
      BY ONLY <1>3
  <1> HIDE DEF c
  <1>13. ASSUME NEW k \in Int, NEW w \in Int, w \in 0 .. B - 1, k = w \/ k = w - B
         PROVE  k % B = w
    <2>1. 0 \in Int /\ -1 \in Int
      OBVIOUS
    <2>2. k = B * 0 + w \/ k = B * (-1) + w
      BY ONLY <1>1, k \in Int, w \in Int, k = w \/ k = w - B
    <2> DEFINE o == 0
               mo == -1
    <2>3. o \in Int /\ mo \in Int /\ (k = B * o + w \/ k = B * mo + w)
      BY ONLY <2>1, <2>2
    <2> HIDE DEF o, mo
    <2> QED
      BY ONLY <1>1, <2>3, DivisionIs, w \in 0 .. B - 1
  <1>5. a0 \in Limb /\ a0 = (r0 - cy) + B * c
    <2>1. a0 = (r0 - cy) % B
      BY ONLY <1>1, <1>2
    <2> HIDE DEF a0
    <2>2. CASE c = 1
      <3>1. (r0 - cy) + B \in 0 .. B - 1
        BY ONLY <1>1, <1>2, <1>4, <2>2
      <3> DEFINE k == r0 - cy
                 w == k + B
      <3>2. k \in Int /\ w \in Int /\ k = w - B
        BY ONLY <1>1, <1>2
      <3>3. w \in 0 .. B - 1
        BY ONLY <3>1
      <3> HIDE DEF k, w
      <3>4. k % B = w
        BY ONLY <1>13, <3>2, <3>3
      <3>5. a0 = w
        BY ONLY <2>1, <3>4 DEF k
      <3>6. w = k + B * c
        BY ONLY <1>1, <2>2, <3>2
      <3> QED
        BY ONLY <1>1, <3>3, <3>5, <3>6 DEF k
    <2>3. CASE c = 0
      <3>1. r0 - cy \in 0 .. B - 1
        BY ONLY <1>1, <1>2, <1>4, <2>3
      <3> DEFINE k == r0 - cy
      <3>2. k \in Int
        BY ONLY <1>1, <1>2
      <3>3. k \in 0 .. B - 1
        BY ONLY <3>1
      <3> HIDE DEF k
      <3>4. k % B = k
        BY ONLY <1>13, <3>2, <3>3
      <3>5. a0 = k
        BY ONLY <2>1, <3>4 DEF k
      <3>6. k = k + B * c
        BY ONLY <1>1, <2>3, <3>2
      <3> QED
        BY ONLY <1>1, <3>3, <3>5, <3>6 DEF k
    <2> QED
      BY ONLY <1>4, <2>2, <2>3
  <1> HIDE DEF a0
  <1>6. a1 = (r1 - c) % B
    BY ONLY <1>1, <1>2, <1>4
  <1> HIDE DEF a1
  <1>7. r1 < c => a1 = B - 1 /\ r1 = 0 /\ c = 1
    <2> HAVE r1 < c
    <2>1. c = 1 /\ r1 = 0
      BY ONLY <1>2, <1>4, r1 < c
    <2>2. r1 - c = -1
      BY ONLY <2>1
    <2> DEFINE k == r1 - c
               w == B - 1
    <2>3. k \in Int /\ w \in Int /\ w \in 0 .. B - 1 /\ k = w - B
      BY ONLY <1>1, <2>2
    <2> HIDE DEF k, w
    <2>4. k % B = w
      BY ONLY <1>13, <2>3
    <2> QED
      BY ONLY <1>6, <2>1, <2>4 DEF k, w
  <1>8. ~(r1 < c) => a1 = r1 - c
    <2> HAVE ~(r1 < c)
    <2>1. r1 - c \in 0 .. B - 1
      BY ONLY <1>1, <1>2, <1>4, ~(r1 < c)
    <2> DEFINE k == r1 - c
    <2>2. k \in Int /\ k \in 0 .. B - 1
      BY ONLY <1>1, <2>1
    <2> HIDE DEF k
    <2>3. k % B = k
      BY ONLY <1>13, <2>2
    <2> QED
      BY ONLY <1>6, <2>3 DEF k
  <1>9. a1 \in Limb
    <2>1. r1 - c \in Int
      BY ONLY <1>2, <1>4
    <2> DEFINE k == r1 - c
    <2> HIDE DEF k
    <2>2. k % B \in 0 .. B - 1
      BY ONLY <1>1, <2>1, DivMod DEF k
    <2> QED
      BY ONLY <1>1, <1>6, <2>2 DEF k
  <1>10. z \in Int /\ a0 \in Nat /\ a0 < B
    <2>1. r1 * B \in Int
      BY ONLY <1>1, <1>2
    <2> DEFINE k == r1 * B
    <2> HIDE DEF k
    <2>2. (k + r0) - cy \in Int
      BY ONLY <1>2, <2>1 DEF k
    <2>3. a0 \in Nat /\ a0 < B
      BY ONLY <1>1, <1>5
    <2> QED
      BY ONLY <2>2, <2>3 DEF k
  <1>11. r1 < c => z < 0 /\ a1 * B + a0 = z + B * B
    <2> HAVE r1 < c
    <2>1. a1 = B - 1 /\ r1 = 0 /\ c = 1
      BY ONLY <1>7, r1 < c
    <2>2. a0 = (r0 - cy) + B
      BY ONLY <1>1, <1>2, <1>5, <2>1
    <2>3. r1 * B = 0
      BY ONLY <1>1, <2>1
    <2>4. z = r0 - cy
      BY ONLY <1>2, <2>3
    <2> HIDE DEF z
    <2>5. z < 0
      BY ONLY <1>1, <1>2, <1>10, <2>2, <2>4
    <2>6. a1 * B = B * B - B /\ B * B \in Int
      BY ONLY <1>1, <2>1
    <2> QED
      BY ONLY <1>1, <1>2, <1>10, <2>2, <2>4, <2>5, <2>6
  <1>12. ~(r1 < c) => z >= 0 /\ a1 * B + a0 = z
    <2> HAVE ~(r1 < c)
    <2>1. a1 = r1 - c /\ r1 - c >= 0 /\ c \in Int
      BY ONLY <1>2, <1>4, <1>8, ~(r1 < c)
    <2>2. a1 * B = r1 * B - B * c /\ a1 * B >= 0 /\ r1 * B \in Int /\ B * c \in Int
      BY ONLY <1>1, <1>2, <2>1
    <2> DEFINE k1 == a1 * B
               k2 == r1 * B
               k3 == B * c
    <2>3. k1 = k2 - k3 /\ k1 >= 0 /\ k2 \in Int /\ k3 \in Int /\ a0 = (r0 - cy) + k3 /\ z = (k2 + r0) - cy
      BY ONLY <1>5, <2>2
    <2> HIDE DEF k1, k2, k3, z
    <2>4. k1 + a0 = z /\ z >= 0
      BY ONLY <1>2, <1>10, <2>3
    <2> QED
      BY ONLY <2>4 DEF k1
  <1> QED
    BY ONLY <1>4, <1>5, <1>9, <1>10, <1>11, <1>12 DEF z, c, a0, a1

LEMMA TakePartIs ==
  ASSUME NEW np \in Seq(Limb), NEW n, n = Len(np), NEW i, NEW dn, NEW m, NEW e, NEW j, NEW h1, NEW h2,
         Frame(n, i, dn, m, e, j, h1, h2), NEW dp \in Seq(Limb), Len(dp) = dn, B <= 2 * dp[dn],
         NEW f, IsThree(f), NEW part, part.r \in Seq(Limb), Len(part.r) = e, part.cy \in Limb
  PROVE  LET t == TakePart(dp, i, np, f, part)
             z == (f[2] * B + f[3]) - part.cy
             v == z * Pow(B, e) + NatOf(part.r)
         IN  /\ StepTyped(t, np, n, i) /\ z \in Int
             /\ (z >= 0 => t[1] = f[1] /\ Held(t[2], i, m) = v)
             /\ (z < 0 => /\ t[1] = Wrap(f[1] - 1)
                          /\ \E k \in Int : Held(t[2], i, m) = (v + NatOf(dp)) + (Pow(B, m) * B) * k)
  <1> DEFINE pr == part.r
             cy == part.cy
             q == f[1]
             r1 == f[2]
             r0 == f[3]
             t == TakePart(dp, i, np, f, part)
             z == (r1 * B + r0) - cy
             p == Pow(B, e)
             Q == Pow(B, m)
             v == z * p + NatOf(pr)
             c == Bit(r0 < cy)
             a0 == Wrap(r0 - cy)
             a1 == Wrap(r1 - c)
             np2 == Store(Store(np, i, pr), e + i, <<a0>>)
             back == AddBack(dp, i, q, np2, a1)
             plain == <<q, [np |-> np2, n1 |-> a1]>>
  <1>1. q \in Limb /\ r1 \in Limb /\ r0 \in Limb
    BY DEF IsThree
  <1>2. t = IF r1 < c THEN back ELSE plain
    <2>1. Len(dp) - 2 = e
      BY Len(dp) = dn DEF Frame
    <2> QED
      BY ONLY <2>1 DEF TakePart
  <1>3. /\ a0 \in Limb /\ a1 \in Limb /\ z \in Int
        /\ (r1 < c => z < 0 /\ a1 * B + a0 = z + B * B) /\ (~(r1 < c) => z >= 0 /\ a1 * B + a0 = z)
    <2>1. cy \in Limb
      OBVIOUS
    <2> HIDE DEF r1, r0, cy
    <2> QED
      BY ONLY <1>1, <2>1, TakenOff
  <1>4. KeptBelow(np2, np, i) /\ NatOf(Slice(np2, i, m)) = NatOf(pr) + p * a0
    <2> HIDE DEF a0
    <2> QED
      BY ONLY <1>3, NewPart, np \in Seq(Limb), n = Len(np), Frame(n, i, dn, m, e, j, h1, h2),
              part.r \in Seq(Limb), Len(part.r) = e
  <1>5. np2 \in Seq(Limb) /\ Len(np2) = n /\ \A l \in 1 .. i : np2[l] = np[l]
    BY ONLY <1>4, n = Len(np) DEF KeptBelow
  <1>6. p \in Nat \ {0} /\ Q = B * p
    <2>1. p = Pow(B, e)
      OBVIOUS
    <2> HIDE DEF p
    <2> QED
      BY ONLY <2>1, WindowIs, np \in Seq(Limb), n = Len(np), Frame(n, i, dn, m, e, j, h1, h2)
  <1>7. B \in Nat \ {0} /\ Limb = 0 .. B - 1
    BY LimbsAre
  <1> HIDE DEF np2, c, a0, a1, z
  <1>8. /\ NatOf(pr) \in Int
        /\ (NatOf(pr) + p * a0) + Q * a1 = NatOf(pr) + (a1 * B + a0) * p
    <2> DEFINE u == NatOf(pr)
    <2>1. u \in Int /\ a0 \in Int /\ a1 \in Int
      <3>1. u \in Nat
        BY ONLY NatOfIs, part.r \in Seq(Limb)
      <3> QED
        BY ONLY <1>3, <1>7, <3>1
    <2> HIDE DEF u, p
    <2>2. (u + p * a0) + (B * p) * a1 = u + (a1 * B + a0) * p
      BY ONLY <1>6, <1>7, <2>1
    <2> HIDE DEF Q
    <2> QED
      BY ONLY <1>6, <2>1, <2>2 DEF u
  <1>9. CASE ~(r1 < c)
    <2> DEFINE s == [np |-> np2, n1 |-> a1]
    <2>1. t = <<q, s>>
      BY ONLY <1>2, <1>9
    <2>2. s = [np |-> s.np, n1 |-> s.n1] /\ s.np = np2 /\ s.n1 = a1
      OBVIOUS
    <2> HIDE DEF s
    <2>3. InLoop(s, n) /\ KeptBelow(s.np, np, i)
      BY ONLY <1>3, <1>4, <1>5, <2>2 DEF InLoop
    <2>4. Held(s, i, m) = v
      <3>1. Held(s, i, m) = (NatOf(pr) + p * a0) + Q * a1
        BY ONLY <1>4, <2>2 DEF Held
      <3>2. a1 * B + a0 = z
        BY ONLY <1>3, <1>9
      <3>3. Held(s, i, m) = NatOf(pr) + z * p
        BY ONLY <1>8, <3>1, <3>2
      <3> DEFINE u == NatOf(pr)
                 zp == z * p
      <3>4. u \in Int /\ zp \in Int /\ Held(s, i, m) = u + zp
        BY ONLY <1>3, <1>6, <1>8, <3>3
      <3> HIDE DEF u, zp
      <3>5. Held(s, i, m) = zp + u
        BY ONLY <3>4
      <3> QED
        BY ONLY <3>5 DEF zp, u
    <2> HIDE DEF t
    <2>5. StepTyped(t, np, n, i) /\ t[1] = q /\ t[2] = s
      BY ONLY <1>1, <2>1, <2>3 DEF StepTyped
    <2>6. z >= 0 /\ ~(z < 0)
      BY ONLY <1>3, <1>9
    <2> HIDE DEF v, q
    <2>7. /\ StepTyped(t, np, n, i) /\ z \in Int /\ (z >= 0 => t[1] = q /\ Held(t[2], i, m) = v) /\ ~(z < 0)
      BY ONLY <1>3, <2>4, <2>5, <2>6
    <2> QED
      BY ONLY <2>7 DEF v, q, t, z
  <1>10. CASE r1 < c
    <2> DEFINE s == back[2]
    <2>1. t = back
      BY ONLY <1>2, <1>10
    <2> HIDE DEF q
    <2>2. /\ back = <<Wrap(q - 1), s>> /\ InLoop(s, n) /\ KeptBelow(s.np, np2, i)
          /\ \E k \in Int : Held(s, i, m) = ((NatOf(Slice(np2, i, m)) + Pow(B, m) * a1) + NatOf(dp))
                                             + (Pow(B, m) * B) * k
      <3>1. n = Len(np2)
        BY ONLY <1>5
      <3> QED
        BY ONLY <1>3, <1>5, <3>1, AddBackIs, Frame(n, i, dn, m, e, j, h1, h2), dp \in Seq(Limb), Len(dp) = dn,
                B <= 2 * dp[dn]
    <2>3. PICK k \in Int : Held(s, i, m) = ((NatOf(Slice(np2, i, m)) + Q * a1) + NatOf(dp)) + (Q * B) * k
      BY ONLY <2>2
    <2> HIDE DEF back, s, t
    <2>4. KeptBelow(s.np, np, i)
      BY ONLY <1>4, <2>2 DEF KeptBelow
    <2>5. Wrap(q - 1) \in Limb
      <3>1. q - 1 \in Int
        BY ONLY <1>1, <1>7
      <3> DEFINE l == q - 1
      <3> HIDE DEF l
      <3>2. Wrap(l) \in Limb
        BY ONLY <3>1, Wrapped DEF l
      <3> QED
        BY ONLY <3>2 DEF l
    <2> DEFINE w == Wrap(q - 1)
    <2> HIDE DEF w
    <2>6. t = <<w, s>> /\ w \in Limb
      BY ONLY <2>1, <2>2, <2>5 DEF w
    <2>7. StepTyped(t, np, n, i) /\ t[1] = w /\ t[2] = s
      BY ONLY <2>2, <2>4, <2>6 DEF StepTyped
    <2>8. z < 0 /\ a1 * B + a0 = z + B * B /\ z \in Int
      BY ONLY <1>3, <1>10
    <2>9. k + 1 \in Int /\ Held(s, i, m) = (v + NatOf(dp)) + (Q * B) * (k + 1)
      <3> DEFINE u == NatOf(pr)
                 d == NatOf(dp)
      <3>1. Held(s, i, m) = ((u + (z + B * B) * p) + d) + (Q * B) * k
        BY ONLY <1>4, <1>8, <2>3, <2>8
      <3>2. u \in Int /\ d \in Int /\ k \in Int /\ k + 1 \in Int
        <4>1. d \in Nat
          BY ONLY NatOfIs, dp \in Seq(Limb)
        <4> QED
          BY ONLY <1>8, <4>1, k \in Int
      <3> HIDE DEF u, d
      <3>3. (z + B * B) * p = z * p + (B * B) * p /\ Q * B = (B * B) * p
        <4> HIDE DEF p, Q
        <4> QED
          BY ONLY <1>6, <1>7, <2>8
      <3> DEFINE M == (B * B) * p
                 a == z * p
                 b == M * k
      <3>4. M * (k + 1) = b + M /\ M \in Int /\ a \in Int /\ b \in Int
        <4>1. M \in Int /\ a \in Int
          <5> HIDE DEF p
          <5> QED
            BY ONLY <1>6, <1>7, <2>8
        <4> HIDE DEF M
        <4> QED
          BY ONLY <3>2, <4>1
      <3> DEFINE g == M * (k + 1)
                 h == Held(s, i, m)
                 w2 == (z + B * B) * p
      <3>5. h = ((u + w2) + d) + b /\ w2 = a + M /\ g = b + M /\ M \in Int /\ a \in Int /\ b \in Int
        BY ONLY <3>1, <3>3, <3>4
      <3> HIDE DEF M, a, b, g, h, w2
      <3>6. h = ((a + u) + d) + g
        BY ONLY <3>2, <3>5
      <3>7. Held(s, i, m) = ((z * p + u) + d) + (Q * B) * (k + 1)
        BY ONLY <3>3, <3>6 DEF M, a, g, h
      <3> QED
        BY ONLY <3>2, <3>7 DEF u, d
    <2> HIDE DEF v
    <2>10. \E k2 \in Int : Held(s, i, m) = (v + NatOf(dp)) + (Q * B) * k2
      BY ONLY <2>9
    <2>11. ~(z >= 0)
      BY ONLY <2>8
    <2>12. /\ StepTyped(t, np, n, i) /\ z \in Int /\ ~(z >= 0) /\ t[1] = w
           /\ \E k2 \in Int : Held(t[2], i, m) = (v + NatOf(dp)) + (Q * B) * k2
      BY ONLY <2>7, <2>8, <2>10, <2>11
    <2> QED
      BY ONLY <2>12 DEF v, q, t, z, w
  <1> QED
    BY ONLY <1>9, <1>10

LEMMA HeldBelow ==
  ASSUME NEW n, NEW i, NEW dn, NEW m, NEW e, NEW j, NEW h1, NEW h2, Frame(n, i, dn, m, e, j, h1, h2),
         NEW s, InLoop(s, n)
  PROVE  /\ Held(s, i, m) \in 0 .. Pow(B, m) * B - 1 /\ Pow(B, m) * B \in Nat \ {0}
         /\ Pow(B, m) * B = (B * B) * Pow(B, e)
  <1> DEFINE np == s.np
             n1 == s.n1
             Q == Pow(B, m)
             p == Pow(B, e)
             u == NatOf(Slice(np, i, m))
  <1>1. np \in Seq(Limb) /\ n = Len(np) /\ n1 \in Limb
    BY DEF InLoop
  <1>2. p = Pow(B, e)
    OBVIOUS
  <1> HIDE DEF p, np, n1
  <1>3. p \in Nat \ {0} /\ Q = B * p /\ Slice(np, i, m) \in Seq(Limb) /\ Len(Slice(np, i, m)) = m
    BY ONLY <1>1, <1>2, WindowIs, Frame(n, i, dn, m, e, j, h1, h2)
  <1>4. B \in Nat \ {0} /\ Limb = 0 .. B - 1
    BY LimbsAre
  <1>5. u \in Nat /\ u < Q
    BY ONLY <1>3, NatOfIs
  <1>6. Held(s, i, m) = u + Q * n1
    BY DEF Held, np, n1
  <1> HIDE DEF u, Q
  <1>7. Q \in Nat \ {0}
    BY ONLY <1>3, <1>4
  <1>8. u + Q * n1 \in 0 .. Q * B - 1 /\ Q * B \in Nat \ {0}
    <2>1. n1 \in Nat /\ n1 + 1 <= B
      BY ONLY <1>1, <1>4
    <2>2. Q * (n1 + 1) <= Q * B /\ Q * (n1 + 1) = Q * n1 + Q /\ Q * n1 \in Nat /\ Q * B \in Nat \ {0}
      BY ONLY <1>4, <1>7, <2>1
    <2> DEFINE a == Q * n1
               b == Q * B
    <2>3. a + Q <= b /\ a \in Nat /\ b \in Nat \ {0}
      BY ONLY <2>2
    <2> HIDE DEF a, b
    <2>4. u + a \in 0 .. b - 1 /\ b \in Nat \ {0}
      BY ONLY <1>5, <1>7, <2>3
    <2> QED
      BY ONLY <2>4 DEF a, b
  <1>9. Q * B = (B * B) * p
    BY ONLY <1>3, <1>4
  <1> QED
    BY ONLY <1>2, <1>6, <1>8, <1>9 DEF Q

\* w is d times the quotient limb and what is then held.
StepRight(t, i, m, d, w) == Held(t[2], i, m) \in 0 .. d - 1 /\ w = d * t[1] + Held(t[2], i, m)

LEMMA TakeEstimateIs ==
  ASSUME NEW np \in Seq(Limb), NEW n, n = Len(np), NEW i, NEW dn, NEW m, NEW e, NEW j, NEW h1, NEW h2,
         Frame(n, i, dn, m, e, j, h1, h2), NEW dp \in Seq(Limb), Len(dp) = dn, B <= 2 * dp[dn],
         NEW f, IsThree(f), NEW n1 \in Limb
  PROVE  LET t == TakeEstimate(dp, i, np, f) IN
         /\ StepTyped(t, np, n, i)
         /\ Division(B, dp[dn] * B + dp[m], (n1 * B + np[h1]) * B + np[h2], f[1], f[2] * B + f[3])
              => StepRight(t, i, m, NatOf(dp), NatOf(Slice(np, i, dn)) + (Pow(B, m) * B) * n1)
  <1> DEFINE lo == SubSeq(dp, 1, e)
             sl == Slice(np, i, e)
             q == f[1]
             part == mpn_submul_1(sl, lo, q)
             t == TakeEstimate(dp, i, np, f)
             p == Pow(B, e)
             Q == Pow(B, m)
             d1 == dp[dn]
             d0 == dp[m]
             dlo == NatOf(lo)
             d == NatOf(dp)
             low == NatOf(sl)
             a1 == np[h1]
             a2 == np[h2]
             pr == NatOf(part.r)
             cy == part.cy
             rr == f[2] * B + f[3]
             z == rr - cy
             v == z * p + pr
             w == NatOf(Slice(np, i, dn)) + (Q * B) * n1
  <1>1. m = dn - 1 /\ e = dn - 2 /\ dn >= 3 /\ dn \in Nat
    BY DEF Frame
  <1>2. /\ Parts(B, p, d1, d0, dlo, d)
        /\ lo \in Seq(Limb) /\ Len(lo) = e
    BY ONLY <1>1, DivisorParts, dp \in Seq(Limb), Len(dp) = dn, B <= 2 * dp[dn]
  <1>3. /\ p \in Nat \ {0} /\ Q = B * p /\ a1 \in Limb /\ a2 \in Limb /\ low \in 0 .. p - 1
        /\ NatOf(Slice(np, i, dn)) = (low + p * a2) + (B * p) * a1
        /\ sl \in Seq(Limb) /\ Len(sl) = e
    <2>1. p = Pow(B, e)
      OBVIOUS
    <2> HIDE DEF p
    <2>2. /\ p \in Nat \ {0} /\ Pow(B, m) = B * p
          /\ np[h1] \in Limb /\ np[h2] \in Limb
          /\ NatOf(Slice(np, i, e)) \in 0 .. p - 1
          /\ NatOf(Slice(np, i, m)) = NatOf(Slice(np, i, e)) + p * np[h2]
          /\ NatOf(Slice(np, i, dn)) = NatOf(Slice(np, i, m)) + (B * p) * np[h1]
          /\ Slice(np, i, e) \in Seq(Limb) /\ Len(Slice(np, i, e)) = e
      BY ONLY <2>1, WindowIs, np \in Seq(Limb), n = Len(np), Frame(n, i, dn, m, e, j, h1, h2)
    <2> QED
      BY ONLY <2>2
  <1>4. q \in Limb /\ f[2] \in Limb /\ f[3] \in Limb
    BY DEF IsThree
  <1>5. /\ part.r \in Seq(Limb) /\ Len(part.r) = e /\ cy \in Limb
        /\ pr - p * cy = low - dlo * q
    <2> HIDE DEF lo, sl, q
    <2>1. Len(lo) <= Len(sl)
      <3>1. e \in Nat
        BY FrameIs
      <3> QED
        BY ONLY <1>2, <1>3, <3>1
    <2>2. Number(B, sl, Len(lo)) = low
      BY ONLY <1>2, <1>3, NatOfIs
    <2>3. Difference(part, Len(lo), Number(B, sl, Len(lo)) - NatOf(lo) * q) /\ cy \in Limb
      BY ONLY <1>2, <1>3, <1>4, <2>1, TimesLimbMore
    <2> HIDE DEF part
    <2> QED
      BY ONLY <1>2, <2>2, <2>3 DEF Difference
  <1>6. t = TakePart(dp, i, np, f, part)
    <2>1. Len(dp) - 2 = e
      BY ONLY <1>1, Len(dp) = dn
    <2> QED
      BY ONLY <2>1 DEF TakeEstimate
  <1> HIDE DEF part, t
  <1>7. /\ StepTyped(t, np, n, i) /\ z \in Int
        /\ (z >= 0 => t[1] = q /\ Held(t[2], i, m) = v)
        /\ (z < 0 => /\ t[1] = Wrap(q - 1)
                     /\ \E k \in Int : Held(t[2], i, m) = (v + d) + (Q * B) * k)
    BY ONLY <1>5, <1>6, TakePartIs, np \in Seq(Limb), n = Len(np), Frame(n, i, dn, m, e, j, h1, h2),
            dp \in Seq(Limb), Len(dp) = dn, B <= 2 * dp[dn], IsThree(f)
  <1>8. /\ B \in Nat \ {0} /\ Limb = 0 .. B - 1 /\ \A k \in Int : Wrap(k) = k % B
    BY LimbsAre
  <1>9. t[1] \in Limb /\ InLoop(t[2], n)
    BY ONLY <1>7 DEF StepTyped
  <1> DEFINE g == Held(t[2], i, m)
  <1>10. g \in 0 .. Q * B - 1 /\ Q * B \in Nat \ {0} /\ Q * B = (B * B) * p
    BY ONLY <1>9, HeldBelow, Frame(n, i, dn, m, e, j, h1, h2)
  <1>11. Reached(B, p, n1, a1, a2, low, w)
    <2>1. n1 \in 0 .. B - 1 /\ a1 \in 0 .. B - 1 /\ a2 \in 0 .. B - 1 /\ low \in 0 .. p - 1
      BY ONLY <1>3, <1>8, n1 \in Limb
    <2>2. w = ((low + p * a2) + (B * p) * a1) + ((B * p) * B) * n1
      BY ONLY <1>3
    <2> HIDE DEF w, p, low, a1, a2
    <2>3. n1 \in Int /\ a1 \in Int /\ a2 \in Int /\ low \in Int
      BY ONLY <1>8, <1>3, <2>1
    <2>4. ((low + p * a2) + (B * p) * a1) + ((B * p) * B) * n1 = ((n1 * B + a1) * B + a2) * p + low
      BY ONLY <1>3, <1>8, <2>3
    <2> QED
      BY ONLY <2>1, <2>2, <2>4 DEF Reached
  <1>12. ASSUME Division(B, d1 * B + d0, (n1 * B + a1) * B + a2, q, rr)
         PROVE  StepRight(t, i, m, d, w)
    <2>1. cy \in Nat /\ pr \in 0 .. p - 1
      <3>1. pr \in Nat /\ pr < p
        BY ONLY <1>5, NatOfIs
      <3> HIDE DEF pr, p, cy
      <3> QED
        BY ONLY <1>3, <1>5, <1>8, <3>1
    <2> HIDE DEF d1, d0, d, dlo, low, a1, a2, pr, cy, rr, w, p, q
    <2>2. /\ w - q * d = (rr - cy) * p + pr /\ w - q * d \in Int /\ w - q * d < d /\ -d <= w - q * d
          /\ (rr - cy >= 0 => w - q * d >= 0) /\ (rr - cy < 0 => w - q * d < 0 /\ q >= 1)
      BY ONLY <1>2, <1>5, <1>11, <1>12, <2>1, RestTaken
    <2>3. v = w - q * d
      BY ONLY <2>2
    <2>4. d \in Nat /\ d < Q * B
      <3>1. d \in Nat /\ d < (B * B) * p
        BY ONLY <1>2, PartsIs
      <3> QED
        BY ONLY <1>10, <3>1
    <2> HIDE DEF v, z, g
    <2>5. q \in Int /\ w \in Int /\ q * d \in Int
      <3>1. q \in Int
        BY ONLY <1>4, <1>8
      <3>2. low \in Int /\ a1 \in Int /\ a2 \in Int /\ n1 \in Int /\ p \in Int
        BY ONLY <1>3, <1>8, n1 \in Limb
      <3>3. ((n1 * B + a1) * B + a2) * p + low \in Int
        BY ONLY <1>8, <3>2
      <3>4. w = ((n1 * B + a1) * B + a2) * p + low
        BY ONLY <1>11 DEF Reached
      <3>5. q * d \in Int
        BY ONLY <2>4, <3>1
      <3> QED
        BY ONLY <3>1, <3>3, <3>4, <3>5
    <2> DEFINE qd == q * d
               M == Q * B
    <2>6. CASE z >= 0
      <3>1. t[1] = q /\ g = v
        BY ONLY <1>7, <2>6 DEF g
      <3>2. v >= 0 /\ v < d /\ v = w - qd /\ qd \in Int /\ qd = d * t[1]
        <4>1. w - q * d >= 0
          BY ONLY <2>2, <2>6 DEF z
        <4>2. q * d = d * q
          BY ONLY <2>4, <2>5
        <4> QED
          BY ONLY <2>2, <2>3, <2>5, <3>1, <4>1, <4>2
      <3> HIDE DEF qd
      <3>3. g \in 0 .. d - 1 /\ w = qd + g
        BY ONLY <2>4, <2>5, <3>1, <3>2
      <3>4. w = d * t[1] + g
        BY ONLY <3>2, <3>3
      <3> QED
        BY ONLY <3>3, <3>4 DEF StepRight, g
    <2>7. CASE z < 0
      <3>1. t[1] = Wrap(q - 1) /\ \E k \in Int : g = (v + d) + M * k
        BY ONLY <1>7, <2>7 DEF g
      <3>2. PICK k \in Int : g = (v + d) + M * k
        BY ONLY <3>1
      <3>3. w - q * d < 0 /\ q >= 1
        BY ONLY <2>2, <2>7 DEF z
      <3>4. v < 0 /\ v \in Int /\ -d <= v /\ v = w - qd /\ qd \in Int
        BY ONLY <2>2, <2>3, <2>5, <3>3
      <3>5. M \in Nat /\ d < M /\ g \in 0 .. M - 1 /\ g \in Int
        <4>1. M \in Nat /\ d < M /\ g \in 0 .. M - 1
          BY ONLY <1>10, <2>4 DEF g
        <4> HIDE DEF M
        <4> QED
          BY ONLY <4>1
      <3> HIDE DEF M, qd
      <3> DEFINE r == v + d
      <3>6. r \in Int /\ r \in 0 .. M - 1 /\ r \in 0 .. d - 1 /\ g = r + M * k
        <4>1. r \in Int /\ 0 <= r /\ r < d
          BY ONLY <2>4, <3>4
        <4>2. g = r + M * k
          BY ONLY <3>2
        <4> HIDE DEF r
        <4>3. d \in Nat /\ d < M /\ M \in Nat
          BY ONLY <2>4, <3>5
        <4>4. r \in 0 .. M - 1 /\ r \in 0 .. d - 1
          BY ONLY <4>1, <4>3
        <4> QED
          BY ONLY <4>1, <4>2, <4>4
      <3> HIDE DEF r
      <3>7. g = r
        BY ONLY <3>5, <3>6, SameRest, k \in Int
      <3>8. t[1] = q - 1
        <4>1. q - 1 \in 0 .. B - 1 /\ q - 1 \in Int
          BY ONLY <1>4, <1>8, <2>5, <3>3
        <4> DEFINE l == q - 1
                   o == 0
        <4>2. l = B * o + l /\ o \in Int
          BY ONLY <1>8, <4>1
        <4> HIDE DEF l, o
        <4>3. l % B = l
          BY ONLY <1>8, <4>1, <4>2, DivisionIs DEF l
        <4>4. Wrap(l) = l
          BY ONLY <1>8, <4>1, <4>3 DEF l
        <4> QED
          BY ONLY <3>1, <4>4 DEF l
      <3>9. w = d * t[1] + g
        <4>1. d * (q - 1) = qd - d
          BY ONLY <2>4, <2>5 DEF qd
        <4>2. w = (qd - d) + r
          BY ONLY <2>4, <2>5, <3>4 DEF r
        <4> QED
          BY ONLY <3>7, <3>8, <4>1, <4>2
      <3> QED
        BY ONLY <3>6, <3>7, <3>9 DEF StepRight, g
    <2>8. z \in Int
      BY ONLY <1>7
    <2> QED
      BY ONLY <2>6, <2>7, <2>8
  <1> QED
    BY ONLY <1>7, <1>12 DEF t

LEMMA TakeAllIs ==
  ASSUME NEW np \in Seq(Limb), NEW n, n = Len(np), NEW i, NEW dn, NEW m, NEW e, NEW j, NEW h1, NEW h2,
         Frame(n, i, dn, m, e, j, h1, h2), NEW dp \in Seq(Limb), Len(dp) = dn, B <= 2 * dp[dn], NEW n1 \in Limb,
         NEW w, w = NatOf(Slice(np, i, dn)) + (Pow(B, m) * B) * n1
  PROVE  LET t == TakeAll(dp, i, np)
             d == NatOf(dp)
         IN  /\ StepTyped(t, np, n, i)
             /\ n1 = dp[dn] /\ np[h1] = dp[m] /\ (\E r \in 0 .. d - 1 : w = B * r + np[j])
                  => StepRight(t, i, m, d, w)
  <1> DEFINE d == NatOf(dp)
             p == Pow(B, e)
             Q == Pow(B, m)
             d1 == dp[dn]
             d0 == dp[m]
             a1 == np[h1]
             a2 == np[h2]
             low == NatOf(Slice(np, i, e))
             sl == Slice(np, i, dn)
             all == B - 1
             sub == mpn_submul_1(sl, dp, all)
             sr == sub.r
             cy == sub.cy
             full == Store(np, i, sr)
             top == full[h1]
             s == [np |-> full, n1 |-> top]
             t == TakeAll(dp, i, np)
             sum == NatOf(sl)
             g == Held(s, i, m)
  <1>1. m = dn - 1 /\ e = dn - 2 /\ dn >= 3 /\ dn \in Nat /\ i \in Nat /\ i + dn <= n /\ h1 = i + dn
    BY DEF Frame
  <1>2. Parts(B, p, d1, d0, NatOf(SubSeq(dp, 1, e)), d)
    BY ONLY <1>1, DivisorParts, dp \in Seq(Limb), Len(dp) = dn, B <= 2 * dp[dn]
  <1>3. /\ p \in Nat \ {0} /\ Q = B * p /\ Pow(B, dn) = B * (B * p) /\ a1 \in Limb /\ a2 \in Limb /\ low \in 0 .. p - 1
        /\ np[j] \in Limb /\ sum = (low + p * a2) + (B * p) * a1 /\ sl \in Seq(Limb) /\ Len(sl) = dn
    <2>1. p = Pow(B, e)
      OBVIOUS
    <2> HIDE DEF p
    <2>2. /\ p \in Nat \ {0} /\ Pow(B, m) = B * p /\ Pow(B, dn) = B * (B * p)
          /\ np[h1] \in Limb /\ np[h2] \in Limb /\ np[j] \in Limb
          /\ NatOf(Slice(np, i, e)) \in 0 .. p - 1
          /\ NatOf(Slice(np, i, m)) = NatOf(Slice(np, i, e)) + p * np[h2]
          /\ NatOf(Slice(np, i, dn)) = NatOf(Slice(np, i, m)) + (B * p) * np[h1]
          /\ Slice(np, i, dn) \in Seq(Limb) /\ Len(Slice(np, i, dn)) = dn
      BY ONLY <2>1, WindowIs, np \in Seq(Limb), n = Len(np), Frame(n, i, dn, m, e, j, h1, h2)
    <2> QED
      BY ONLY <2>2
  <1>4. /\ B \in Nat \ {0} /\ B >= 4 /\ Limb = 0 .. B - 1 /\ all \in Limb
    <2>1. B \in Nat \ {0} /\ B >= 4 /\ Limb = 0 .. B - 1
      BY LimbsAre
    <2> QED
      BY ONLY <2>1
  <1>5. sr \in Seq(Limb) /\ Len(sr) = dn /\ NatOf(sr) - Pow(B, dn) * cy = sum - d * all /\ cy \in Limb
    <2> HIDE DEF sl, all
    <2>1. Len(dp) <= Len(sl)
      BY ONLY <1>1, <1>3, Len(dp) = dn
    <2>2. Number(B, sl, Len(dp)) = sum
      BY ONLY <1>3, NatOfIs, Len(dp) = dn
    <2>3. Difference(sub, Len(dp), Number(B, sl, Len(dp)) - NatOf(dp) * all) /\ cy \in Limb
      BY ONLY <1>3, <1>4, <2>1, TimesLimbMore, dp \in Seq(Limb)
    <2> HIDE DEF sub
    <2> QED
      BY ONLY <2>2, <2>3, Len(dp) = dn DEF Difference
  <1>6. t = <<all, s>>
    <2>1. Len(dp) + i = h1
      BY ONLY <1>1, Len(dp) = dn
    <2>2. Slice(np, i, Len(dp)) = sl
      BY ONLY Len(dp) = dn
    <2> QED
      BY ONLY <2>1, <2>2 DEF TakeAll
  <1> HIDE DEF sr, cy, t
  <1>7. KeptBelow(full, np, i) /\ NatOf(Slice(full, i, dn)) = NatOf(sr)
    <2>1. Window(np, i, dn)
      BY ONLY <1>1, n = Len(np) DEF Window
    <2> QED
      BY ONLY <1>5, <2>1, StoredWhole, np \in Seq(Limb)
  <1>8. full \in Seq(Limb) /\ n = Len(full)
    BY ONLY <1>7, n = Len(np) DEF KeptBelow
  <1> HIDE DEF full
  <1>9. NatOf(Slice(full, i, dn)) = NatOf(Slice(full, i, m)) + (B * p) * top /\ top \in Limb
    <2>1. p = Pow(B, e)
      OBVIOUS
    <2> HIDE DEF p
    <2> QED
      BY ONLY <1>8, <2>1, WindowIs, Frame(n, i, dn, m, e, j, h1, h2)
  <1> HIDE DEF top
  <1>10. s = [np |-> s.np, n1 |-> s.n1] /\ s.np = full /\ s.n1 = top
    OBVIOUS
  <1> HIDE DEF s
  <1>11. InLoop(s, n) /\ KeptBelow(s.np, np, i)
    BY ONLY <1>7, <1>8, <1>9, <1>10 DEF InLoop
  <1>12. StepTyped(t, np, n, i) /\ t[1] = all /\ t[2] = s
    <2> HIDE DEF all
    <2> QED
      BY ONLY <1>4, <1>6, <1>11 DEF StepTyped
  <1>13. g = NatOf(sr)
    BY ONLY <1>3, <1>7, <1>9, <1>10 DEF Held
  <1>14. g \in 0 .. Q * B - 1 /\ Q * B \in Nat \ {0} /\ Q * B = (B * B) * p
    BY ONLY <1>11, HeldBelow, Frame(n, i, dn, m, e, j, h1, h2)
  <1>15. ASSUME n1 = d1, a1 = d0, NEW r \in 0 .. d - 1, w = B * r + np[j]
         PROVE  StepRight(t, i, m, d, w)
    <2>1. w = ((low + p * a2) + (B * p) * a1) + ((B * p) * B) * n1
      BY ONLY <1>3, w = NatOf(Slice(np, i, dn)) + (Pow(B, m) * B) * n1
    <2>2. Reached(B, p, d1, d0, a2, low, w)
      <3> DEFINE u1 == d1
                 u2 == d0
      <3>1. n1 = u1 /\ a1 = u2
        BY <1>15
      <3>2. u1 \in 0 .. B - 1 /\ u2 \in 0 .. B - 1 /\ a2 \in 0 .. B - 1 /\ low \in 0 .. p - 1
        BY ONLY <1>3, <1>4, <3>1, n1 \in Limb
      <3>3. w = ((low + p * a2) + (B * p) * u2) + ((B * p) * B) * u1
        BY ONLY <2>1, <3>1
      <3> HIDE DEF p, low, a2, u1, u2
      <3>4. ((low + p * a2) + (B * p) * u2) + ((B * p) * B) * u1 = ((u1 * B + u2) * B + a2) * p + low
        <4>1. u1 \in Int /\ u2 \in Int /\ a2 \in Int /\ low \in Int
          BY ONLY <1>4, <1>3, <3>2
        <4> QED
          BY ONLY <1>3, <1>4, <4>1
      <3>5. Reached(B, p, u1, u2, a2, low, w)
        BY ONLY <3>2, <3>3, <3>4 DEF Reached
      <3> QED
        BY ONLY <3>5 DEF u1, u2
    <2>3. w - (B - 1) * d \in 0 .. d - 1
      <3>1. np[j] \in 0 .. B - 1
        BY ONLY <1>3, <1>4
      <3> HIDE DEF p, low, a2, d1, d0, d
      <3> QED
        BY ONLY <1>2, <1>15, <2>2, <3>1, AllTaken
    <2> DEFINE v == w - (B - 1) * d
               M == Q * B
               k == cy - n1
    <2>4. d \in Nat /\ d < M
      <3>1. d \in Nat /\ d < (B * B) * p
        BY ONLY <1>2, PartsIs
      <3> QED
        BY ONLY <1>14, <3>1
    <2>5. g = v + M * k /\ v \in Int /\ g \in Int /\ k \in Int
      <3>1. M = Pow(B, dn) /\ M \in Int
        <4>1. Q * B = B * (B * p) /\ Q * B \in Int
          <5> HIDE DEF p, Q
          <5> QED
            BY ONLY <1>3, <1>4, <1>14
        <4> QED
          BY ONLY <1>3, <4>1
      <3>2. sum \in Int /\ n1 \in Int /\ cy \in Int
        <4>1. sum \in Nat
          <5> HIDE DEF sl
          <5> QED
            BY ONLY <1>3, NatOfIs
        <4> HIDE DEF sum, cy
        <4> QED
          BY ONLY <1>4, <1>5, <4>1, n1 \in Limb
      <3>3. w = sum + M * n1
        BY ONLY w = NatOf(Slice(np, i, dn)) + (Pow(B, m) * B) * n1
      <3>4. g - M * cy = sum - d * all
        BY ONLY <1>5, <1>13, <3>1
      <3>5. g \in Int
        <4> HIDE DEF g
        <4>1. g \in 0 .. M - 1
          BY ONLY <1>14
        <4> HIDE DEF M
        <4> QED
          BY ONLY <4>1, <3>1
      <3> DEFINE da == d * all
                 a == M * n1
                 b == M * cy
                 dd == (B - 1) * d
                 c == M * (cy - n1)
      <3>6. da \in Int /\ a \in Int /\ b \in Int /\ dd = da /\ c = b - a
        <4> HIDE DEF M
        <4>1. da \in Int /\ dd = da
          <5> HIDE DEF d
          <5> QED
            BY ONLY <1>4, <2>4
        <4>2. a \in Int /\ b \in Int /\ c = b - a
          <5>1. M \in Int /\ cy \in Int /\ n1 \in Int
            BY ONLY <3>1, <3>2
          <5> QED
            BY ONLY <5>1
        <4> QED
          BY ONLY <4>1, <4>2
      <3>7. g - b = sum - da /\ w = sum + a
        BY ONLY <3>3, <3>4
      <3> HIDE DEF g, b, sum, da, a, dd, c, M
      <3>8. g = (w - dd) + c /\ w - dd \in Int
        BY ONLY <3>2, <3>5, <3>6, <3>7
      <3>9. v = w - dd /\ M * k = c
        BY DEF dd, c
      <3> HIDE DEF v, k
      <3>10. g = v + M * k /\ v \in Int
        BY ONLY <3>8, <3>9
      <3>11. k \in Int
        BY ONLY <3>2 DEF k
      <3> QED
        BY ONLY <3>5, <3>10, <3>11
    <2>6. M \in Nat /\ g \in 0 .. M - 1 /\ v \in 0 .. d - 1
      BY ONLY <1>14, <2>3
    <2> HIDE DEF v, M, k, g, d
    <2>7. v \in 0 .. M - 1
      BY ONLY <2>4, <2>5, <2>6
    <2>8. g = v
      BY ONLY <2>5, <2>6, <2>7, SameRest
    <2>9. w = d * all + v
      <3> DEFINE a == (B - 1) * d
      <3>1. w = a + v
        <4>1. v = w - a
          BY DEF v
        <4>2. a \in Int
          BY ONLY <1>4, <2>4
        <4>3. w \in Int
          <5>1. r \in Int /\ np[j] \in Int
            <6>1. r \in Int
              BY ONLY <2>4, r \in 0 .. d - 1
            <6>2. np[j] \in Limb
              BY ONLY <1>3
            <6> QED
              BY ONLY <1>4, <6>1, <6>2
          <5>2. B * r + np[j] \in Int
            BY ONLY <1>4, <5>1
          <5> QED
            BY ONLY <1>15, <5>2
        <4> HIDE DEF a
        <4> QED
          BY ONLY <2>5, <4>1, <4>2, <4>3
      <3>2. a = d * all
        BY ONLY <1>4, <2>4
      <3> QED
        BY ONLY <3>1, <3>2
    <2> HIDE DEF all
    <2> QED
      BY ONLY <1>12, <2>6, <2>8, <2>9 DEF StepRight, g
  <1>16. ASSUME n1 = d1 /\ a1 = d0 /\ \E r \in 0 .. d - 1 : w = B * r + np[j]
         PROVE  StepRight(t, i, m, d, w)
    <2>1. PICK r \in 0 .. d - 1 : w = B * r + np[j]
      BY ONLY <1>16
    <2> QED
      BY ONLY <1>15, <1>16, <2>1
  <1> QED
    BY ONLY <1>12, <1>16 DEF t

\* A step of the loop, from offset i + 1 to offset i.
LEMMA Pi1StepIs ==
  ASSUME NEW n, NEW i, NEW dn, NEW m, NEW e, NEW j, NEW h1, NEW h2, Frame(n, i, dn, m, e, j, h1, h2),
         NEW dp \in Seq(Limb), Len(dp) = dn, B <= 2 * dp[dn], NEW di \in Limb, NEW s, InLoop(s, n)
  PROVE  LET t == Pi1Step(dp, di, i, s)
             d == NatOf(dp)
         IN  /\ StepTyped(t, s.np, n, i)
             /\ /\ \E k \in Nat : Divisor(B, dp[dn], dp[m], dp[dn] * B + dp[m], di, k)
                /\ Held(s, j, m) \in 0 .. d - 1
                => StepRight(t, i, m, d, B * Held(s, j, m) + s.np[j])
  <1> DEFINE d == NatOf(dp)
             np == s.np
             n1 == s.n1
             p == Pow(B, e)
             Q == Pow(B, m)
             d1 == dp[dn]
             d0 == dp[m]
             a1 == np[h1]
             a2 == np[h2]
             f == gmp_udiv_qr_3by2(n1, a1, a2, d1, d0, di)
             w == NatOf(Slice(np, i, dn)) + (Q * B) * n1
             r == Held(s, j, m)
             u == B * r + np[j]
             t == Pi1Step(dp, di, i, s)
             top == n1 = d1 /\ a1 = d0
  <1>1. m = dn - 1 /\ e = dn - 2 /\ dn >= 3 /\ dn \in Nat /\ i \in Nat /\ h1 = i + dn /\ h2 = i + m
    BY DEF Frame
  <1>2. /\ Parts(B, p, d1, d0, NatOf(SubSeq(dp, 1, e)), d)
    BY ONLY <1>1, DivisorParts, dp \in Seq(Limb), Len(dp) = dn, B <= 2 * dp[dn]
  <1>3. np \in Seq(Limb) /\ n = Len(np) /\ n1 \in Limb
    BY DEF InLoop
  <1> HIDE DEF np, n1
  <1>4. /\ p \in Nat \ {0} /\ Q = B * p /\ a1 \in Limb /\ a2 \in Limb /\ NatOf(Slice(np, j, e)) \in 0 .. p - 1
        /\ np[j] \in Limb /\ NatOf(Slice(np, j, m)) = NatOf(Slice(np, j, e)) + p * a1
        /\ NatOf(Slice(np, i, dn)) = np[j] + B * NatOf(Slice(np, j, m))
    <2>1. p = Pow(B, e)
      OBVIOUS
    <2> HIDE DEF p
    <2> QED
      BY ONLY <1>3, <2>1, WindowIs, Frame(n, i, dn, m, e, j, h1, h2)
  <1>5. /\ B \in Nat \ {0} /\ B >= 4 /\ Limb = 0 .. B - 1
    BY LimbsAre
  <1>6. d1 \in Limb /\ d0 \in Limb
    BY ONLY <1>2, <1>5 DEF Parts
  <1>7. t = IF top THEN TakeAll(dp, i, np) ELSE TakeEstimate(dp, i, np, f)
    <2>1. dn + i = h1 /\ dn - 1 = m
      BY ONLY <1>1
    <2>2. dn - 1 + i = h2
      BY ONLY <1>1
    <2> QED
      BY ONLY <2>1, <2>2, Len(dp) = dn DEF Pi1Step, np, n1
  <1>8. IsThree(f)
    <2> HIDE DEF d1, d0, a1, a2
    <2> QED
      BY ONLY <1>3, <1>4, <1>6, ThreeLimbs, di \in Limb
  <1> HIDE DEF f, t
  <1>9. r = NatOf(Slice(np, j, m)) + Q * n1
    BY DEF Held, np, n1
  <1> HIDE DEF r
  <1>10. w = u
    <2> DEFINE b == NatOf(Slice(np, j, m))
               c == np[j]
               v == NatOf(Slice(np, i, dn))
    <2>1. v = c + B * b /\ r = b + Q * n1
      BY ONLY <1>4, <1>9
    <2>2. b \in Int /\ c \in Int /\ n1 \in Int /\ Q \in Int
      <3>1. c \in Limb /\ n1 \in Limb
        BY ONLY <1>3, <1>4
      <3>2. p \in Int /\ a1 \in Int /\ NatOf(Slice(np, j, e)) \in Int
        BY ONLY <1>4, <1>5
      <3> DEFINE g == NatOf(Slice(np, j, e))
      <3> HIDE DEF g, p, a1
      <3>3. g \in Int /\ p \in Int /\ a1 \in Int
        BY ONLY <3>2 DEF g
      <3>4. g + p * a1 \in Int /\ B * p \in Int
        BY ONLY <1>5, <3>3
      <3>5. b \in Int /\ Q \in Int
        BY ONLY <1>4, <3>4 DEF g
      <3> QED
        BY ONLY <1>5, <3>1, <3>5
    <2> HIDE DEF b, c, v, Q
    <2>3. (c + B * b) + (Q * B) * n1 = B * (b + Q * n1) + c
      BY ONLY <1>5, <2>2
    <2> QED
      BY ONLY <2>1, <2>3 DEF c, v
  <1>11. CASE top
    <2>1. t = TakeAll(dp, i, np)
      BY ONLY <1>7, <1>11
    <2>2. w = NatOf(Slice(np, i, dn)) + (Pow(B, m) * B) * n1
      OBVIOUS
    <2> HIDE DEF w, d
    <2>3. /\ StepTyped(t, np, n, i)
          /\ (top /\ \E r2 \in 0 .. d - 1 : w = B * r2 + np[j]) => StepRight(t, i, m, d, w)
      BY ONLY <1>3, <2>1, <2>2, TakeAllIs, Frame(n, i, dn, m, e, j, h1, h2), dp \in Seq(Limb), Len(dp) = dn,
              B <= 2 * dp[dn] DEF d
    <2> HIDE DEF top, u
    <2>4. r \in 0 .. d - 1 => StepRight(t, i, m, d, u)
      <3> HAVE r \in 0 .. d - 1
      <3>1. \E r2 \in 0 .. d - 1 : w = B * r2 + np[j]
        BY ONLY <1>10, r \in 0 .. d - 1 DEF u
      <3> QED
        BY ONLY <1>10, <1>11, <2>3, <3>1
    <2> QED
      BY ONLY <2>3, <2>4 DEF t, r, u, d, np
  <1>12. CASE ~top
    <2>1. t = TakeEstimate(dp, i, np, f)
      BY ONLY <1>7, <1>12
    <2>2. /\ StepTyped(t, np, n, i)
          /\ Division(B, d1 * B + d0, (n1 * B + a1) * B + a2, f[1], f[2] * B + f[3])
               => StepRight(t, i, m, d, w)
      BY ONLY <1>3, <1>8, <2>1, TakeEstimateIs, Frame(n, i, dn, m, e, j, h1, h2), dp \in Seq(Limb), Len(dp) = dn,
              B <= 2 * dp[dn]
    <2>3. ASSUME \E k \in Nat : Divisor(B, d1, d0, d1 * B + d0, di, k), r \in 0 .. d - 1
          PROVE  StepRight(t, i, m, d, u)
      <3> DEFINE h == d1 * B + d0
      <3>1. PICK k \in Nat : Divisor(B, d1, d0, h, di, k)
        BY ONLY <2>3
      <3> DEFINE g == NatOf(Slice(np, j, e))
      <3>2. (n1 * B + a1) * p + g < d
        <4>1. r < d
          <5>1. d \in Nat
            BY ONLY NatOfIs, dp \in Seq(Limb)
          <5> HIDE DEF d
          <5> QED
            BY ONLY <2>3, <5>1
        <4>2. r = (g + p * a1) + (B * p) * n1
          BY ONLY <1>4, <1>9
        <4>3. g \in Int /\ p \in Int /\ a1 \in Int /\ n1 \in Int
          <5>1. a1 \in Limb /\ n1 \in Limb
            BY ONLY <1>3, <1>4
          <5>2. p \in Int /\ g \in Int
            BY ONLY <1>4
          <5> HIDE DEF p, g, a1
          <5> QED
            BY ONLY <1>5, <5>1, <5>2
        <4> HIDE DEF g, p, a1
        <4>4. (g + p * a1) + (B * p) * n1 = (n1 * B + a1) * p + g
          BY ONLY <1>5, <4>3
        <4> QED
          BY ONLY <4>1, <4>2, <4>4
      <3>3. n1 * B + a1 <= h /\ ((n1 = d1 /\ a1 = d0) \/ n1 * B + a1 < h)
        <4>1. n1 \in 0 .. B - 1 /\ a1 \in 0 .. B - 1 /\ g \in 0 .. p - 1
          BY ONLY <1>3, <1>4, <1>5
        <4> HIDE DEF g, p, a1, d1, d0, d
        <4> QED
          BY ONLY <1>2, <3>2, <4>1, TopBelow
      <3>4. n1 * B + a1 < h
        BY ONLY <1>12, <3>3
      <3>5. Dividend(B, h, n1, a1, a2)
        <4>1. n1 \in 0 .. B - 1 /\ a1 \in 0 .. B - 1 /\ a2 \in 0 .. B - 1
          BY ONLY <1>3, <1>4, <1>5
        <4> HIDE DEF a1, a2, h
        <4> QED
          BY ONLY <3>4, <4>1 DEF Dividend
      <3> HIDE DEF h, a1, a2, d1, d0, w, d
      <3>6. Division(B, h, (n1 * B + a1) * B + a2, f[1], f[2] * B + f[3])
        BY ONLY <3>1, <3>5, DivideThreeByTwo, di \in Limb DEF f
      <3> HIDE DEF u
      <3> QED
        BY ONLY <1>10, <2>2, <3>6 DEF h
    <2> HIDE DEF u, d, d1, d0
    <2>4. /\ StepTyped(t, np, n, i)
          /\ ((\E k \in Nat : Divisor(B, d1, d0, d1 * B + d0, di, k)) /\ r \in 0 .. d - 1) => StepRight(t, i, m, d, u)
      BY ONLY <2>2, <2>3
    <2> QED
      BY ONLY <2>4 DEF t, r, u, d, np, d1, d0
  <1> QED
    BY ONLY <1>11, <1>12

LEMMA DownInduction ==
  ASSUME NEW n \in Nat, NEW S, n \in S, \A i \in 1 .. n : i \in S => i - 1 \in S
  PROVE  \A i \in 0 .. n : i \in S
  <1> DEFINE T == {k \in Nat : k <= n => n - k \in S}
  <1>1. 0 \in T
    <2>1. n - 0 = n
      OBVIOUS
    <2> QED
      BY ONLY <2>1, n \in S
  <1>2. \A k \in Nat : k \in T => k + 1 \in T
    <2> TAKE k \in Nat
    <2> HAVE k \in T
    <2>1. CASE k + 1 <= n
      <3> DEFINE i == n - k
      <3>1. i \in 1 .. n /\ i - 1 = n - (k + 1) /\ k <= n
        BY ONLY <2>1, n \in Nat, k \in Nat
      <3>2. i \in S
        BY ONLY <3>1, k \in T
      <3> HIDE DEF i
      <3>3. i - 1 \in S
        BY ONLY <3>1, <3>2, \A h \in 1 .. n : h \in S => h - 1 \in S
      <3> QED
        BY ONLY <3>1, <3>3, k \in Nat
    <2>2. CASE ~(k + 1 <= n)
      BY ONLY <2>2, k \in Nat
    <2> QED
      BY ONLY <2>1, <2>2
  <1> HIDE DEF T
  <1>3. \A k \in Nat : k \in T
    BY ONLY <1>1, <1>2, Induction
  <1> TAKE i \in 0 .. n
  <1> DEFINE k == n - i
  <1>4. k \in Nat /\ k <= n /\ n - k = i
    BY ONLY n \in Nat, i \in 0 .. n
  <1> HIDE DEF k
  <1>5. k \in T
    BY ONLY <1>3, <1>4
  <1> QED
    BY ONLY <1>4, <1>5 DEF T

\* The loop of mpn_div_qr_pi1.
LoopSteps(dp, di, n) ==
    [i \in 1 .. n |-> [s \in [np : Seq(Limb), n1 : Limb] |-> Pi1Step(dp, di, i - 1, s)]]
LoopRuns(c, cs, np, N, n, m, d) ==
    /\ c.r \in Seq(Limb) /\ Len(c.r) = n /\ c.cy = cs[0] /\ InLoop(cs[0], N)
    /\ \A i \in 0 .. n : Held(cs[i], i, m) \in 0 .. d - 1
    /\ \A i \in 1 .. n : B * Held(cs[i], i, m) + np[i] = d * c.r[i] + Held(cs[i - 1], i - 1, m)
DividesLoop(dp, dn, m, di) ==
    /\ dp \in Seq(Limb) /\ Len(dp) = dn /\ dn >= 3 /\ dn \in Nat /\ m = dn - 1 /\ B <= 2 * dp[dn] /\ di \in Limb
    /\ \E k \in Nat : Divisor(B, dp[dn], dp[m], dp[dn] * B + dp[m], di, k)

LEMMA LoopDivides ==
  ASSUME NEW dp, NEW dn, NEW m, NEW di, DividesLoop(dp, dn, m, di),
         NEW c0, NEW N, InLoop(c0, N), NEW n \in Nat, n = (N - dn) + 1, N \in Nat, dn <= N,
         Held(c0, n, m) \in 0 .. NatOf(dp) - 1
  PROVE  \E cs : LoopRuns(ChainDown(LoopSteps(dp, di, n), n, c0), cs, c0.np, N, n, m, NatOf(dp)) /\ cs[n] = c0
  <1> DEFINE step == LoopSteps(dp, di, n)
             c == ChainDown(step, n, c0)
             np == c0.np
             C == {s \in [np : Seq(Limb), n1 : Limb] : Len(s.np) = N}
             d == NatOf(dp)
             e == dn - 2
  <1>1. /\ dp \in Seq(Limb) /\ Len(dp) = dn /\ dn >= 3 /\ dn \in Nat /\ m = dn - 1 /\ B <= 2 * dp[dn] /\ di \in Limb
        /\ \E k \in Nat : Divisor(B, dp[dn], dp[m], dp[dn] * B + dp[m], di, k)
    BY DEF DividesLoop
  <1>2. \A s : s \in C <=> InLoop(s, N)
    BY DEF InLoop
  <1>3. c0 \in C
    BY <1>2
  <1>4. ASSUME NEW i \in 1 .. n, NEW s \in C
        PROVE  /\ step[i][s] \in Limb \X C /\ StepTyped(step[i][s], s.np, N, i - 1)
               /\ Held(s, i, m) \in 0 .. d - 1 => StepRight(step[i][s], i - 1, m, d, B * Held(s, i, m) + s.np[i])
    <2> DEFINE o == i - 1
               h1 == o + dn
               h2 == o + m
               t == Pi1Step(dp, di, o, s)
    <2>1. Frame(N, o, dn, m, e, i, h1, h2)
      <3>1. o \in Nat /\ i = o + 1 /\ o + dn <= N
        BY ONLY <1>1, i \in 1 .. n, n = (N - dn) + 1, N \in Nat, dn <= N
      <3> QED
        BY ONLY <1>1, <3>1, N \in Nat DEF Frame
    <2>2. step[i][s] = t
      <3>1. s \in [np : Seq(Limb), n1 : Limb]
        BY ONLY s \in C
      <3> QED
        BY ONLY <3>1, i \in 1 .. n DEF LoopSteps
    <2>3. InLoop(s, N)
      BY ONLY <1>2, s \in C
    <2> HIDE DEF o, h1, h2, e, step, C
    <2>4. /\ StepTyped(t, s.np, N, o)
          /\ Held(s, i, m) \in 0 .. d - 1 => StepRight(t, o, m, d, B * Held(s, i, m) + s.np[i])
      BY ONLY <1>1, <2>1, <2>3, Pi1StepIs
    <2>5. t \in Limb \X C
      <3>1. t = <<t[1], t[2]>> /\ t[1] \in Limb /\ InLoop(t[2], N)
        BY ONLY <2>4 DEF StepTyped
      <3>2. t[2] \in C
        BY ONLY <1>2, <3>1
      <3> HIDE DEF t
      <3> QED
        BY ONLY <3>1, <3>2
    <2> QED
      BY ONLY <2>2, <2>4, <2>5 DEF o
  <1> HIDE DEF step, C
  <1>5. ChainDownIs(c, step, n, Limb, C, c0)
    <2>1. StepsIn(step, n, Limb, C)
      BY ONLY <1>4 DEF StepsIn
    <2> QED
      BY ONLY <1>3, <2>1, ChainDownRuns, n \in Nat DEF c
  <1> HIDE DEF c
  <1>6. PICK cs, es : ChainedDown(c, n, Limb, C, c0, cs, es) /\ FollowsDown(es, step, cs, n)
    BY ONLY <1>5 DEF ChainDownIs
  <1>7. /\ c.r \in Seq(Limb) /\ Len(c.r) = n /\ c.cy = cs[0] /\ cs[n] = c0
        /\ \A i \in 0 .. n : cs[i] \in C
        /\ \A i \in 1 .. n : c.r[i] = es[i][1] /\ cs[i - 1] = es[i][2] /\ es[i] = step[i][cs[i]]
    BY ONLY <1>6 DEF ChainedDown, FollowsDown
  <1>8. ASSUME NEW i \in 1 .. n
        PROVE  /\ KeptBelow(cs[i - 1].np, cs[i].np, i - 1)
               /\ Held(cs[i], i, m) \in 0 .. d - 1
                    => /\ Held(cs[i - 1], i - 1, m) \in 0 .. d - 1
                       /\ B * Held(cs[i], i, m) + cs[i].np[i] = d * c.r[i] + Held(cs[i - 1], i - 1, m)
    <2> DEFINE s == cs[i]
               t == step[i][s]
               w == B * Held(s, i, m) + s.np[i]
    <2>1. i \in 0 .. n
      BY ONLY n \in Nat, i \in 1 .. n
    <2>2. s \in C /\ c.r[i] = t[1] /\ cs[i - 1] = t[2]
      BY ONLY <1>7, <2>1
    <2> HIDE DEF s
    <2>3. StepTyped(t, s.np, N, i - 1) /\ (Held(s, i, m) \in 0 .. d - 1 => StepRight(t, i - 1, m, d, w))
      BY ONLY <1>4, <2>2
    <2> HIDE DEF t
    <2>4. KeptBelow(t[2].np, s.np, i - 1)
      BY ONLY <2>3 DEF StepTyped
    <2>5. Held(s, i, m) \in 0 .. d - 1
            => Held(t[2], i - 1, m) \in 0 .. d - 1 /\ w = d * t[1] + Held(t[2], i - 1, m)
      BY ONLY <2>3 DEF StepRight
    <2> HIDE DEF d
    <2> QED
      BY ONLY <2>2, <2>4, <2>5 DEF s
  <1> DEFINE S == {i \in 0 .. n : Held(cs[i], i, m) \in 0 .. d - 1 /\ \A l \in 1 .. i : cs[i].np[l] = np[l]}
  <1>9. \A i \in 0 .. n : i \in S
    <2>1. n \in S
      <3>1. n \in 0 .. n
        BY ONLY n \in Nat
      <3> QED
        BY ONLY <1>7, <3>1, Held(c0, n, m) \in 0 .. NatOf(dp) - 1
    <2>2. \A i \in 1 .. n : i \in S => i - 1 \in S
      <3> TAKE i \in 1 .. n
      <3> HAVE i \in S
      <3>1. i - 1 \in 0 .. n /\ i \in 1 .. i /\ \A l \in 1 .. i - 1 : l \in 1 .. i
        BY ONLY n \in Nat, i \in 1 .. n
      <3>2. Held(cs[i], i, m) \in 0 .. d - 1 /\ \A l \in 1 .. i : cs[i].np[l] = np[l]
        BY ONLY i \in S
      <3>3. \A l \in 1 .. i - 1 : cs[i - 1].np[l] = cs[i].np[l]
        BY ONLY <1>8 DEF KeptBelow
      <3>4. Held(cs[i - 1], i - 1, m) \in 0 .. d - 1
        BY ONLY <1>8, <3>2
      <3>5. \A l \in 1 .. i - 1 : cs[i - 1].np[l] = np[l]
        BY ONLY <3>1, <3>2, <3>3
      <3> QED
        BY ONLY <3>1, <3>4, <3>5
    <2> HIDE DEF S
    <2> QED
      BY ONLY <2>1, <2>2, DownInduction, n \in Nat
  <1>10. InLoop(cs[0], N)
    <2>1. 0 \in 0 .. n
      BY ONLY n \in Nat
    <2> QED
      BY ONLY <1>2, <1>7, <2>1
  <1>11. \A i \in 0 .. n : Held(cs[i], i, m) \in 0 .. d - 1
    BY ONLY <1>9
  <1>12. \A i \in 1 .. n : B * Held(cs[i], i, m) + np[i] = d * c.r[i] + Held(cs[i - 1], i - 1, m)
    <2> TAKE i \in 1 .. n
    <2>1. i \in 0 .. n /\ i \in 1 .. i
      BY ONLY n \in Nat, i \in 1 .. n
    <2>2. cs[i].np[i] = np[i] /\ Held(cs[i], i, m) \in 0 .. d - 1
      BY ONLY <1>9, <2>1
    <2>3. B * Held(cs[i], i, m) + cs[i].np[i] = d * c.r[i] + Held(cs[i - 1], i - 1, m)
      BY ONLY <1>8, <2>2
    <2> QED
      BY ONLY <2>2, <2>3
  <1>13. LoopRuns(c, cs, np, N, n, m, d)
    BY ONLY <1>7, <1>10, <1>11, <1>12 DEF LoopRuns
  <1> QED
    BY ONLY <1>7, <1>13 DEF c, step

\* What mpn_div_qr_pi1 returns, for a divisor with its highest bit set and a
\* dividend below the divisor moved all the way up.
LEMMA Pi1Is ==
  ASSUME NEW dp, NEW dn, NEW m, NEW di, DividesLoop(dp, dn, m, di),
         NEW np \in Seq(Limb), NEW N, N = Len(np), dn <= N, NEW n1 \in Limb, n1 < dp[dn]
  PROVE  LET c == mpn_div_qr_pi1(np, n1, dp, di) IN
         /\ c.q \in Seq(Limb) /\ Len(c.q) = (N - dn) + 1 /\ c.r \in Seq(Limb) /\ Len(c.r) = dn
         /\ NatOf(c.r) \in 0 .. NatOf(dp) - 1
         /\ NatOf(dp) * NatOf(c.q) + NatOf(c.r) = NatOf(np) + Pow(B, N) * n1
  <1> DEFINE n == (N - dn) + 1
             d == NatOf(dp)
             c0 == [np |-> np, n1 |-> n1]
             ch == ChainDown(LoopSteps(dp, di, n), n, c0)
             c == mpn_div_qr_pi1(np, n1, dp, di)
             Q == Pow(B, m)
             e == dn - 2
             qs == ch.r
             u == NatOf(Slice(np, n, m))
             lo == SubSeq(np, 1, n)
  <1>1. /\ dp \in Seq(Limb) /\ Len(dp) = dn /\ dn >= 3 /\ dn \in Nat /\ m = dn - 1 /\ B <= 2 * dp[dn] /\ di \in Limb
    BY DEF DividesLoop
  <1>2. N \in Nat
    BY NatOfIs
  <1>3. /\ n \in Nat \ {0} /\ n + m = N /\ m \in Nat \ {0} /\ e = dn - 2 /\ n \in 0 .. N /\ n <= N
        /\ Len(np) - Len(dp) + 1 = n
    <2>1. n \in Nat \ {0} /\ n + m = N /\ m \in Nat \ {0} /\ n \in 0 .. N /\ n <= N
      BY ONLY <1>1, <1>2, dn <= N
    <2>2. N - dn + 1 = n
      BY ONLY <1>1, <1>2
    <2> HIDE DEF n
    <2> QED
      BY ONLY <1>1, <2>1, <2>2, N = Len(np)
  <1>4. B \in Nat \ {0} /\ B \in Int /\ Limb = 0 .. B - 1
    BY LimbsAre
  <1>5. /\ Parts(B, Pow(B, e), dp[dn], dp[m], NatOf(SubSeq(dp, 1, e)), d)
        /\ d = NatOf(SubSeq(dp, 1, m)) + (B * Pow(B, e)) * dp[dn]
        /\ SubSeq(dp, 1, m) \in Seq(Limb) /\ Len(SubSeq(dp, 1, m)) = m
    <2>1. dn = Len(dp) /\ dn >= 3 /\ m = dn - 1 /\ e = dn - 2 /\ dp \in Seq(Limb) /\ B <= 2 * dp[dn]
      BY ONLY <1>1
    <2> HIDE DEF e
    <2> QED
      BY ONLY <2>1, DivisorParts
  <1>6. Q = B * Pow(B, e) /\ Q \in Nat \ {0}
    <2>1. \A k \in Nat : Pow(B, k + 1) = B * Pow(B, k) /\ Pow(B, k) \in Int
      BY ONLY <1>4, PowRec
    <2>2. e \in Nat /\ e + 1 = m
      BY ONLY <1>1
    <2>3. Q \in Nat \ {0}
      BY ONLY <1>5, NatOfIs
    <2> HIDE DEF e
    <2> QED
      BY ONLY <2>1, <2>2, <2>3
  <1>7. Slice(np, n, m) = SubSeq(np, n + 1, Len(np))
    BY ONLY <1>3, N = Len(np) DEF Slice
  <1> HIDE DEF n
  <1>8. /\ lo \in Seq(Limb) /\ Len(lo) = n /\ \A i \in 1 .. n : lo[i] = np[i]
        /\ Slice(np, n, m) \in Seq(Limb) /\ Len(Slice(np, n, m)) = m
        /\ NatOf(np) = NatOf(lo) + Pow(B, n) * u
    <2>1. n \in 0 .. Len(np)
      BY ONLY <1>3, N = Len(np)
    <2>2. Len(np) - n = m
      BY ONLY <1>2, <1>3, N = Len(np)
    <2> QED
      BY ONLY <1>7, <2>1, <2>2, NatOfPieces, np \in Seq(Limb)
  <1>9. u \in Nat /\ u < Q /\ n1 \in Nat /\ dp[dn] \in Nat /\ n1 + 1 <= dp[dn]
    <2>1. u \in Nat /\ u < Q
      BY ONLY <1>8, NatOfIs
    <2>2. dp[dn] \in 0 .. B - 1
      BY ONLY <1>5 DEF Parts
    <2> DEFINE h == dp[dn]
    <2>3. h \in Nat
      <3> HIDE DEF h
      <3>1. h \in 0 .. B - 1
        BY ONLY <2>2 DEF h
      <3> QED
        BY ONLY <1>4, <3>1
    <2>4. n1 \in Nat
      BY ONLY <1>4, n1 \in Limb
    <2>5. n1 + 1 <= dp[dn]
      BY ONLY <2>3, <2>4, n1 < dp[dn]
    <2> QED
      BY ONLY <2>1, <2>3, <2>4, <2>5
  <1>10. c0.np = np /\ c0.n1 = n1 /\ InLoop(c0, N)
    BY N = Len(np) DEF InLoop
  <1> HIDE DEF c0
  <1>11. Held(c0, n, m) = u + Q * n1
    BY ONLY <1>10 DEF Held
  <1>12. Held(c0, n, m) \in 0 .. d - 1
    <2> DEFINE h == dp[dn]
               g == NatOf(SubSeq(dp, 1, m))
    <2>1. g \in Nat
      BY ONLY <1>5, NatOfIs
    <2>2. d = g + Q * h
      BY ONLY <1>5, <1>6
    <2> HIDE DEF g, h, u, Q
    <2>3. h \in Nat /\ n1 + 1 <= h
      BY ONLY <1>9 DEF h
    <2>4. Q * (n1 + 1) <= Q * h /\ Q * (n1 + 1) = Q * n1 + Q /\ Q * n1 \in Nat /\ Q * h \in Nat
      <3>1. Q \in Nat /\ n1 \in Nat /\ h \in Nat /\ n1 + 1 <= h
        BY ONLY <1>6, <1>9, <2>3
      <3>2. Q * (n1 + 1) = Q * n1 + Q /\ Q * n1 \in Nat /\ Q * h \in Nat
        BY ONLY <3>1
      <3>3. Q * (n1 + 1) <= Q * h
        BY ONLY <3>1
      <3> QED
        BY ONLY <3>2, <3>3
    <2> DEFINE a == Q * n1
               b == Q * h
    <2>5. a + Q <= b /\ a \in Nat /\ b \in Nat /\ d = g + b
      BY ONLY <2>2, <2>4
    <2> HIDE DEF a, b, d
    <2>6. u + a \in 0 .. d - 1
      BY ONLY <1>6, <1>9, <2>1, <2>5
    <2> QED
      BY ONLY <1>11, <2>6 DEF a
  <1>13. PICK cs : LoopRuns(ch, cs, np, N, n, m, d) /\ cs[n] = c0
    <2>1. n \in Nat /\ n = (N - dn) + 1
      BY ONLY <1>3 DEF n
    <2>2. \E cs : LoopRuns(ch, cs, c0.np, N, n, m, d) /\ cs[n] = c0
      BY ONLY <1>2, <1>10, <1>12, <2>1, LoopDivides, DividesLoop(dp, dn, m, di), dn <= N
    <2> QED
      BY ONLY <1>10, <2>2
  <1>14. c = Divided(ch, dp)
    BY ONLY <1>3 DEF mpn_div_qr_pi1, LoopSteps, c0
  <1> HIDE DEF ch, c
  <1>15. /\ qs \in Seq(Limb) /\ Len(qs) = n /\ ch.cy = cs[0] /\ InLoop(cs[0], N)
         /\ \A i \in 0 .. n : Held(cs[i], i, m) \in 0 .. d - 1
         /\ \A i \in 1 .. n : B * Held(cs[i], i, m) + np[i] = d * qs[i] + Held(cs[i - 1], i - 1, m)
    BY ONLY <1>13 DEF LoopRuns
  <1> HIDE DEF qs
  <1> DEFINE hs == [i \in 0 .. n |-> Held(cs[i], i, m)]
             s == cs[0]
             fr == SubSeq(s.np, 1, m)
             cr == Append(fr, s.n1)
  <1>16. d * Number(B, qs, n) + hs[0] = Pow(B, n) * hs[n] + Number(B, np, n)
    <2>1. Ints(qs, n) /\ Ints(np, n)
      <3>1. Ints(qs, n)
        BY ONLY <1>15, NatOfIs
      <3>2. \A i \in 1 .. N : np[i] \in Int
        BY ONLY NatOfIs, np \in Seq(Limb), N = Len(np)
      <3>3. \A i \in 1 .. n : i \in 1 .. N
        BY ONLY <1>2, <1>3
      <3> QED
        BY ONLY <3>1, <3>2, <3>3 DEF Ints
    <2>2. d \in Int
      <3>1. d \in Nat
        BY ONLY <1>1, NatOfIs
      <3> HIDE DEF d
      <3> QED
        BY ONLY <3>1
    <2>3. \A i \in 0 .. n : hs[i] = Held(cs[i], i, m) /\ hs[i] \in Int
      <3> TAKE i \in 0 .. n
      <3>1. hs[i] = Held(cs[i], i, m)
        BY ONLY i \in 0 .. n
      <3>2. Held(cs[i], i, m) \in 0 .. d - 1
        BY ONLY <1>15, i \in 0 .. n
      <3> DEFINE a == Held(cs[i], i, m)
      <3> HIDE DEF a, d
      <3>3. a \in Int
        BY ONLY <2>2, <3>2 DEF a
      <3> QED
        BY ONLY <3>1, <3>3 DEF a
    <2> HIDE DEF hs, d
    <2>4. \A i \in 1 .. n : d * qs[i] + hs[i - 1] = B * hs[i] + np[i]
      <3> TAKE i \in 1 .. n
      <3>1. i \in 0 .. n /\ i - 1 \in 0 .. n
        BY ONLY <1>3, i \in 1 .. n
      <3>2. B * hs[i] + np[i] = d * qs[i] + hs[i - 1]
        BY ONLY <1>15, <2>3, <3>1
      <3> QED
        BY ONLY <3>2
    <2>5. \A i \in 0 .. n : hs[i] \in Int
      BY ONLY <2>3
    <2>6. n \in Nat
      BY ONLY <1>3
    <2> QED
      BY ONLY <1>4, <2>1, <2>2, <2>4, <2>5, <2>6, NumberCarriedDown
  <1>17. Number(B, qs, n) = NatOf(qs) /\ Number(B, np, n) = NatOf(lo)
    <2>1. Number(B, qs, n) = NatOf(qs)
      BY ONLY <1>15, NatOfIs
    <2>2. Number(B, np, n) = NatOf(lo)
      <3>1. \A i \in 1 .. n : np[i] = lo[i]
        BY ONLY <1>8
      <3> HIDE DEF lo
      <3> QED
        BY ONLY <1>8, <3>1, NatOfSame
    <2> QED
      BY ONLY <2>1, <2>2
  <1>18. hs[0] = Held(s, 0, m) /\ hs[n] = u + Q * n1 /\ Held(s, 0, m) \in 0 .. d - 1
    <2>1. 0 \in 0 .. n /\ n \in 0 .. n
      BY ONLY <1>3
    <2>2. hs[0] = Held(s, 0, m) /\ Held(s, 0, m) \in 0 .. d - 1
      BY ONLY <1>15, <2>1
    <2>3. hs[n] = Held(cs[n], n, m)
      BY ONLY <2>1
    <2>4. hs[n] = Held(c0, n, m)
      BY ONLY <1>13, <2>3
    <2> QED
      BY ONLY <1>11, <2>2, <2>4
  <1>19. cr \in Seq(Limb) /\ Len(cr) = dn /\ NatOf(cr) = Held(s, 0, m)
    <2>1. s.np \in Seq(Limb) /\ Len(s.np) = N /\ s.n1 \in Limb
      BY ONLY <1>15 DEF InLoop
    <2>2. fr \in Seq(Limb) /\ Len(fr) = m
      <3>1. m \in 0 .. Len(s.np)
        BY ONLY <1>2, <1>3, <2>1
      <3> QED
        BY ONLY <2>1, <3>1, NatOfPieces
    <2>3. Slice(s.np, 0, m) = fr
      <3>1. 0 + 1 = 1 /\ 0 + m = m
        BY ONLY <1>3
      <3> QED
        BY ONLY <3>1 DEF Slice
    <2> HIDE DEF fr, s
    <2>4. cr \in Seq(Limb) /\ Len(cr) = m + 1 /\ NatOf(cr) = NatOf(fr) + Q * s.n1
      BY ONLY <2>1, <2>2, NatOfAppend
    <2>5. m + 1 = dn
      BY ONLY <1>1
    <2> QED
      BY ONLY <2>3, <2>4, <2>5 DEF Held
  <1>20. c.q = qs /\ c.r = cr
    <2>1. Len(dp) - 1 = m
      BY ONLY <1>1
    <2> QED
      BY ONLY <1>14, <1>15, <2>1 DEF Divided, qs
  <1>21. Pow(B, N) = Pow(B, n) * Q
    BY ONLY <1>3, <1>4, PowSum
  <1>22. d * NatOf(qs) + NatOf(cr) = NatOf(np) + Pow(B, N) * n1
    <2> DEFINE P == Pow(B, n)
               a == d * NatOf(qs) + NatOf(cr)
               f == NatOf(lo)
    <2>1. a = P * (u + Q * n1) + f /\ NatOf(np) = f + P * u
      BY ONLY <1>8, <1>16, <1>17, <1>18, <1>19
    <2>2. P \in Int /\ f \in Int
      <3>1. P \in Nat \ {0} /\ f \in Nat
        BY ONLY <1>8, NatOfIs
      <3> HIDE DEF P, f
      <3> QED
        BY ONLY <3>1
    <2> HIDE DEF P, a, f, u, Q
    <2>3. P * (u + Q * n1) + f = (f + P * u) + (P * Q) * n1
      <3>1. P \in Int /\ f \in Int /\ u \in Int /\ Q \in Int /\ n1 \in Int
        BY ONLY <1>6, <1>9, <2>2
      <3>2. P * (u + Q * n1) = P * u + (P * Q) * n1
        BY ONLY <3>1
      <3> DEFINE w == P * u
                 v == (P * Q) * n1
      <3>3. w \in Int /\ v \in Int
        BY ONLY <3>1
      <3> HIDE DEF w, v
      <3>4. P * (u + Q * n1) = w + v
        BY ONLY <3>2 DEF w, v
      <3>5. P * (u + Q * n1) + f = (f + w) + v
        BY ONLY <3>1, <3>3, <3>4
      <3> QED
        BY ONLY <3>5 DEF w, v
    <2>4. a = NatOf(np) + (P * Q) * n1
      BY ONLY <2>1, <2>3
    <2> QED
      BY ONLY <1>21, <2>4 DEF P, a
  <1>23. Len(qs) = n /\ qs \in Seq(Limb) /\ NatOf(cr) \in 0 .. d - 1
    BY ONLY <1>15, <1>18, <1>19
  <1> HIDE DEF cr, d
  <1>24. /\ c.q \in Seq(Limb) /\ Len(c.q) = n /\ c.r \in Seq(Limb) /\ Len(c.r) = dn
         /\ NatOf(c.r) \in 0 .. d - 1 /\ d * NatOf(c.q) + NatOf(c.r) = NatOf(np) + Pow(B, N) * n1
    BY ONLY <1>19, <1>20, <1>22, <1>23
  <1> QED
    BY ONLY <1>24 DEF c, d, n

\* mpn_div_qr divides by a divisor of three limbs or more.
LEMMA DivideByMore ==
  ASSUME NEW np \in Seq(Limb), NEW dp \in Seq(Limb), Trimmed(dp), Len(dp) >= 3, Len(np) >= Len(dp)
  PROVE  IsDivided(mpn_div_qr(np, dp), np, dp)
  <1> DEFINE N == Len(np)
             dn == Len(dp)
             m == dn - 1
             s == gmp_clz(dp[dn])
             dd == Shifted(dp, s).r
             t == Shifted(np, s)
             l == t.r
             cy == t.cy
             inv == mpn_div_qr_invert(dp)
             di == inv.di
             c == mpn_div_qr_pi1(l, cy, dd, di)
             q == c.q
             v == NatOf(c.r)
             w == ShiftedBack(c.r, s)
             e == mpn_div_qr(np, dp)
  <1>1. N \in Nat /\ dn \in Nat /\ dn >= 3 /\ m = dn - 1 /\ dn <= N /\ np # <<>> /\ dp # <<>>
    <2>1. N \in Nat /\ dn \in Nat
      OBVIOUS
    <2>2. dn >= 3 /\ dn <= N
      OBVIOUS
    <2>3. Len(<<>>) = 0
      OBVIOUS
    <2> HIDE DEF N, dn
    <2>4. N # 0 /\ dn # 0
      BY ONLY <2>1, <2>2
    <2> QED
      BY ONLY <2>1, <2>2, <2>3, <2>4 DEF N, dn
  <1>2. B \in Nat \ {0} /\ Limb = 0 .. B - 1
    BY LimbsAre
  <1>3. /\ s \in Nat /\ s < LimbBits /\ dd \in Seq(Limb) /\ Len(dd) = dn /\ NatOf(dd) = NatOf(dp) * Pow(2, s)
        /\ Pow(2, s) \in Nat \ {0} /\ dd[dn] \in Limb /\ B <= 2 * dd[dn] /\ Pow(2, s) <= dd[dn]
    BY <1>1, DivisorShifted
  <1>4. /\ inv.shift = s /\ di \in Limb
        /\ \E k \in Nat : Divisor(B, dd[dn], dd[m], dd[dn] * B + dd[m], di, k)
    <2>1. dn >= 2
      BY ONLY <1>1
    <2> QED
      BY ONLY <2>1, InverseOfMore, dp \in Seq(Limb), Trimmed(dp)
  <1>5. DividesLoop(dd, dn, m, di)
    <2> HIDE DEF dd, di
    <2> QED
      BY ONLY <1>1, <1>3, <1>4 DEF DividesLoop
  <1>6. /\ cy \in 0 .. Pow(2, s) - 1 /\ cy \in Limb /\ l \in Seq(Limb) /\ Len(l) = N
    <2> HIDE DEF s
    <2> QED
      BY ONLY <1>1, <1>3, ShiftedIs, np \in Seq(Limb)
  <1>7. cy < dd[dn]
    <2> DEFINE h == dd[dn]
               p == Pow(2, s)
    <2>1. h \in 0 .. B - 1 /\ p <= h /\ p \in Nat /\ cy \in 0 .. p - 1
      BY ONLY <1>2, <1>3, <1>6
    <2> HIDE DEF h, p, cy
    <2>2. cy < h
      BY ONLY <1>2, <2>1
    <2> QED
      BY ONLY <2>2 DEF h
  <1>8. /\ q \in Seq(Limb) /\ Len(q) = (N - dn) + 1 /\ c.r \in Seq(Limb) /\ Len(c.r) = dn
        /\ v \in 0 .. NatOf(dd) - 1 /\ NatOf(dd) * NatOf(q) + v = NatOf(l) + Pow(B, N) * cy
    <2> HIDE DEF l, cy, dd, di
    <2>1. N = Len(l) /\ dn <= N
      BY ONLY <1>1, <1>6
    <2> HIDE DEF N
    <2> QED
      BY ONLY <1>5, <1>6, <1>7, <2>1, Pi1Is
  <1>9. ShiftedQuotient(np, dp, NatOf(q), v)
    <2>1. NatOf(q) \in Nat
      BY ONLY <1>8, NatOfIs
    <2>2. ShiftedQuotient(np, dp, NatOf(q), v) <=>
            NatOf(q) \in Nat /\ v \in 0 .. NatOf(dd) - 1 /\ NatOf(dd) * NatOf(q) + v = NatOf(l) + Pow(B, N) * cy
      <3> HIDE DEF q, v
      <3> QED
        BY ONLY DEF ShiftedQuotient, s, dd, t, l, cy, N, dn
    <2> HIDE DEF q, v, dd, l, cy, N
    <2> QED
      BY ONLY <1>8, <2>1, <2>2
  <1>10. /\ Undone(NatOf(np), NatOf(dp), Pow(2, s), NatOf(q), v)
         /\ NatOf(dp) \in Nat \ {0} /\ NatOf(np) \in Nat
    <2> HIDE DEF q, v
    <2> QED
      BY ONLY <1>1, <1>9, UndoneShift, np \in Seq(Limb), dp \in Seq(Limb), Trimmed(dp) DEF s, dn
  <1>11. c.r # <<>>
    <2>1. Len(<<>>) = 0
      OBVIOUS
    <2> HIDE DEF c, dn
    <2>2. Len(c.r) # 0
      BY ONLY <1>1, <1>8
    <2> QED
      BY ONLY <2>1, <2>2
  <1>12. w \in Seq(Limb) /\ NatOf(w) \in 0 .. NatOf(dp) - 1 /\ NatOf(np) = NatOf(dp) * NatOf(q) + NatOf(w)
    <2> HIDE DEF s, c, q
    <2> QED
      <3> DEFINE r == c.r
                 M == NatOf(np)
                 d == NatOf(dp)
                 k == NatOf(q)
      <3>1. /\ r \in Seq(Limb) /\ r # <<>> /\ s \in Nat /\ s < LimbBits /\ M \in Nat /\ d \in Nat \ {0}
            /\ Undone(M, d, Pow(2, s), k, NatOf(r))
        BY ONLY <1>3, <1>8, <1>10, <1>11 DEF v
      <3>2. w = ShiftedBack(r, s)
        BY DEF w
      <3> HIDE DEF r, M, d, k
      <3>3. ShiftedBack(r, s) \in Seq(Limb) /\ NatOf(ShiftedBack(r, s)) \in 0 .. d - 1
            /\ M = d * k + NatOf(ShiftedBack(r, s))
        BY ONLY <3>1, ShiftedBackIs
      <3> HIDE DEF w
      <3> QED
        BY ONLY <3>2, <3>3 DEF M, d, k
  <1>13. e.q = q /\ e.r = w
    <2>1. Len(dp) > 2 /\ Len(dp) # 1 /\ Len(dp) # 2
      <3>1. dn \in Nat /\ dn >= 3
        BY ONLY <1>1
      <3> HIDE DEF dn
      <3>2. dn > 2 /\ dn # 1 /\ dn # 2
        BY ONLY <3>1
      <3> QED
        BY ONLY <3>2 DEF dn
    <2> HIDE DEF inv
    <2>2. e = mpn_div_qr_preinv(np, dd, inv)
      <3>1. e = mpn_div_qr_preinv(np, Shifted(dp, inv.shift).r, inv)
        BY ONLY <2>1 DEF e, mpn_div_qr, DivideBy, inv
      <3> HIDE DEF e, s
      <3> QED
        BY ONLY <1>4, <3>1
    <2>3. Len(dd) # 1 /\ Len(dd) # 2
      BY ONLY <1>3, <2>1
    <2> HIDE DEF e, s, dd, di
    <2>4. e = DownBy(mpn_div_qr_pi1(Shifted(np, s).r, Shifted(np, s).cy, dd, inv.di), s)
      BY ONLY <1>4, <2>2, <2>3 DEF mpn_div_qr_preinv
    <2> HIDE DEF c
    <2>5. e = DownBy(c, s)
      BY ONLY <2>4 DEF c, l, cy, t, di
    <2> QED
      BY ONLY <2>5 DEF DownBy, q, w, ShiftedBack
  <1> HIDE DEF e, q, w
  <1>14. IsDivided(e, np, dp)
    BY ONLY <1>8, <1>12, <1>13 DEF IsDivided, N, dn
  <1> QED
    BY ONLY <1>14 DEF e

\* mpn_div_qr divides a number of any length by every divisor without leading
\* zeroes: quotient times divisor and the remainder, which is less, make it.
THEOREM DivideLimbs ==
  ASSUME NEW np \in Seq(Limb), NEW dp \in Seq(Limb), Trimmed(dp), dp # <<>>, Len(np) >= Len(dp)
  PROVE  IsDivided(mpn_div_qr(np, dp), np, dp)
  <1> DEFINE n == Len(dp)
             m == Len(np)
  <1>1. n \in Nat /\ m \in Nat /\ m >= n
    OBVIOUS
  <1>2. n # 0 /\ (m # 0 => np # <<>>)
    <2>1. n # 0
      OBVIOUS
    <2>2. Len(<<>>) = 0
      OBVIOUS
    <2> HIDE DEF n
    <2> QED
      BY ONLY <2>1, <2>2 DEF m
  <1> HIDE DEF n, m
  <1>3. m # 0
    BY ONLY <1>1, <1>2
  <1>4. CASE n = 1
    BY ONLY <1>2, <1>3, <1>4, DivideByOneLimb, np \in Seq(Limb), dp \in Seq(Limb), Trimmed(dp) DEF n
  <1>5. CASE n = 2
    <2>1. m >= 2
      BY ONLY <1>1, <1>5
    <2> QED
      BY ONLY <1>5, <2>1, DivideByTwo, np \in Seq(Limb), dp \in Seq(Limb), Trimmed(dp) DEF n, m
  <1>6. CASE n >= 3
    BY ONLY <1>1, <1>6, DivideByMore, np \in Seq(Limb), dp \in Seq(Limb), Trimmed(dp) DEF n, m
  <1> QED
    BY ONLY <1>1, <1>2, <1>4, <1>5, <1>6

----------------------------------------------------------------------------
(* Division with signs: mpz_tdiv_q and mpz_tdiv_r.                         *)

\* Two numbers i and j of the sizes P and D, and the quotient and the remainder
\* of the sizes.
Sizes(i, j, P, D, q, r) ==
    /\ P \in Nat /\ D \in Nat \ {0} /\ q \in Nat /\ r \in 0 .. D - 1 /\ P = D * q + r
    /\ i \in {P, -P} /\ j \in {D, -D}

\* The quotient and the remainder of C.
LEMMA QuotientSigns ==
  ASSUME NEW P, NEW D, NEW q, NEW r, NEW i, NEW j, Sizes(i, j, P, D, q, r)
  PROVE  /\ Quot(i, j) = IF (i < 0) = (j < 0) THEN q ELSE -q
         /\ Rem(i, j) = IF i < 0 THEN -r ELSE r
  <1>0. /\ P \in Nat /\ D \in Nat \ {0} /\ q \in Nat /\ r \in 0 .. D - 1 /\ P = D * q + r
        /\ i \in {P, -P} /\ j \in {D, -D}
    BY DEF Sizes
  <1>1. P \div D = q
    <2>1. D \in Nat \ {0} /\ q \in Int /\ r \in 0 .. D - 1 /\ P = D * q + r
      BY <1>0
    <2> QED
      BY ONLY <2>1, DivisionIs
  <1>2. i \in Int /\ j \in Int /\ j # 0 /\ r \in Int /\ (P = 0 => i = 0)
    BY <1>0
  <1>3. Abs(i) = P /\ Abs(j) = D
    BY <1>0 DEF Abs
  <1>4. P = 0 => q = 0 /\ r = 0
    <2>1. P = 0 => D * q = 0 /\ r = 0
      <3>1. D * q \in Nat
        BY <1>0
      <3> QED
        BY <1>0, <3>1
    <2>2. q # 0 => D * q >= 1
      BY <1>0
    <2> QED
      BY <1>0, <2>1, <2>2
  <1>5. Quot(i, j) = Sgn(i) * Sgn(j) * q
    BY <1>1, <1>3 DEF Quot
  <1>6. /\ i > 0 => Sgn(i) = 1
        /\ i < 0 => Sgn(i) = -1
        /\ i = 0 => Sgn(i) = 0
        /\ j > 0 => Sgn(j) = 1
        /\ j < 0 => Sgn(j) = -1
    BY <1>2 DEF Sgn, Bit
  <1> DEFINE w == Quot(i, j)
  <1>7. Rem(i, j) = i - j * w
    BY DEF Rem
  <1> HIDE DEF w
  <1>8. CASE i = 0
    <2>1. P = 0 /\ q = 0 /\ r = 0
      BY ONLY <1>0, <1>4, <1>8
    <2>2. w = 0
      <3>1. Sgn(j) \in Int
        BY <1>2 DEF Sgn, Bit
      <3> QED
        BY <1>5, <2>1, <3>1, <1>6, <1>8 DEF w
    <2> QED
      BY <1>2, <1>7, <1>8, <2>1, <2>2 DEF w
  <1>9. CASE i > 0 /\ j > 0
    <2>1. i = D * q + r /\ j = D
      <3>1. i = P /\ j = D
        BY ONLY <1>9, <1>0
      <3> QED
        BY ONLY <3>1, <1>0
    <2>2. w = q
      <3>1. Sgn(i) = 1 /\ Sgn(j) = 1
        BY ONLY <1>6, <1>9
      <3>2. w = 1 * 1 * q
        BY ONLY <1>5, <3>1 DEF w
      <3> QED
        BY ONLY <3>2, <1>0
    <2>3. i - j * w = r
      <3>1. (D * q + r) - (D) * (q) = r
        BY ONLY <1>0, <1>2
      <3> QED
        BY ONLY <2>1, <2>2, <3>1
    <2>4. /\ (i < 0) = FALSE
          /\ (j < 0) = FALSE
      BY ONLY <1>2, <1>9
    <2>5. Rem(i, j) = IF i < 0 THEN -r ELSE r
      BY ONLY <1>7, <2>3, <2>4
    <2>6. w = IF (i < 0) = (j < 0) THEN q ELSE -q
      BY ONLY <2>2, <2>4
    <2> QED
      BY ONLY <2>5, <2>6 DEF w
  <1>10. CASE i > 0 /\ j < 0
    <2>1. i = D * q + r /\ j = -D
      <3>1. i = P /\ j = -D
        BY ONLY <1>10, <1>0
      <3> QED
        BY ONLY <3>1, <1>0
    <2>2. w = -q
      <3>1. Sgn(i) = 1 /\ Sgn(j) = -1
        BY ONLY <1>6, <1>10
      <3>2. w = 1 * (-1) * q
        BY ONLY <1>5, <3>1 DEF w
      <3> QED
        BY ONLY <3>2, <1>0
    <2>3. i - j * w = r
      <3>1. (D * q + r) - (-D) * (-q) = r
        BY ONLY <1>0, <1>2
      <3> QED
        BY ONLY <2>1, <2>2, <3>1
    <2>4. /\ (i < 0) = FALSE
          /\ (j < 0) = TRUE
      BY ONLY <1>2, <1>10
    <2>5. Rem(i, j) = IF i < 0 THEN -r ELSE r
      BY ONLY <1>7, <2>3, <2>4
    <2>6. w = IF (i < 0) = (j < 0) THEN q ELSE -q
      BY ONLY <2>2, <2>4
    <2> QED
      BY ONLY <2>5, <2>6 DEF w
  <1>11. CASE i < 0 /\ j > 0
    <2>1. i = -(D * q + r) /\ j = D
      <3>1. i = -P /\ j = D
        BY ONLY <1>11, <1>0
      <3> QED
        BY ONLY <3>1, <1>0
    <2>2. w = -q
      <3>1. Sgn(i) = -1 /\ Sgn(j) = 1
        BY ONLY <1>6, <1>11
      <3>2. w = (-1) * 1 * q
        BY ONLY <1>5, <3>1 DEF w
      <3> QED
        BY ONLY <3>2, <1>0
    <2>3. i - j * w = -r
      <3>1. (-(D * q + r)) - (D) * (-q) = -r
        BY ONLY <1>0, <1>2
      <3> QED
        BY ONLY <2>1, <2>2, <3>1
    <2>4. /\ (i < 0) = TRUE
          /\ (j < 0) = FALSE
      BY ONLY <1>2, <1>11
    <2>5. Rem(i, j) = IF i < 0 THEN -r ELSE r
      BY ONLY <1>7, <2>3, <2>4
    <2>6. w = IF (i < 0) = (j < 0) THEN q ELSE -q
      BY ONLY <2>2, <2>4
    <2> QED
      BY ONLY <2>5, <2>6 DEF w
  <1>12. CASE i < 0 /\ j < 0
    <2>1. i = -(D * q + r) /\ j = -D
      <3>1. i = -P /\ j = -D
        BY ONLY <1>12, <1>0
      <3> QED
        BY ONLY <3>1, <1>0
    <2>2. w = q
      <3>1. Sgn(i) = -1 /\ Sgn(j) = -1
        BY ONLY <1>6, <1>12
      <3>2. w = (-1) * (-1) * q
        BY ONLY <1>5, <3>1 DEF w
      <3> QED
        BY ONLY <3>2, <1>0
    <2>3. i - j * w = -r
      <3>1. (-(D * q + r)) - (-D) * (q) = -r
        BY ONLY <1>0, <1>2
      <3> QED
        BY ONLY <2>1, <2>2, <3>1
    <2>4. /\ (i < 0) = TRUE
          /\ (j < 0) = TRUE
      BY ONLY <1>2, <1>12
    <2>5. Rem(i, j) = IF i < 0 THEN -r ELSE r
      BY ONLY <1>7, <2>3, <2>4
    <2>6. w = IF (i < 0) = (j < 0) THEN q ELSE -q
      BY ONLY <2>2, <2>4
    <2> QED
      BY ONLY <2>5, <2>6 DEF w
  <1> QED
    BY <1>2, <1>8, <1>9, <1>10, <1>11, <1>12

\* Two powers: if the divisor is below b ^ n and the dividend is not below
\* b ^ (m + n), the quotient is not below b ^ m.
LEMMA QuotientNotBelow ==
  ASSUME NEW a \in Nat, NEW b \in Nat, NEW D \in Nat, D <= b, NEW q \in Nat, NEW r \in 0 .. D - 1,
         a * b <= D * q + r
  PROVE  q >= a
  <1>1. SUFFICES ASSUME q + 1 <= a
                 PROVE  FALSE
    OBVIOUS
  <1>2. D * q + r < D * (q + 1)
    <2>1. D * (q + 1) = D * q + D /\ D * q \in Nat
      OBVIOUS
    <2> QED
      BY <2>1
  <1>3. D * (q + 1) <= D * a /\ D * a <= a * b
    <2>1. D * (q + 1) <= D * a
      BY ONLY <1>1, D \in Nat, q \in Nat, a \in Nat
    <2>2. D * a <= a * b
      BY ONLY D \in Nat, a \in Nat, b \in Nat, D <= b
    <2> QED
      BY <2>1, <2>2
  <1>4. D * q + r \in Nat /\ D * (q + 1) \in Nat /\ D * a \in Nat /\ a * b \in Nat
    <2>1. D * q \in Nat /\ D * (q + 1) \in Nat /\ D * a \in Nat /\ a * b \in Nat
      OBVIOUS
    <2> QED
      BY <2>1
  <1> QED
    BY ONLY <1>2, <1>3, <1>4, a * b <= D * q + r

\* So the quotient has one leading zero at most, which is taken off.
LEMMA TopOfQuotient ==
  ASSUME NEW np \in Seq(Limb), NEW dp \in Seq(Limb), Trimmed(np), Trimmed(dp), dp # <<>>, Len(np) >= Len(dp),
         NEW e, IsDivided(e, np, dp)
  PROVE  /\ WithoutZero(e.q) \in Seq(Limb) /\ Trimmed(WithoutZero(e.q))
         /\ NatOf(WithoutZero(e.q)) = NatOf(e.q)
  <1> DEFINE m == Len(np)
             n == Len(dp)
             k == Len(e.q)
             P == NatOf(np)
             D == NatOf(dp)
             q == NatOf(e.q)
             r == NatOf(e.r)
  <1>1. /\ e.q \in Seq(Limb) /\ k = (m - n) + 1 /\ r \in 0 .. D - 1 /\ P = D * q + r
    BY DEF IsDivided
  <1>2. m \in Nat /\ n \in Nat /\ n <= m /\ P \in Nat /\ D \in Nat /\ D < Pow(B, n) /\ q \in Nat
    BY <1>1, NatOfIs
  <1>3. n # 0 /\ Len(<<>>) = 0
    BY EmptySeq
  <1>4. np # <<>>
    <2> HIDE DEF n, m
    <2>1. m # 0
      BY ONLY <1>2, <1>3
    <2> QED
      BY ONLY <1>3, <2>1 DEF m
  <1>5. P >= Pow(B, m - 1)
    BY <1>4, TrimmedHas
  <1>6. B \in Nat \ {0} /\ B \in Int
    BY LimbsAre
  <1> HIDE DEF m, n, P, D, q, r
  <1>7. k \in Nat \ {0} /\ (k # 1 => k - 2 \in Nat /\ (k - 2) + n = m - 1)
    BY ONLY <1>1, <1>2
  <1>8. e.q # <<>>
    BY ONLY <1>3, <1>7
  <1>9. k # 1 => q >= Pow(B, k - 2)
    <2>1. SUFFICES ASSUME k # 1
                   PROVE  q >= Pow(B, k - 2)
      OBVIOUS
    <2> DEFINE i == k - 2
               a == Pow(B, i)
               b == Pow(B, n)
    <2>2. i \in Nat /\ i + n = m - 1
      BY ONLY <1>7, <2>1
    <2> HIDE DEF i
    <2>3. a \in Nat /\ b \in Nat
      BY ONLY <1>2, <1>6, <2>2, PowPositive
    <2>4. Pow(B, m - 1) = a * b
      <3>1. Pow(B, i + n) = a * b
        BY ONLY <1>2, <1>6, <2>2, PowSum
      <3> QED
        BY ONLY <2>2, <3>1
    <2> DEFINE c == Pow(B, m - 1)
    <2>5. c = a * b /\ P >= c /\ D < b
      BY ONLY <1>2, <1>5, <2>4
    <2> HIDE DEF a, b, c
    <2>6. a * b <= D * q + r /\ D <= b
      <3>1. a * b <= P
        BY ONLY <2>3, <2>5, <1>2
      <3> QED
        BY ONLY <1>1, <1>2, <2>3, <2>5, <3>1
    <2>7. q >= a
      BY ONLY <1>1, <1>2, <2>3, <2>6, QuotientNotBelow
    <2> QED
      BY ONLY <2>7 DEF a, i
  <1>10. Len(e.q) = 1 \/ NatOf(e.q) >= Pow(B, Len(e.q) - 2)
    BY ONLY <1>9 DEF q
  <1> QED
    BY ONLY <1>1, <1>8, <1>10, WithoutZeroKeeps

LEMMA MpzDivideIs ==
  ASSUME NEW n, NEW d, IsMpz(n), IsMpz(d), IntOf(d) # 0
  PROVE  Is(mpz_tdiv_q(n, d), Quot(IntOf(n), IntOf(d))) /\ Is(mpz_tdiv_r(n, d), Rem(IntOf(n), IntOf(d)))
  <1> DEFINE P == NatOf(n.d)
             D == NatOf(d.d)
             i == IntOf(n)
             j == IntOf(d)
             neg == ~SameSign(n, d)
             e == mpz_div_qr(n, d, "trunc")
  <1>1. /\ n.d \in Seq(Limb) /\ Trimmed(n.d) /\ P \in Nat /\ i \in Int /\ n.size \in Int
        /\ n.size < 0 => i = -P
        /\ n.size >= 0 => i = P
        /\ n.size = 0 <=> n.d = <<>>
        /\ n.size = 0 <=> i = 0
    BY PartsOf
  <1>2. /\ d.d \in Seq(Limb) /\ Trimmed(d.d) /\ D \in Nat /\ j \in Int /\ d.size \in Int
        /\ d.size < 0 => j = -D
        /\ d.size >= 0 => j = D
        /\ d.size = 0 <=> d.d = <<>>
        /\ d.size = 0 <=> j = 0
    BY PartsOf
  <1>3. mpz_tdiv_q(n, d) = e.q /\ mpz_tdiv_r(n, d) = e.r
    BY DEF mpz_tdiv_q, mpz_tdiv_r
  <1>4. neg = ((n.size < 0) # (d.size < 0)) /\ neg \in BOOLEAN
    BY DEF SameSign
  <1>5. /\ D \in Nat \ {0} /\ d.d # <<>> /\ i \in {P, -P} /\ j \in {D, -D}
        /\ (i < 0 <=> n.size < 0) /\ (j < 0 <=> d.size < 0)
    <2> DEFINE s == n.size
               t == d.size
    <2>1. d.d # <<>>
      BY <1>2
    <2>2. /\ P \in Nat /\ i \in Int /\ s \in Int /\ (s < 0 => i = -P) /\ (s >= 0 => i = P) /\ (s = 0 <=> i = 0)
          /\ D \in Nat /\ j \in Int /\ t \in Int /\ (t < 0 => j = -D) /\ (t >= 0 => j = D) /\ (t = 0 <=> j = 0)
          /\ j # 0
      BY ONLY <1>1, <1>2, IntOf(d) # 0
    <2> HIDE DEF P, D, i, j, s, t
    <2>3. /\ D \in Nat \ {0} /\ i \in {P, -P} /\ j \in {D, -D}
          /\ (i < 0 <=> s < 0) /\ (j < 0 <=> t < 0)
      BY ONLY <2>2
    <2> QED
      BY ONLY <2>1, <2>3 DEF s, t
  <1>6. neg = ((i < 0) # (j < 0))
    BY ONLY <1>4, <1>5
  <1> HIDE DEF P, D, i, j, neg, e
  <1>7. CASE n.size = 0
    <2>1. e = [q |-> mpz_init, r |-> mpz_init]
      BY <1>7 DEF e, mpz_div_qr
    <2>2. 0 \in Nat /\ 0 \in 0 .. D - 1 /\ i = 0 /\ P = 0 /\ 0 = D * 0 + 0
      BY ONLY <1>1, <1>5, <1>7
    <2>3. Quot(i, j) = 0 /\ Rem(i, j) = 0
      <3> DEFINE z == 0
      <3>1. z \in Nat /\ z \in 0 .. D - 1 /\ P = D * z + z /\ -z = 0 /\ z = 0
        <4>1. z = 0 /\ D \in Nat \ {0} /\ P = 0
          BY ONLY <1>5, <2>2
        <4> HIDE DEF z
        <4>2. D * z = 0 /\ -z = 0 /\ z \in Nat /\ z \in 0 .. D - 1
          <5>1. z \in Int /\ z = 0 /\ D \in Int /\ D >= 1 /\ P \in Int /\ P >= 0 /\ P < D
            BY ONLY <4>1
          <5>2. D * z = 0
            BY ONLY <5>1
          <5>3. z \in Nat /\ z \in 0 .. D - 1
            BY ONLY <5>1
          <5>4. -z = 0
            <6>1. \A k \in Int : -k = 0 - k
              OBVIOUS
            <6>2. -z = 0 - z
              BY ONLY <5>1, <6>1
            <6>3. 0 - z = 0
              BY ONLY <5>1
            <6> QED
              BY ONLY <6>2, <6>3, Zenon
          <5> QED
            BY ONLY <5>2, <5>3, <5>4
        <4> DEFINE a == D * z
        <4>3. a = 0
          BY ONLY <4>2
        <4> HIDE DEF a
        <4>4. P = a + z
          BY ONLY <4>1, <4>3
        <4> QED
          BY ONLY <4>1, <4>2, <4>4 DEF a
      <3> HIDE DEF z
      <3>2. Quot(i, j) = (IF (i < 0) = (j < 0) THEN z ELSE -z) /\ Rem(i, j) = IF i < 0 THEN -z ELSE z
        BY ONLY <1>1, <1>5, <3>1, QuotientSigns DEF Sizes
      <3> QED
        BY ONLY <3>1, <3>2
    <2> QED
      BY ONLY <1>3, <2>1, <2>3, ZeroIsNumber DEF Is, i, j
  <1>8. CASE n.size # 0 /\ Len(n.d) < Len(d.d)
    <2>1. e = Smaller(n, d, "trunc")
      BY <1>8 DEF e, mpz_div_qr
    <2>2. Smaller(n, d, "trunc") = [q |-> mpz_init, r |-> n]
      BY DEF Smaller
    <2>3. P < D
      BY ONLY <1>1, <1>2, <1>8, LongerIsGreater DEF P, D
    <2>4. Quot(i, j) = 0 /\ Rem(i, j) = i
      <3> DEFINE z == 0
      <3>1. z \in Nat /\ P \in 0 .. D - 1 /\ P = D * z + P /\ -z = 0 /\ z = 0
        <4>1. z = 0 /\ D \in Nat \ {0} /\ P \in Nat /\ P < D
          BY ONLY <1>1, <1>5, <2>3
        <4> HIDE DEF z
        <4>2. D * z = 0 /\ -z = 0 /\ z \in Nat /\ P \in 0 .. D - 1
          <5>1. z \in Int /\ z = 0 /\ D \in Int /\ D >= 1 /\ P \in Int /\ P >= 0 /\ P < D
            BY ONLY <4>1
          <5>2. D * z = 0
            BY ONLY <5>1
          <5>3. z \in Nat /\ P \in 0 .. D - 1
            BY ONLY <5>1
          <5>4. -z = 0
            <6>1. \A k \in Int : -k = 0 - k
              OBVIOUS
            <6>2. -z = 0 - z
              BY ONLY <5>1, <6>1
            <6>3. 0 - z = 0
              BY ONLY <5>1
            <6> QED
              BY ONLY <6>2, <6>3, Zenon
          <5> QED
            BY ONLY <5>2, <5>3, <5>4
        <4> DEFINE a == D * z
        <4>3. a = 0
          BY ONLY <4>2
        <4> HIDE DEF a
        <4>4. P = a + P
          BY ONLY <4>1, <4>3
        <4> QED
          BY ONLY <4>1, <4>2, <4>4 DEF a
      <3> HIDE DEF z
      <3>2. Quot(i, j) = (IF (i < 0) = (j < 0) THEN z ELSE -z) /\ Rem(i, j) = IF i < 0 THEN -P ELSE P
        BY ONLY <1>1, <1>5, <3>1, QuotientSigns DEF Sizes
      <3>3. i = IF i < 0 THEN -P ELSE P
        BY ONLY <1>1, <1>5
      <3> QED
        BY ONLY <3>1, <3>2, <3>3
    <2>5. e.q = mpz_init /\ e.r = n
      BY ONLY <2>1, <2>2
    <2> QED
      BY ONLY <1>3, <2>4, <2>5, ZeroIsNumber, IsMpz(n) DEF Is, i, j
  <1>9. CASE n.size # 0 /\ ~(Len(n.d) < Len(d.d))
    <2> DEFINE f == mpn_div_qr(n.d, d.d)
               w == WithoutZero(f.q)
               v == Normalized(f.r)
               s == n.size < 0
    <2>1. e = WithSigns(n, d, "trunc", f)
      BY <1>9 DEF e, mpz_div_qr
    <2>2. e.q = Mpz(neg, w) /\ e.r = Mpz(s, v)
      <3> HIDE DEF f
      <3>1. WithSigns(n, d, "trunc", f) = [q |-> Mpz(neg, w), r |-> Mpz(s, v)]
        BY DEF WithSigns, Rounded, neg
      <3> QED
        BY ONLY <2>1, <3>1
    <2>3. Len(n.d) >= Len(d.d)
      <3> DEFINE a == Len(n.d)
                 b == Len(d.d)
      <3>1. a \in Nat /\ b \in Nat
        BY ONLY <1>1, <1>2, NatOfIs
      <3>2. ~(a < b)
        BY ONLY <1>9
      <3> HIDE DEF a, b
      <3>3. a >= b
        BY ONLY <3>1, <3>2
      <3> QED
        BY ONLY <3>3 DEF a, b
    <2>4. IsDivided(f, n.d, d.d)
      BY ONLY <1>1, <1>2, <1>5, <2>3, DivideLimbs
    <2> HIDE DEF f
    <2>5. w \in Seq(Limb) /\ Trimmed(w) /\ NatOf(w) = NatOf(f.q)
      BY ONLY <1>1, <1>2, <1>5, <2>3, <2>4, TopOfQuotient
    <2>6. f.q \in Seq(Limb) /\ f.r \in Seq(Limb) /\ NatOf(f.r) \in 0 .. D - 1 /\ P = D * NatOf(f.q) + NatOf(f.r)
      BY ONLY <2>4 DEF IsDivided, P, D
    <2>7. v \in Seq(Limb) /\ Trimmed(v) /\ NatOf(v) = NatOf(f.r)
      BY ONLY <2>6, NormalizedKeeps
    <2>8. NatOf(f.q) \in Nat
      BY ONLY <2>6, NatOfIs
    <2> HIDE DEF w, v, s
    <2>9. Quot(i, j) = (IF neg THEN -NatOf(w) ELSE NatOf(w)) /\ Rem(i, j) = IF i < 0 THEN -NatOf(v) ELSE NatOf(v)
      <3> DEFINE g == NatOf(w)
                 h == NatOf(v)
      <3>1. g \in Nat /\ h \in 0 .. D - 1 /\ P = D * g + h
        BY ONLY <2>5, <2>6, <2>7, <2>8
      <3> HIDE DEF g, h
      <3>2. Quot(i, j) = (IF neg THEN -g ELSE g) /\ Rem(i, j) = IF i < 0 THEN -h ELSE h
        <4>1. Quot(i, j) = (IF (i < 0) = (j < 0) THEN g ELSE -g) /\ Rem(i, j) = IF i < 0 THEN -h ELSE h
          <5>1. Sizes(i, j, P, D, g, h)
            BY ONLY <1>1, <1>5, <3>1 DEF Sizes
          <5> QED
            BY ONLY <5>1, QuotientSigns
        <4>2. neg \in BOOLEAN /\ neg = ((i < 0) # (j < 0))
          BY ONLY <1>4, <1>6
        <4> QED
          BY ONLY <4>1, <4>2
      <3> QED
        BY ONLY <3>2 DEF g, h
    <2>10. s \in BOOLEAN /\ (s <=> i < 0)
      BY ONLY <1>5 DEF s
    <2>11. /\ Is(Mpz(FALSE, w), NatOf(w)) /\ Is(Mpz(TRUE, w), -NatOf(w))
           /\ Is(Mpz(FALSE, v), NatOf(v)) /\ Is(Mpz(TRUE, v), -NatOf(v))
      BY ONLY <2>5, <2>7, NaturalIs
    <2>12. Is(Mpz(neg, w), Quot(i, j))
      BY ONLY <1>4, <2>9, <2>11
    <2>13. Is(Mpz(s, v), Rem(i, j))
      BY ONLY <2>9, <2>10, <2>11
    <2> QED
      BY ONLY <1>3, <2>2, <2>12, <2>13 DEF i, j
  <1> QED
    BY <1>7, <1>8, <1>9

LEMMA QuotientIsInt ==
  ASSUME NEW a \in Int, NEW b \in Int, b # 0
  PROVE  Quot(a, b) \in Int /\ Rem(a, b) \in Int
  <1>1. /\ Abs(a) \in Nat /\ Abs(b) \in Nat \ {0}
        /\ Sgn(a) \in Int /\ Sgn(b) \in Int
    BY DEF Abs, Sgn, Bit
  <1> DEFINE q == Abs(a) \div Abs(b)
  <1>2. q \in Int
    BY <1>1, DivMod
  <1> HIDE DEF q
  <1>3. Quot(a, b) = Sgn(a) * Sgn(b) * q
    BY DEF Quot, q
  <1>4. Quot(a, b) \in Int
    BY ONLY <1>1, <1>2, <1>3
  <1> QED
    BY <1>4 DEF Rem

\* The calls that divide.
LEMMA DivideIs ==
  ASSUME NEW a, NEW b, IsValue(a), IsValue(b), Value(b) # 0
  PROVE  /\ Exactly(idris_bigDivide(a, b), Quot(Value(a), Value(b)))
         /\ Exactly(idris_bigMod(a, b), Rem(Value(a), Value(b)))
  <1> DEFINE i == Value(a)
             j == Value(b)
  <1>1. i \in Int /\ j \in Int /\ j # 0
    BY ValueIs
  <1>2. IsMpz(getbig(a)) /\ IntOf(getbig(a)) = i /\ IsMpz(getbig(b)) /\ IntOf(getbig(b)) = j
    BY ValueIs
  <1>3. BothFix(a, b) => a.n = i /\ b.n = j
    BY ValueIs DEF BothFix
  <1> HIDE DEF i, j
  <1>4. Is(mpz_tdiv_q(getbig(a), getbig(b)), Quot(i, j)) /\ Is(mpz_tdiv_r(getbig(a), getbig(b)), Rem(i, j))
    BY <1>1, <1>2, MpzDivideIs
  <1>5. Exactly(bigDiv(a, b), Quot(i, j)) /\ Exactly(bigMod(a, b), Rem(i, j))
    BY <1>4, BigNumber, BigExactly DEF bigDiv, bigMod
  <1>6. Quot(i, j) \in Int /\ Rem(i, j) \in Int
    BY <1>1, QuotientIsInt
  <1>7. Exactly(Fix(Quot(i, j)), Quot(i, j)) /\ Exactly(Fix(Rem(i, j)), Rem(i, j))
    BY <1>6, FixExactly
  <1> QED
    BY <1>3, <1>5, <1>7 DEF idris_bigDivide, idris_bigMod, i, j

----------------------------------------------------------------------------
(* The invariants.                                                         *)

\* An operand is an integer of at most MaxBits bits.
IsOperand(v) == IsValue(v) /\ Fits(Value(v), MaxBits)

\* What every call leaves behind: the operands, and a result that is right
\* where it has to be.
IInv == IsOperand(x) /\ IsOperand(y) /\ TypeOK /\ ExactIfItFits

LEMMA FixOperand ==
  ASSUME NEW n \in Int
  PROVE  IsOperand(Fix(n))
  <1>1. IsValue(Fix(n)) /\ ~Fix(n).big
    BY FixNumber
  <1>2. Value(Fix(n)) \in Fixnum
    BY <1>1, ValueIs
  <1> DEFINE v == Value(Fix(n))
             k == LimbBits - 2
  <1>3. Fixnum = -Pow(2, k) .. Pow(2, k) - 1 /\ k \in Nat /\ Fixnum \subseteq Int
    BY FixnumIs
  <1>4. k <= MaxBits /\ MaxBits \in Nat
    BY OperandsAssumption
  <1> HIDE DEF v, k
  <1>5. v \in Int /\ Fits(v, k)
    <2> DEFINE h == Pow(2, k)
    <2>1. v \in -h .. h - 1 /\ v \in Int /\ h \in Nat
      BY <1>2, <1>3, TwoPow DEF v
    <2> HIDE DEF h
    <2>2. -h <= v /\ v < h
      BY ONLY <2>1
    <2> QED
      BY <2>1, <2>2 DEF Fits, h
  <1>6. Fits(v, MaxBits)
    BY ONLY <1>3, <1>4, <1>5, FitsMore
  <1> QED
    BY <1>1, <1>6 DEF IsOperand, v

LEMMA BigOperand ==
  ASSUME NEW v, IsValue(v), Value(v) \in BigOperands
  PROVE  IsOperand(v)
  <1> DEFINE n == Value(v)
             t == Pow(2, MaxBits)
  <1>1. n \in Int /\ Abs(n) < t /\ t \in Nat
    BY OperandsAssumption, TwoPow
  <1> HIDE DEF n, t
  <1>2. -t <= n /\ n < t
    BY ONLY <1>1 DEF Abs
  <1> QED
    BY <1>2 DEF IsOperand, Fits, n, t

LEMMA OperandsAre ==
  ASSUME NEW v \in Operands
  PROVE  IsOperand(v)
  <1>1. ASSUME NEW n \in FixOperands, v = Fix(n) PROVE IsOperand(v)
    <2>1. n \in Int
      BY OperandsAssumption
    <2> QED
      BY <1>1, <2>1, FixOperand
  <1>2. ASSUME NEW n \in BigOperands, v = BigOf(n) PROVE IsOperand(v)
    <2>1. n \in Int /\ Abs(n) < Pow(B, MaxLimbs)
      <3> DEFINE k == LimbBits * MaxLimbs
      <3>1. n \in Int /\ Abs(n) < Pow(2, MaxBits) /\ MaxBits \in Nat /\ MaxBits <= k
        BY OperandsAssumption, SizesAssumption, LimbsAre
      <3>2. LimbBits \in Nat /\ MaxLimbs \in Nat /\ B = Pow(2, LimbBits) /\ k \in Nat
        BY SizesAssumption, LimbsAre
      <3>3. Pow(2, k) = Pow(B, MaxLimbs)
        BY <3>2, PowProduct
      <3> HIDE DEF k
      <3>4. Pow(2, MaxBits) <= Pow(2, k)
        BY ONLY <3>1, <3>2, PowGrows
      <3>5. Pow(2, MaxBits) \in Nat /\ Pow(2, k) \in Nat /\ Abs(n) \in Int
        BY <3>1, <3>2, TwoPow DEF Abs
      <3> QED
        BY ONLY <3>1, <3>3, <3>4, <3>5
    <2>2. Is(mpz_set_d(2 * n), n)
      BY <2>1, SetDoubleIs
    <2>3. BigIs(v, n)
      BY <1>2, <2>2, BigNumber DEF BigOf
    <2>4. IsValue(v) /\ Value(v) \in BigOperands
      BY <2>3 DEF BigIs
    <2> QED
      BY <2>4, BigOperand
  <1> QED
    BY <1>1, <1>2 DEF Operands

\* A call that returns the right number, or is right wherever it fits.
LEMMA CallReturns ==
  ASSUME IInv, NEW name, NEW result, NEW value \in Int, Returns(name, result, value),
         Exactly(result, value), name = "plus" => Value(result) = value
  PROVE  IInv'
  <1>1. x' = x /\ y' = y /\ op' = name /\ res' = result /\ want' = value
    BY DEF Returns
  <1>2. IsOperand(x)' /\ IsOperand(y)'
    BY <1>1 DEF IInv, IsOperand, IsValue, Value
  <1>3. IsValue(res)' /\ want' \in Int
    BY <1>1 DEF Exactly
  <1>4. TypeOK'
    BY <1>2, <1>3 DEF TypeOK, IsOperand
  <1>5. ExactIfItFits'
    BY <1>1 DEF ExactIfItFits, Exactly
  <1> QED
    BY <1>2, <1>4, <1>5 DEF IInv

LEMMA StartsRight == Init => IInv
  <1> SUFFICES ASSUME Init PROVE IInv
    OBVIOUS
  <1>1. IsOperand(x) /\ IsOperand(y) /\ res = x /\ want = Value(x) /\ op = "none"
    BY OperandsAre DEF Init
  <1>2. Value(x) \in Int
    BY <1>1, ValueIs DEF IsOperand
  <1> QED
    BY <1>1, <1>2 DEF IInv, TypeOK, ExactIfItFits, IsOperand

LEMMA StaysRight == IInv /\ [Next]_vars => IInv'
  <1> SUFFICES ASSUME IInv, [Next]_vars PROVE IInv'
    OBVIOUS
  <1>1. /\ IsValue(x) /\ IsValue(y) /\ Value(x) \in Int /\ Value(y) \in Int
        /\ Fits(Value(x), MaxBits) /\ Fits(Value(y), MaxBits)
    BY ValueIs DEF IInv, IsOperand
  <1>2. SmallBits \in Nat /\ SmallBits <= LimbBits - 2 /\ MaxBits \in Nat /\ ShiftCounts \subseteq Nat
    BY OperandsAssumption
  <1>3. CASE CallPlus
    <2>1. IsValue(idris_bigPlus(x, y)) /\ Value(idris_bigPlus(x, y)) = Value(x) + Value(y)
      BY <1>1, <1>2, PlusIs
    <2>2. Exactly(idris_bigPlus(x, y), Value(x) + Value(y)) /\ Value(x) + Value(y) \in Int
      BY <1>1, <2>1 DEF Exactly
    <2> QED
      BY <1>3, <2>1, <2>2, CallReturns DEF CallPlus
  <1>4. CASE CallMinus
    <2>1. Exactly(idris_bigMinus(x, y), Value(x) - Value(y)) /\ Value(x) - Value(y) \in Int
      BY <1>1, <1>2, PlusIs
    <2> QED
      BY <1>4, <2>1, CallReturns DEF CallMinus
  <1>5. CASE CallTimes
    <2>1. Exactly(idris_bigTimes(x, y), Value(x) * Value(y)) /\ Value(x) * Value(y) \in Int
      BY <1>1, TimesIs
    <2> QED
      BY <1>5, <2>1, CallReturns DEF CallTimes
  <1>6. CASE CallDivide
    <2>1. Exactly(idris_bigDivide(x, y), Quot(Value(x), Value(y))) /\ Quot(Value(x), Value(y)) \in Int
      BY <1>1, <1>6, DivideIs, QuotientIsInt DEF CallDivide
    <2> QED
      BY <1>6, <2>1, CallReturns DEF CallDivide
  <1>7. CASE CallMod
    <2>1. Exactly(idris_bigMod(x, y), Rem(Value(x), Value(y))) /\ Rem(Value(x), Value(y)) \in Int
      BY <1>1, <1>7, DivideIs, QuotientIsInt DEF CallMod
    <2> QED
      BY <1>7, <2>1, CallReturns DEF CallMod
  <1>8. CASE CallAnd
    <2> DEFINE w == Signed(BitAnd(MaxBits + 1, Value(x), Value(y)))
    <2>0. w = Meets(TRUE, Value(x), Value(y), MaxBits) /\ Meets(TRUE, Value(x), Value(y), MaxBits) \in Int
      BY <1>1, <1>2, SignedMeets
    <2>1. Exactly(idris_bigAnd(x, y), w) /\ w \in Int
      <3>1. Exactly(idris_bigAnd(x, y), Meets(TRUE, Value(x), Value(y), MaxBits))
        BY <1>1, <1>2, BitwiseIs
      <3> HIDE DEF w
      <3> QED
        BY <2>0, <3>1
    <2>2. Returns("and", idris_bigAnd(x, y), w)
      BY <1>8 DEF CallAnd
    <2> HIDE DEF w
    <2> QED
      BY <2>1, <2>2, CallReturns
  <1>9. CASE CallOr
    <2> DEFINE w == Signed(BitOr(MaxBits + 1, Value(x), Value(y)))
    <2>0. w = Meets(FALSE, Value(x), Value(y), MaxBits) /\ Meets(FALSE, Value(x), Value(y), MaxBits) \in Int
      BY <1>1, <1>2, SignedMeets
    <2>1. Exactly(idris_bigOr(x, y), w) /\ w \in Int
      <3>1. Exactly(idris_bigOr(x, y), Meets(FALSE, Value(x), Value(y), MaxBits))
        BY <1>1, <1>2, BitwiseIs
      <3> HIDE DEF w
      <3> QED
        BY <2>0, <3>1
    <2>2. Returns("or", idris_bigOr(x, y), w)
      BY <1>9 DEF CallOr
    <2> HIDE DEF w
    <2> QED
      BY <2>1, <2>2, CallReturns
  <1>10. CASE CallShiftLeft
    <2>1. PICK n \in ShiftCounts : Returns("shiftLeft", idris_bigShiftLeft(x, n), Value(x) * Pow(2, n))
      BY <1>10 DEF CallShiftLeft
    <2>2. n \in Nat
      BY <1>2
    <2> DEFINE w == Value(x) * Pow(2, n)
    <2>3. Exactly(idris_bigShiftLeft(x, n), w)
      BY <1>1, <2>2, ShiftLeftIs
    <2>4. w \in Int
      BY <1>1, <2>2, TwoPow
    <2> HIDE DEF w
    <2> QED
      BY <2>1, <2>3, <2>4, CallReturns DEF w
  <1>11. CASE CallShiftRight
    <2>1. PICK n \in ShiftCounts : Returns("shiftRight", idris_bigShiftRight(x, n), Value(x) \div Pow(2, n))
      BY <1>11 DEF CallShiftRight
    <2>2. n \in Nat
      BY <1>2
    <2> DEFINE w == Value(x) \div Pow(2, n)
    <2>3. Exactly(idris_bigShiftRight(x, n), w)
      BY <1>1, <2>2, ShiftRightIs
    <2>4. w \in Int
      <3>1. Pow(2, n) \in Nat \ {0}
        BY <2>2, TwoPow
      <3> QED
        BY <1>1, <3>1, DivMod
    <2> HIDE DEF w
    <2> QED
      BY <2>1, <2>3, <2>4, CallReturns DEF w
  <1>12. CASE Continue
    <2>1. y' = y /\ res' = x' /\ op' = "none" /\ want' = Value(x')
      BY <1>12 DEF Continue
    <2>2. IsOperand(x')
      <3>1. CASE x' = x
        BY <3>1 DEF IInv
      <3>2. CASE x' = res /\ res.big /\ Value(res) \in BigOperands
        BY <3>2, BigOperand DEF IInv, TypeOK
      <3>3. CASE x' = res /\ ~res.big
        <4>1. IsValue(res) /\ res.n \in Fixnum
          BY <3>3, ValueIs DEF IInv, TypeOK
        <4>2. IsOperand(Fix(res.n)) /\ Value(Fix(res.n)) = res.n /\ Value(res) = res.n
          <5>1. res.n \in Int
            BY <4>1, FixnumIs
          <5> QED
            BY <3>3, <4>1, <5>1, FixOperand, FixNumber DEF Value
        <4> QED
          BY <3>3, <4>1, <4>2 DEF IsOperand
      <3>4. x' = x \/ (x' = res /\ res.big /\ Value(res) \in BigOperands) \/ (x' = res /\ ~res.big)
        BY <1>12 DEF Continue
      <3> QED
        BY <3>1, <3>2, <3>3, <3>4
    <2>3. Value(x') \in Int
      BY <2>2, ValueIs DEF IsOperand
    <2>4. IsOperand(x)' /\ IsOperand(y)' /\ IsValue(res)' /\ want' \in Int /\ (Value(res) = want)'
      BY <2>1, <2>2, <2>3 DEF IInv, IsOperand, IsValue, Value
    <2> QED
      BY <2>4 DEF IInv, TypeOK, ExactIfItFits, IsOperand
  <1>13. CASE UNCHANGED vars
    BY <1>13 DEF vars, IInv, IsOperand, TypeOK, ExactIfItFits, IsValue, Value
  <1> QED
    BY <1>3, <1>4, <1>5, <1>6, <1>7, <1>8, <1>9, <1>10, <1>11, <1>12, <1>13 DEF Next

LEMMA AlwaysRight == Spec => []IInv
  BY StartsRight, StaysRight, PTL DEF Spec

\* Every operand and every result is a fixnum that fits its word or a big
\* integer whose top limb is not zero, whatever calls follow one another.
THEOREM NumbersAreWellFormed == Spec => []TypeOK
  <1>1. IInv => TypeOK
    BY DEF IInv
  <1> QED
    BY <1>1, AlwaysRight, PTL

\* Every operation on integers of any length returns the number that arithmetic
\* says, unless a fixnum takes a result that does not fit it; a sum does always.
THEOREM ResultsAreExact == Spec => []ExactIfItFits
  <1>1. IInv => ExactIfItFits
    BY DEF IInv
  <1> QED
    BY <1>1, AlwaysRight, PTL

\* The comparisons of the runtime are the order of the numbers.
THEOREM ComparisonsAreRight == Spec => []OrderRight
  <1>1. IInv => OrderRight
    BY OrderSeen DEF IInv, IsOperand
  <1> QED
    BY <1>1, AlwaysRight, PTL

\* The operations on words do not depend on the width they are done in.
THEOREM WordsAlwaysAgree == Spec => []WordsAgree
  <1>1. IInv => WordsAgree
    BY ValueIs, WordsAgreeSeen DEF IInv, IsOperand
  <1> QED
    BY <1>1, AlwaysRight, PTL

\* Ints, copies from in bounds and files leave a Buffer as they came in, and what
\* has no room in a Buffer does not change it.
THEOREM BuffersAlwaysKeep == Spec => []BuffersKept
  <1>1. IInv => BuffersKept
    BY ValueIs, WordsAgreeSeen DEF IInv, IsOperand
  <1> QED
    BY <1>1, AlwaysRight, PTL

\* Where the longest word is a limb, as in the builds for 64 bits, no word is
\* lost on its way through memory or through an integer.
THEOREM WordsAreAlwaysKept ==
  ASSUME W64 = LimbBits
  PROVE  Spec => []WordsKept
  <1>1. IInv => WordsKept
    BY WordsKeptSeen DEF IInv, IsOperand
  <1> QED
    BY <1>1, AlwaysRight, PTL

=============================================================================
